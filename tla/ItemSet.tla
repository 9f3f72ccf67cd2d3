------------------------------ MODULE ItemSet -------------------------------
(***************************************************************************)
(* What BitWSet.h promises: sets of items, with at most one of the items   *)
(* that are equal to each other, and what each operation returns.          *)
(***************************************************************************)
CONSTANTS
  SetId,    \* the sets
  Item,     \* pointers to items
  NoItem,   \* NULL
  Key       \* items are equal, as the set's eq function says, iff their keys are

VARIABLES
  items,    \* items[s]: the items in set s
  result    \* what the last operation returned

vars == <<items, result>>

Init == items = [s \in SetId |-> {}] /\ result = NoItem

Equals(s, x) == {y \in items[s] : Key[y] = Key[x]}
Matching(s, o) == {y \in items[s] : Equals(o, y) # {}}

Returned(found) == result' = IF found = {} THEN NoItem ELSE CHOOSE y \in found : TRUE

Void == result' = NoItem

Holds(s, S) == items' = [items EXCEPT ![s] = S]

(* Adds an item, or replaces the one equal to it, and returns that one.    *)
Add(s, x) ==
  /\ Holds(s, (items[s] \ Equals(s, x)) \cup {x})
  /\ Returned(Equals(s, x))

Remove(s, x) ==
  /\ Holds(s, items[s] \ Equals(s, x))
  /\ Returned(Equals(s, x))

Get(s, x) == UNCHANGED items /\ Returned(Equals(s, x))

Intersects(s, o) ==
  /\ UNCHANGED items
  /\ result' = (Matching(s, o) # {})

Clear(s) == Holds(s, {}) /\ Void

Union(s, o) == Holds(s, (items[s] \ Matching(s, o)) \cup items[o]) /\ Void

Minus(s, o) == Holds(s, items[s] \ Matching(s, o)) /\ Void

Intersect(s, o) == Holds(s, Matching(s, o)) /\ Void

Next ==
  \E s \in SetId :
    \/ \E x \in Item : Add(s, x) \/ Remove(s, x) \/ Get(s, x)
    \/ Clear(s)
    \/ \E o \in SetId \ {s} :
         Intersects(s, o) \/ Union(s, o) \/ Minus(s, o) \/ Intersect(s, o)

Spec == Init /\ [][Next]_vars
=============================================================================
