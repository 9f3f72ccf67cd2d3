------------------------------ MODULE BitWSet -------------------------------
(***************************************************************************)
(* The hash table of BitWSet.c: open addressing with linear probing, grown *)
(* when it fills up, and repaired after a removal by adding the items that *)
(* follow the removed one again.                                           *)
(*                                                                         *)
(* Loops over buckets are one step per bucket.  A search along the probe   *)
(* sequence, which changes nothing, is the operator Probe.                 *)
(***************************************************************************)
EXTENDS Integers, Sequences, FiniteSets, Functions

CONSTANTS
  SetId,       \* the sets
  Item,        \* pointers to items
  NoItem,      \* NULL
  Key,         \* items are equal, as eq says, iff their keys are
  Hash,        \* Hash[x]: the hash value of x
  TableSizes,  \* tableSizes, as much of it as is needed
  Capacity     \* Capacity[s]: the capacity s is created with

(* The number of items a table of the given size holds before it grows.    *)
Limit(size) == ((size + 2) \div 3) * 2

ASSUME ItemAssumption ==
  /\ SetId # {}
  /\ NoItem \notin Item
  /\ Hash \in [Item -> Nat]
  /\ Key \in [Item -> Range(Key)]
  /\ \A x, y \in Item : Key[x] = Key[y] => Hash[x] = Hash[y]
(* The table grows while it has a bucket left, and the next table has room *)
(* for all its items: a property of the sizes the code lists, which rise.  *)
ASSUME SizeAssumption ==
  /\ TableSizes \in Seq(Nat \ {0})
  /\ \A i \in 2..Len(TableSizes) : Limit(TableSizes[i]) < TableSizes[i]
  /\ \A i \in 2..(Len(TableSizes) - 1) :
       Limit(TableSizes[i]) < Limit(TableSizes[i + 1])
  /\ \A i, j \in 1..Len(TableSizes) : i < j => TableSizes[i] < TableSizes[j]
  /\ Capacity \in [SetId -> Nat]
(* There are not more items than tables.                                   *)
ASSUME RoomAssumption ==
  /\ IsFiniteSet(Item)
  /\ Len(TableSizes) > 2
  /\ Cardinality(Range(Key)) <= Limit(TableSizes[Len(TableSizes) - 1])
  /\ \A s \in SetId : Capacity[s] <= TableSizes[Len(TableSizes) - 2]

VARIABLES
  set,      \* set[s]: the struct, with its table, size and itemCount
  pc,       \* "idle", "grow", "cleanup" or "bulk"
  cur,      \* the set being grown or cleaned up, if any
  i,        \* the loop's position in its table
  newSet,   \* the table being filled by _BitWSetGrow
  bulk,     \* the operation on two sets in progress, if any
  result    \* what the last operation returned

vars == <<set, pc, cur, i, newSet, bulk, result>>

Buckets(t) == 0..(t.size - 1)

(* _BitWSetInit: the next larger size than the capacity asks for.          *)
NewTable(capacity) ==
  LET fits == {n \in 1..Len(TableSizes) : TableSizes[n] >= capacity}
      size == TableSizes[1 + CHOOSE n \in fits : \A m \in fits : n <= m]
  IN [size |-> size, count |-> 0, table |-> [b \in 0..(size - 1) |-> NoItem]]

Same(x, y) == x = y \/ (x # NoItem /\ y # NoItem /\ Key[x] = Key[y])

(* The first bucket, from the one x hashes to, that is empty or holds an   *)
(* item equal to x.                                                        *)
Probe(t, x) ==
  LET at(d) == (Hash[x] + d) % t.size
      stop(d) == t.table[at(d)] = NoItem \/ Same(t.table[at(d)], x)
  IN at(CHOOSE d \in Buckets(t) : stop(d) /\ \A e \in 0..(d - 1) : ~stop(e))

Lookup(t, x) == t.table[Probe(t, x)]

(* BitWSetIterate: the item in the first filled bucket after that of the   *)
(* previous item, or of all if there is none.                              *)
IterateFrom(t, first) ==
  LET filled == {b \in first..(t.size - 1) : t.table[b] # NoItem}
  IN IF filled = {} THEN NoItem
     ELSE t.table[CHOOSE b \in filled : \A a \in filled : b <= a]

Iterate(t, x) == IterateFrom(t, IF x = NoItem THEN 0 ELSE Probe(t, x) + 1)

Contents(t) == Range(t.table) \ {NoItem}

(* BitWSetAdd up to the growth of the table.                               *)
Place(t, x) ==
  [t EXCEPT !.table[Probe(t, x)] = x,
            !.count = IF Lookup(t, x) = NoItem THEN @ + 1 ELSE @]

Full(t) == t.count > Limit(t.size)

NextBucket(t, b) == (b + 1) % t.size

Emptied(t, b) == [t EXCEPT !.table[b] = NoItem, !.count = @ - 1]

-----------------------------------------------------------------------------
NoBulk == [op |-> "none", set |-> CHOOSE s \in SetId : TRUE,
           other |-> CHOOSE s \in SetId : TRUE, i |-> 0, from |-> {}]

Init ==
  /\ set = [s \in SetId |-> NewTable(Capacity[s])]
  /\ pc = "idle"
  /\ cur = NoBulk.set
  /\ i = 0
  /\ newSet = NewTable(0)
  /\ bulk = NoBulk
  /\ result = NoItem

NoLoop == cur' = NoBulk.set /\ i' = 0 /\ newSet' = NewTable(0)

(* An addition or a removal returns to the loop it is called from, if any. *)
Return == NoLoop /\ pc' = IF bulk.op = "none" THEN "idle" ELSE "bulk"
Returned(r) == result' = IF bulk.op = "none" THEN r ELSE result

(* BitWSetAdd                                                              *)
AddTo(s, x) ==
  LET added == Place(set[s], x)
  IN /\ set' = [set EXCEPT ![s] = added]
     /\ Returned(Lookup(set[s], x))
     /\ IF Full(added)
        THEN /\ pc' = "grow"
             /\ cur' = s
             /\ i' = 0
             /\ newSet' = NewTable(added.size)
        ELSE Return

(* BitWSetRemove up to the cleanup.                                        *)
RemoveFrom(s, x) ==
  LET b == Probe(set[s], x)
      found == set[s].table[b]
  IN /\ Returned(found)
     /\ IF found = NoItem
        THEN Return /\ UNCHANGED set
        ELSE /\ UNCHANGED newSet
             /\ set' = [set EXCEPT ![s] = Emptied(@, b)]
             /\ pc' = "cleanup"
             /\ cur' = s
             /\ i' = NextBucket(set[s], b)

(* _BitWSetGrow: the items move to the new table in the order of their     *)
(* buckets; it has room for all of them.                                   *)
GrowStep ==
  /\ pc = "grow"
  /\ i < set[cur].size
  /\ i' = i + 1
  /\ newSet' = LET x == set[cur].table[i]
               IN IF x = NoItem THEN newSet ELSE Place(newSet, x)
  /\ UNCHANGED <<set, pc, cur, bulk, result>>

GrowDone ==
  /\ pc = "grow"
  /\ i = set[cur].size
  /\ set' = [set EXCEPT ![cur] = newSet]
  /\ Return
  /\ UNCHANGED <<bulk, result>>

CleanupLeaves(t, x) == t
(* One turn of the cleanup: x leaves its bucket and is added again, to a   *)
(* table with no more items than before, which does not grow.              *)
Cleanup(t, x) == Place(Emptied(t, i), x)

CleanupStep ==
  LET x == set[cur].table[i]
  IN /\ pc = "cleanup"
     /\ x # NoItem
     /\ set' = [set EXCEPT ![cur] = Cleanup(@, x)]
     /\ i' = NextBucket(set[cur], i)
     /\ UNCHANGED <<pc, cur, newSet, bulk, result>>

CleanupDone ==
  /\ pc = "cleanup"
  /\ set[cur].table[i] = NoItem
  /\ Return
  /\ UNCHANGED <<set, bulk, result>>

-----------------------------------------------------------------------------
(* The operations of the interface.                                        *)

Add(s, x) == pc = "idle" /\ AddTo(s, x) /\ UNCHANGED bulk

Remove(s, x) == pc = "idle" /\ RemoveFrom(s, x) /\ UNCHANGED bulk

Clear(s) ==
  /\ pc = "idle"
  /\ set' = [set EXCEPT ![s].table = [b \in Buckets(set[s]) |-> NoItem],
                        ![s].count = 0]
  /\ result' = NoItem
  /\ UNCHANGED <<pc, cur, i, newSet, bulk>>

Get(s, x) ==
  /\ pc = "idle"
  /\ result' = Lookup(set[s], x)
  /\ UNCHANGED <<set, pc, cur, i, newSet, bulk>>

Intersects(s, o) ==
  /\ pc = "idle"
  /\ result' = \E x \in Contents(set[o]) : Lookup(set[s], x) # NoItem
  /\ UNCHANGED <<set, pc, cur, i, newSet, bulk>>

(* BitWSetUnion, BitWSetMinus and BitWSetIntersect.  from remembers the    *)
(* contents of the set before the operation, for the refinement only.      *)
Bulk(op, s, o) ==
  /\ pc = "idle"
  /\ pc' = "bulk"
  /\ bulk' = [op |-> op, set |-> s, other |-> o, i |-> 0, from |-> Contents(set[s])]
  /\ result' = NoItem
  /\ UNCHANGED <<set, cur, i, newSet>>

(* The table the loop of the operation runs over.                          *)
Walked == IF bulk.op = "intersect" THEN set[bulk.set] ELSE set[bulk.other]

InBulk(op) == pc = "bulk" /\ bulk.op = op /\ bulk.i < Walked.size

BulkStays == UNCHANGED bulk
BulkAdvances == bulk' = [bulk EXCEPT !.i = @ + 1]

BulkSkip ==
  /\ InBulk(bulk.op)
  /\ LET x == Walked.table[bulk.i]
     IN x # NoItem =>
          bulk.op = "intersect" /\ Lookup(set[bulk.other], x) # NoItem
  /\ BulkAdvances
  /\ UNCHANGED <<set, pc, cur, i, newSet, result>>

UnionStep ==
  /\ InBulk("union")
  /\ Walked.table[bulk.i] # NoItem
  /\ AddTo(bulk.set, Walked.table[bulk.i])
  /\ BulkAdvances

MinusStep ==
  /\ InBulk("minus")
  /\ Walked.table[bulk.i] # NoItem
  /\ RemoveFrom(bulk.set, Walked.table[bulk.i])
  /\ BulkAdvances

AfterRemovalAdvance == BulkAdvances
AfterRemoval == BulkStays

(* The bucket is looked at again: the cleanup may have filled it.          *)
IntersectStep ==
  LET x == Walked.table[bulk.i]
  IN /\ InBulk("intersect")
     /\ x # NoItem
     /\ Lookup(set[bulk.other], x) = NoItem
     /\ RemoveFrom(bulk.set, x)
     /\ AfterRemoval

BulkDone ==
  /\ pc = "bulk"
  /\ bulk.i = Walked.size
  /\ pc' = "idle"
  /\ bulk' = NoBulk
  /\ UNCHANGED <<set, cur, i, newSet, result>>

Continue ==
  \/ GrowStep
  \/ GrowDone
  \/ CleanupStep
  \/ CleanupDone
  \/ BulkSkip
  \/ UnionStep
  \/ MinusStep
  \/ IntersectStep
  \/ BulkDone

Start ==
  \/ \E s \in SetId, x \in Item : Add(s, x)
  \/ \E s \in SetId, x \in Item : Remove(s, x)
  \/ \E s \in SetId : Clear(s)
  \/ \E s \in SetId, x \in Item : Get(s, x)
  \/ \E s, o \in SetId : s # o /\ Intersects(s, o)
  \/ \E s, o \in SetId, op \in {"union", "minus", "intersect"} :
       s # o /\ Bulk(op, s, o)

Next == Start \/ Continue

Spec == Init /\ [][Next]_vars

(* An operation that has begun runs on; nobody has to begin one.           *)
FairSpec == Spec /\ WF_vars(Continue)

-----------------------------------------------------------------------------
Table(t) ==
  /\ t.size \in Range(TableSizes)
  /\ t.count \in Nat
  /\ t.table \in [Buckets(t) -> Item \cup {NoItem}]
  /\ DOMAIN t = {"size", "count", "table"}

TypeOK ==
  /\ DOMAIN set = SetId
  /\ \A s \in SetId : Table(set[s])
  /\ Table(newSet)
  /\ pc \in {"idle", "grow", "cleanup", "bulk"}
  /\ cur \in SetId
  /\ i \in 0..set[cur].size
  /\ pc = "cleanup" => i \in Buckets(set[cur])
  /\ bulk \in [op : {"none", "union", "minus", "intersect"}, set : SetId,
               other : SetId, i : Nat, from : SUBSET Item]
  /\ result \in Item \cup {NoItem} \cup BOOLEAN

(* Set s is not in the middle of a growth or a cleanup.                    *)
Settled(s) == pc \in {"idle", "bulk"} \/ s # cur

(* A search for an item of a set ends at that item, whatever was added and *)
(* removed before: no removal leaves a gap before it, no growth loses it,  *)
(* and no two equal items are in the table.                                *)
EveryItemFound ==
  \A s \in SetId : Settled(s) =>
    \A b \in Buckets(set[s]) :
      set[s].table[b] # NoItem => Probe(set[s], set[s].table[b]) = b

Filled(t) == {b \in Buckets(t) : t.table[b] # NoItem}

(* itemCount is the number of items, also in the middle of an operation    *)
(* that takes items out of the table and puts them back.                   *)
CountRight ==
  \A t \in Range(set) \cup {newSet} :
    t.count = Cardinality(Filled(t))

(* A bucket is empty whenever a search starts, so that it comes to an end. *)
BucketLeft ==
  /\ \A s \in SetId : (Settled(s) \/ pc = "cleanup") => NoItem \in Range(set[s].table)
  /\ NoItem \in Range(newSet.table)

(* A walk from item to item visits each of them, and none twice.           *)
IterationComplete ==
  \A s \in SetId : Settled(s) =>
    LET walked == Contents(set[s]) \cup {NoItem}
    IN \A x \in walked : \E y \in walked :
         {z \in walked : Iterate(set[s], z) = x} = {y}

-----------------------------------------------------------------------------
(* Why the table works: what every step of every operation keeps.          *)

(* The bucket a search for x begins with, how many buckets after a the     *)
(* bucket b is on the way round, and which of two buckets the search for x *)
(* comes to first.                                                         *)
Home(t, x) == Hash[x] % t.size
Ahead(t, a, b) == IF a <= b THEN b - a ELSE b - a + t.size
Before(t, x, c, b) == Ahead(t, Home(t, x), c) < Ahead(t, Home(t, x), b)

OneOfEach(t) ==
  \A b, c \in Filled(t) : Key[t.table[b]] = Key[t.table[c]] => b = c

(* c is a gap on the way of a search for the item in bucket b.             *)
Gap(t, b, c) ==
  b \in Filled(t) /\ c \in Buckets(t) \ Filled(t) /\ Before(t, t.table[b], c, b)

NoGap(t) == \A b, c \in Buckets(t) : ~Gap(t, b, c)

(* From bucket a up to bucket b, on the way round.                         *)
UpTo(t, a, b) == {e \in Buckets(t) : Ahead(t, a, e) <= Ahead(t, a, b)}

(* An item there is a gap before is put in its place by a cleanup that has *)
(* come to bucket a: there is no empty bucket from there to the item.      *)
GapsMended(t, a) ==
  \A b, c \in Buckets(t) : Gap(t, b, c) => UpTo(t, a, b) \subseteq Filled(t)

Unbroken ==
  /\ \A t \in Range(set) \cup {newSet} : OneOfEach(t)
  /\ \A s \in SetId : NoGap(set[s]) \/ (pc = "cleanup" /\ s = cur)
  /\ NoGap(newSet)
  /\ pc = "cleanup" => GapsMended(set[cur], i)

(* A table has one of the listed sizes, not the first nor the last, and no *)
(* more items than that allows, save for one that is being grown.          *)
Room(t) == t.count <= Limit(t.size)

Loads ==
  /\ \A t \in Range(set) \cup {newSet} :
       \E n \in 2..(Len(TableSizes) - 1) : t.size = TableSizes[n]
  /\ \A s \in SetId : Room(set[s]) \/ (pc = "grow" /\ s = cur)
  /\ Room(newSet)

(* Which loops run inside which operations.                                *)
Control ==
  /\ pc = "idle" => bulk.op = "none"
  /\ pc = "bulk" => bulk.op # "none"
  /\ pc = "grow" => bulk.op \in {"none", "union"}
  /\ bulk.op # "none" => bulk.set # bulk.other
  /\ bulk.op # "none" /\ pc \in {"grow", "cleanup"} => cur = bulk.set

(* An operation on two sets returns nothing, and what the steps inside it  *)
(* return is not what it returns.                                          *)
Silent == bulk.op # "none" => result = NoItem

(* The new table has the items of the buckets moved so far, and room for   *)
(* the others.                                                             *)
Moved == {b \in Filled(set[cur]) : b < i}

Growing ==
  pc = "grow" =>
    /\ Contents(newSet) = {set[cur].table[b] : b \in Moved}
    /\ newSet.count = Cardinality(Moved)
    /\ set[cur].count <= Limit(newSet.size)

(* The items of the buckets the operation on two sets has gone past.       *)
Passed == {Walked.table[b] : b \in {c \in Filled(Walked) : c < bulk.i}}

Equalled(S, x) == \E y \in S : Key[y] = Key[x]
Unequalled(S, T) == {x \in S : ~Equalled(T, x)}

(* What a set has become half-way through each operation on two sets.      *)
Joined ==
  bulk.op = "union" =>
    Contents(set[bulk.set]) = Unequalled(bulk.from, Passed) \cup Passed

Subtracted ==
  bulk.op = "minus" => Contents(set[bulk.set]) = Unequalled(bulk.from, Passed)

Sifted ==
  bulk.op = "intersect" =>
    LET own   == Contents(set[bulk.set])
        other == Contents(set[bulk.other])
    IN /\ own \subseteq bulk.from
       /\ \A x \in bulk.from \ own : ~Equalled(other, x)
       /\ \A x \in Passed : Equalled(other, x)

(* The cleanup after a removal by BitWSetIntersect moves no item it has    *)
(* yet to look at into a bucket it has gone past, and does not come round. *)
NoneMissed ==
  bulk.op = "intersect" /\ pc = "cleanup" =>
    LET t == set[bulk.set]
    IN /\ bulk.i \in Buckets(t)
       /\ \A b, c \in Buckets(t) : Gap(t, b, c) /\ b >= bulk.i => c >= bulk.i
       /\ \E e \in Buckets(t) \ Filled(t) :
            /\ Ahead(t, i, e) < Ahead(t, i, bulk.i)
            /\ \A b \in Filled(t) : ~Before(t, t.table[b], e, b)

IInv ==
  /\ TypeOK
  /\ CountRight
  /\ Unbroken
  /\ Loads
  /\ Control
  /\ Silent
  /\ Growing
  /\ Joined
  /\ Subtracted
  /\ Sifted
  /\ NoneMissed

-----------------------------------------------------------------------------
(* The table of a set stays usable, whatever was added, removed and moved: *)
(* all of the above.                                                       *)
TableSound == IInv /\ EveryItemFound /\ BucketLeft /\ IterationComplete

(* The operations do to the sets, and return, what the interface promises; *)
(* an operation on two sets does it at its end.                            *)
Abstract == INSTANCE ItemSet WITH
  items <- [s \in SetId |->
    IF bulk.op # "none" /\ bulk.set = s THEN bulk.from ELSE Contents(set[s])]

ImplementsItemSet == Abstract!Spec

(* Every operation ends.                                                   *)
OperationsEnd == pc # "idle" ~> pc = "idle"
=============================================================================
