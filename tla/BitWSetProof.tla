---------------------------- MODULE BitWSetProof ----------------------------
(***************************************************************************)
(* The hash table is sound, and implements sets, for every set of items,   *)
(* whatever their keys and hash values, and for all table sizes that       *)
(* satisfy SizeAssumption.                                                 *)
(***************************************************************************)
EXTENDS BitWSet, Numbers, TLAPS, FiniteSetTheorems, FunctionTheorems

-----------------------------------------------------------------------------
(* Searching a table.                                                      *)

LEMMA SizePositive ==
  ASSUME NEW t, Table(t)
  PROVE  t.size \in Nat \ {0}
BY SizeAssumption DEF Table, Range

LEMMA HomeType ==
  ASSUME NEW t, Table(t), NEW x \in Item
  PROVE  Home(t, x) \in Buckets(t)
BY SizePositive, ModFacts, ItemAssumption DEF Home, Buckets

(* Where a search for x may end.                                           *)
Stops(t, x, b) == t.table[b] = NoItem \/ Key[t.table[b]] = Key[x]

LEMMA SameKeys ==
  ASSUME NEW t, Table(t), NEW x \in Item, NEW b \in Buckets(t)
  PROVE  Stops(t, x, b) <=> t.table[b] = NoItem \/ Same(t.table[b], x)
BY ItemAssumption DEF Table, Stops, Same

(* It ends at the first bucket where it may, if there is any.              *)
LEMMA ProbeStops ==
  ASSUME NEW t, Table(t), NEW x \in Item,
         NEW b \in Buckets(t), Stops(t, x, b)
  PROVE  /\ Probe(t, x) \in Buckets(t)
         /\ Stops(t, x, Probe(t, x))
         /\ \A c \in Buckets(t) : Before(t, x, c, Probe(t, x)) => ~Stops(t, x, c)
<1> DEFINE h == Home(t, x)
           at(d) == (Hash[x] + d) % t.size
           stop(d) == t.table[at(d)] = NoItem \/ Same(t.table[at(d)], x)
           D == {d \in Buckets(t) : stop(d)}
           first(d) == stop(d) /\ \A e \in 0..(d - 1) : ~stop(e)
           d0 == CHOOSE d \in Buckets(t) : first(d)
<1>1. t.size \in Nat \ {0} /\ h \in Buckets(t)
  BY SizePositive, HomeType
<1>2. \A d \in Buckets(t) : at(d) = IF h + d < t.size THEN h + d ELSE h + d - t.size
  <2>1. Hash[x] \in Nat /\ t.size \in Nat /\ t.size > 0
    BY <1>1, ItemAssumption
  <2>2. \A d \in 0..(t.size - 1) :
          (Hash[x] + d) % t.size = IF (Hash[x] % t.size) + d < t.size
                                   THEN (Hash[x] % t.size) + d
                                   ELSE (Hash[x] % t.size) + d - t.size
    BY <2>1, ModAdd, Zenon
  <2> QED
    BY <2>2, Zenon DEF Buckets, Home
<1> HIDE DEF h, at
<1>3. \A d \in Buckets(t) : at(d) \in Buckets(t) /\ Ahead(t, h, at(d)) = d
  BY <1>1, <1>2 DEF Buckets, Ahead
<1>4. \A c \in Buckets(t) : Ahead(t, h, c) \in Buckets(t) /\ at(Ahead(t, h, c)) = c
  BY <1>1, <1>2 DEF Buckets, Ahead
<1>5. \A c \in Buckets(t) : stop(Ahead(t, h, c)) <=> Stops(t, x, c)
  BY <1>4, SameKeys
<1>6. \E d \in Buckets(t) : first(d)
  <2>1. D # {} /\ D \in SUBSET Nat
    BY <1>1, <1>4, <1>5 DEF Buckets
  <2>2. PICK d \in D : \A e \in D : d <= e
    BY <2>1, Least
  <2> QED
    BY <1>1, <2>2 DEF Buckets
<1>7. d0 \in Buckets(t) /\ first(d0)
  BY <1>6
<1>8. Probe(t, x) = at(d0)
  BY DEF Probe, at
<1> HIDE DEF d0
<1>9. Stops(t, x, at(d0))
  BY <1>3, <1>5, <1>7
<1>10. ASSUME NEW c \in Buckets(t), Before(t, x, c, at(d0))  PROVE ~Stops(t, x, c)
  <2>1. Ahead(t, h, c) \in 0..(d0 - 1)
    BY <1>1, <1>3, <1>4, <1>7, <1>10 DEF Before, Buckets, h
  <2> QED
    BY <1>5, <1>7, <2>1
<1> QED
  BY <1>3, <1>7, <1>8, <1>9, <1>10

(* Of two buckets a search comes to one first.                             *)
LEMMA BeforeOrder ==
  ASSUME NEW t, Table(t), NEW x \in Item, NEW b \in Buckets(t), NEW c \in Buckets(t)
  PROVE  /\ b = c \/ Before(t, x, b, c) \/ Before(t, x, c, b)
         /\ ~(Before(t, x, b, c) /\ Before(t, x, c, b))
         /\ ~Before(t, x, b, b)
BY SizePositive, HomeType DEF Before, Ahead, Buckets

LEMMA ProbeIs ==
  ASSUME NEW t, Table(t), NEW x \in Item,
         NEW b \in Buckets(t), Stops(t, x, b),
         \A c \in Buckets(t) : Before(t, x, c, b) => ~Stops(t, x, c)
  PROVE  Probe(t, x) = b
BY ProbeStops, BeforeOrder

-----------------------------------------------------------------------------
(* Counting buckets.                                                       *)

LEMMA FilledFinite ==
  ASSUME NEW t, Table(t)
  PROVE  /\ IsFiniteSet(Buckets(t)) /\ Cardinality(Buckets(t)) = t.size
         /\ IsFiniteSet(Filled(t)) /\ Cardinality(Filled(t)) \in Nat
<1>1. IsFiniteSet(Buckets(t)) /\ Cardinality(Buckets(t)) = t.size
  BY SizePositive, FS_Interval DEF Buckets
<1> QED
  BY <1>1, FS_Subset, FS_CardinalityType DEF Filled

Counted(t) == t.count = Cardinality(Filled(t))

LEMMA EmptyLeft ==
  ASSUME NEW t, Table(t), Counted(t), t.count < t.size
  PROVE  \E b \in Buckets(t) : t.table[b] = NoItem
<1>1. Filled(t) # Buckets(t)
  BY FilledFinite DEF Counted
<1> QED
  BY <1>1 DEF Filled

(* There are no more items in a table than keys.                           *)
LEMMA KeysBound ==
  ASSUME NEW t, Table(t), OneOfEach(t)
  PROVE  Cardinality(Filled(t)) <= Cardinality(Range(Key))
<1> DEFINE f == [b \in Filled(t) |-> Key[t.table[b]]]
<1>1. f \in [Filled(t) -> Range(Key)]
  BY ItemAssumption DEF Filled, Table, Range
<1>2. f \in Injection(Filled(t), Range(Key))
  BY <1>1, Fun_IsInj DEF OneOfEach
<1>3. Key \in [Item -> Range(Key)] 
  BY ItemAssumption
<1>4. IsFiniteSet(Range(Key))
  BY <1>3, Fun_RangeProperties, FS_Surjection, RoomAssumption
<1> QED
  BY <1>2, <1>4, FS_Injection

-----------------------------------------------------------------------------
(* A table in which no gap comes before an item.                           *)

Sound(t) == Table(t) /\ Counted(t) /\ OneOfEach(t) /\ NoGap(t)
HasEmpty(t) == \E b \in Buckets(t) : t.table[b] = NoItem

LEMMA FilledItem ==
  ASSUME NEW t, Table(t), NEW b \in Filled(t)
  PROVE  b \in Buckets(t) /\ t.table[b] \in Item
BY DEF Filled, Table

(* A search for an item ends at the bucket of that item.                   *)
LEMMA ItemFound ==
  ASSUME NEW t, Table(t), OneOfEach(t), NoGap(t), NEW b \in Filled(t)
  PROVE  Probe(t, t.table[b]) = b
<1>1. b \in Buckets(t) /\ t.table[b] \in Item
  BY FilledItem
<1>2. ASSUME NEW c \in Buckets(t), Before(t, t.table[b], c, b)
      PROVE  ~Stops(t, t.table[b], c)
  <2>1. c \in Filled(t)
    BY <1>1, <1>2 DEF NoGap, Gap
  <2>2. c # b
    BY <1>1, <1>2, BeforeOrder
  <2> QED
    BY <2>1, <2>2 DEF OneOfEach, Stops, Filled
<1> QED
  BY <1>1, <1>2, ProbeIs DEF Stops

(* Two equal items have the same way.                                      *)
LEMMA SameWay ==
  ASSUME NEW t, NEW x \in Item, NEW y \in Item, Key[x] = Key[y]
  PROVE  \A c, b : Before(t, x, c, b) <=> Before(t, y, c, b)
BY ItemAssumption DEF Before, Home

(* A search finds the item equal to x, if there is one.                    *)
LEMMA LookupFinds ==
  ASSUME NEW t, Table(t), OneOfEach(t), NoGap(t), HasEmpty(t), NEW x \in Item
  PROVE  /\ Probe(t, x) \in Buckets(t)
         /\ Lookup(t, x) = t.table[Probe(t, x)]
         /\ Lookup(t, x) = NoItem => \A y \in Contents(t) : Key[y] # Key[x]
         /\ Lookup(t, x) # NoItem =>
              {y \in Contents(t) : Key[y] = Key[x]} = {Lookup(t, x)}
         /\ \A c \in Buckets(t) :
              Before(t, x, c, Probe(t, x)) => c \in Filled(t)
<1> DEFINE p == Probe(t, x)
<1>1. /\ p \in Buckets(t)
      /\ Stops(t, x, p)
      /\ \A c \in Buckets(t) : Before(t, x, c, p) => ~Stops(t, x, c)
  <2>1. PICK b \in Buckets(t) : t.table[b] = NoItem
    BY DEF HasEmpty
  <2> QED
    BY <2>1, ProbeStops DEF Stops
<1>2. Lookup(t, x) = t.table[p]
  BY DEF Lookup
<1> HIDE DEF p
<1>3. ASSUME NEW b \in Filled(t), Key[t.table[b]] = Key[x]  PROVE b = p
  <2>1. b \in Buckets(t) /\ t.table[b] \in Item
    BY FilledItem
  <2>2. ~Before(t, x, b, p)
    BY <1>1, <1>3, <2>1 DEF Stops
  <2>3. CASE Before(t, x, p, b)
    <3>1. Before(t, t.table[b], p, b)
      BY <1>3, <2>1, <2>3, SameWay
    <3>2. p \in Filled(t)
      BY <1>1, <2>1, <3>1 DEF NoGap, Gap
    <3>3. Key[t.table[p]] = Key[x]
      BY <1>1, <3>2 DEF Stops, Filled
    <3> QED
      BY <1>3, <3>2, <3>3 DEF OneOfEach
  <2> QED
    BY <1>1, <2>1, <2>2, <2>3, BeforeOrder
<1>4. Contents(t) = {t.table[b] : b \in Filled(t)}
  BY DEF Contents, Filled, Table, Range
<1>5. t.table[p] # NoItem => p \in Filled(t) /\ Key[t.table[p]] = Key[x]
  BY <1>1 DEF Filled, Stops
<1>6. t.table[p] = NoItem => p \notin Filled(t)
  BY DEF Filled
<1>7. \A c \in Buckets(t) : Before(t, x, c, p) => c \in Filled(t)
  BY <1>1 DEF Stops, Filled
<1> QED
  BY <1>1, <1>2, <1>3, <1>4, <1>5, <1>6, <1>7 DEF p

-----------------------------------------------------------------------------
(* What an addition does to a table.                                       *)

LEMMA ContentsFilled ==
  ASSUME NEW t, Table(t)
  PROVE  Contents(t) = {t.table[b] : b \in Filled(t)} /\ Contents(t) \subseteq Item
BY DEF Contents, Filled, Table, Range

LEMMA PlaceIs ==
  ASSUME NEW t, Table(t), NEW x \in Item, Probe(t, x) \in Buckets(t)
  PROVE  /\ Table(Place(t, x))
         /\ Place(t, x).size = t.size
         /\ Place(t, x).table = [t.table EXCEPT ![Probe(t, x)] = x]
         /\ Place(t, x).count =
              IF Lookup(t, x) = NoItem THEN t.count + 1 ELSE t.count
<1> DEFINE p == Probe(t, x)
           f == Lookup(t, x)
<1>1. Place(t, x) = [t EXCEPT !.table[p] = x,
                              !.count = IF f = NoItem THEN @ + 1 ELSE @]
  BY DEF Place
<1> HIDE DEF p, f
<1>2. DOMAIN t = {"size", "count", "table"} /\ t.count \in Nat
  BY DEF Table
<1>3. /\ Place(t, x).size = t.size
      /\ Place(t, x).table = [t.table EXCEPT ![p] = x]
      /\ Place(t, x).count = IF f = NoItem THEN t.count + 1 ELSE t.count
      /\ DOMAIN Place(t, x) = {"size", "count", "table"}
  BY <1>1, <1>2
<1>4. Table(Place(t, x))
  <2>1. t.table \in [Buckets(t) -> Item \cup {NoItem}] /\ t.size \in Range(TableSizes)
    BY DEF Table
  <2>2. Place(t, x).table \in [Buckets(t) -> Item \cup {NoItem}]
    BY <1>3, <2>1
  <2>3. Buckets(Place(t, x)) = Buckets(t)
    BY <1>3 DEF Buckets
  <2> QED
    BY <1>2, <1>3, <2>1, <2>2, <2>3 DEF Table
<1> QED
  BY <1>3, <1>4 DEF p, f

(* A table that has room stays sound, with x in the place of any item      *)
(* equal to it.                                                            *)
LEMMA PlaceSound ==
  ASSUME NEW t, Sound(t), HasEmpty(t), NEW x \in Item
  PROVE  LET u == Place(t, x)
         IN /\ Sound(u)
            /\ u.size = t.size
            /\ u.count = IF Lookup(t, x) = NoItem THEN t.count + 1 ELSE t.count
            /\ Contents(u) = {y \in Contents(t) : Key[y] # Key[x]} \cup {x}
<1> DEFINE u == Place(t, x)
           p == Probe(t, x)
<1>1. /\ Table(t) /\ Counted(t) /\ OneOfEach(t) /\ NoGap(t)
      /\ p \in Buckets(t)
      /\ Lookup(t, x) = t.table[p]
      /\ \A c \in Buckets(t) : Before(t, x, c, p) => c \in Filled(t)
  BY LookupFinds DEF Sound
<1>2. /\ Table(u)
      /\ u.size = t.size
      /\ u.table = [t.table EXCEPT ![p] = x]
      /\ u.count = IF Lookup(t, x) = NoItem THEN t.count + 1 ELSE t.count
  BY <1>1, PlaceIs
<1>3. /\ Lookup(t, x) = NoItem => \A y \in Contents(t) : Key[y] # Key[x]
      /\ Lookup(t, x) # NoItem =>
           {y \in Contents(t) : Key[y] = Key[x]} = {Lookup(t, x)}
  BY <1>1, LookupFinds
<1> HIDE DEF u, p
<1>4. /\ Buckets(u) = Buckets(t)
      /\ u.table[p] = x
      /\ \A b \in Buckets(t) \ {p} : u.table[b] = t.table[b]
  BY <1>1, <1>2 DEF Buckets, Table
<1>5. Filled(u) = Filled(t) \cup {p}
  BY <1>1, <1>4, ItemAssumption DEF Filled
<1>6. \A b \in Filled(t) : b # p => Key[t.table[b]] # Key[x]
  BY <1>1, <1>3, ContentsFilled DEF OneOfEach, Filled
<1>7. Counted(u)
  <2>1. IsFiniteSet(Filled(t)) /\ Cardinality(Filled(t)) \in Nat
    BY <1>1, FilledFinite
  <2>2. p \in Filled(t) <=> Lookup(t, x) # NoItem
    BY <1>1 DEF Filled
  <2> QED
    BY <1>1, <1>2, <1>5, <2>1, <2>2, FS_AddElement DEF Counted
<1>8. OneOfEach(u)
  BY <1>1, <1>4, <1>5, <1>6 DEF OneOfEach, Filled
<1>9. NoGap(u)
  <2> SUFFICES ASSUME NEW b \in Buckets(u), NEW c \in Buckets(u), Gap(u, b, c)
               PROVE  FALSE
    BY DEF NoGap
  <2>1. \A y, a, d : Before(u, y, a, d) <=> Before(t, y, a, d)
    BY <1>2 DEF Before, Home, Ahead
  <2>2. c \in Buckets(t) \ Filled(t) /\ c # p /\ Before(t, u.table[b], c, b)
    BY <1>4, <1>5, <2>1 DEF Gap
  <2>3. CASE b = p
    BY <1>1, <1>4, <2>2, <2>3
  <2>4. CASE b # p
    BY <1>1, <1>4, <1>5, <2>2, <2>4 DEF NoGap, Gap
  <2> QED
    BY <2>3, <2>4
<1>10. Contents(u) = {y \in Contents(t) : Key[y] # Key[x]} \cup {x}
  <2>1. Contents(u) = {u.table[b] : b \in Filled(t) \ {p}} \cup {x}
    <3>1. Contents(u) = {u.table[b] : b \in Filled(u)}
      BY <1>2, ContentsFilled
    <3>2. Filled(u) = (Filled(t) \ {p}) \cup {p}
      BY <1>5
    <3> QED
      BY <1>4, <3>1, <3>2
  <2>2. {u.table[b] : b \in Filled(t) \ {p}} = {t.table[b] : b \in Filled(t) \ {p}}
    BY <1>4 DEF Filled
  <2>3. {t.table[b] : b \in Filled(t) \ {p}} = {y \in Contents(t) : Key[y] # Key[x]}
    <3>1. \A b \in Filled(t) : b = p => Key[t.table[b]] = Key[x]
      BY <1>1, <1>3, ContentsFilled DEF Filled
    <3> QED
      BY <1>1, <1>6, <3>1, ContentsFilled
  <2> QED
    BY <2>1, <2>2, <2>3
<1> QED
  BY <1>2, <1>7, <1>8, <1>9, <1>10 DEF u, Sound

-----------------------------------------------------------------------------
(* What a removal and its cleanup do to a table.                           *)

LEMMA EmptiedIs ==
  ASSUME NEW t, Table(t), Counted(t), OneOfEach(t), NEW b \in Filled(t)
  PROVE  LET u == Emptied(t, b)
         IN /\ Table(u) /\ Counted(u) /\ OneOfEach(u)
            /\ u.size = t.size
            /\ u.count = t.count - 1
            /\ u.table = [t.table EXCEPT ![b] = NoItem]
            /\ Filled(u) = Filled(t) \ {b}
            /\ Contents(u) = Contents(t) \ {t.table[b]}
<1> DEFINE u == Emptied(t, b)
<1>1. /\ b \in Buckets(t) /\ t.table[b] # NoItem
      /\ t.table \in [Buckets(t) -> Item \cup {NoItem}]
      /\ DOMAIN t = {"size", "count", "table"}
      /\ t.size \in Range(TableSizes) /\ t.count \in Nat
  BY DEF Filled, Table
<1>2. /\ u.size = t.size
      /\ u.table = [t.table EXCEPT ![b] = NoItem]
      /\ u.count = t.count - 1
      /\ DOMAIN u = {"size", "count", "table"}
  BY <1>1 DEF Emptied
<1> HIDE DEF u
<1>3. u.table \in [Buckets(t) -> Item \cup {NoItem}] /\ Buckets(u) = Buckets(t)
  BY <1>1, <1>2 DEF Buckets
<1>4. Filled(u) = Filled(t) \ {b}
  BY <1>1, <1>2, <1>3 DEF Filled
<1>5. Cardinality(Filled(u)) = t.count - 1 /\ t.count # 0
  <2>1. IsFiniteSet(Filled(t)) /\ t.count = Cardinality(Filled(t))
    BY FilledFinite DEF Counted
  <2> QED
    BY <1>4, <2>1, FS_RemoveElement, FS_EmptySet
<1>6. Table(u) /\ Counted(u)
  BY <1>1, <1>2, <1>3, <1>5 DEF Table, Counted
<1>7. \A d \in Filled(u) : u.table[d] = t.table[d]
  BY <1>1, <1>2, <1>4 DEF Filled
<1>8. OneOfEach(u)
  BY <1>4, <1>7 DEF OneOfEach
<1>9. Contents(u) = Contents(t) \ {t.table[b]}
  <2>1. Contents(u) = {t.table[d] : d \in Filled(t) \ {b}}
    BY <1>4, <1>6, <1>7, ContentsFilled
  <2>2. \A d \in Filled(t) : t.table[d] = t.table[b] => d = b
    BY DEF OneOfEach
  <2> QED
    BY <2>1, <2>2, ContentsFilled
<1> QED
  BY <1>2, <1>4, <1>6, <1>8, <1>9 DEF u

LEMMA NextIs ==
  ASSUME NEW t, Table(t), NEW a \in Buckets(t)
  PROVE  /\ NextBucket(t, a) \in Buckets(t)
         /\ NextBucket(t, a) = IF a + 1 < t.size THEN a + 1 ELSE 0
<1>1. t.size \in Nat /\ t.size > 0 /\ a \in 0..(t.size - 1)
  BY SizePositive DEF Buckets
<1>2. CASE a + 1 < t.size
  <2>1. a + 1 = t.size * 0 + (a + 1)
    BY <1>1
  <2>2. (a + 1) % t.size = a + 1
    BY <1>1, <1>2, <2>1
  <2> QED
    BY <1>1, <1>2, <2>2 DEF NextBucket, Buckets
<1>3. CASE a + 1 = t.size
  <2>1. (a + 1) % t.size = 0
    BY <1>1, <1>3
  <2> QED
    BY <1>1, <1>3, <2>1 DEF NextBucket, Buckets
<1> QED
  BY <1>1, <1>2, <1>3

(* The gap a removal leaves comes before items that no other gap follows.  *)
LEMMA RemovalOpens ==
  ASSUME NEW t, Sound(t), NEW b \in Filled(t)
  PROVE  LET u == Emptied(t, b)
         IN /\ GapsMended(u, NextBucket(t, b))
            /\ \A d, c \in Buckets(u) : Gap(u, d, c) => c = b
<1> DEFINE u == Emptied(t, b)
           a == NextBucket(t, b)
<1>1. /\ Table(t) /\ Counted(t) /\ OneOfEach(t) /\ NoGap(t)
      /\ b \in Buckets(t)
  BY FilledItem DEF Sound
<1>2. /\ Table(u)
      /\ u.size = t.size
      /\ u.table = [t.table EXCEPT ![b] = NoItem]
      /\ Filled(u) = Filled(t) \ {b}
  BY <1>1, EmptiedIs
<1>3. a \in Buckets(t) /\ a = IF b + 1 < t.size THEN b + 1 ELSE 0
  BY <1>1, NextIs
<1> HIDE DEF u, a
<1>4. /\ Buckets(u) = Buckets(t)
      /\ \A y, c, d : Before(u, y, c, d) <=> Before(t, y, c, d)
      /\ \A c, d : Ahead(u, c, d) = Ahead(t, c, d)
  BY <1>2 DEF Buckets, Before, Home, Ahead
<1>5. ASSUME NEW d \in Buckets(u), NEW c \in Buckets(u), Gap(u, d, c)
      PROVE  /\ c = b /\ d \in Filled(t) /\ d # b
             /\ t.table[d] \in Item /\ Before(t, t.table[d], b, d)
  <2>1. /\ d \in Filled(t) \ {b} /\ c \in Buckets(t)
        /\ c \notin Filled(t) \ {b} /\ Before(u, u.table[d], c, d)
    BY <1>2, <1>4, <1>5 DEF Gap
  <2>2. u.table[d] = t.table[d]
    BY <1>1, <1>2, <2>1 DEF Table, Filled
  <2>3. Before(t, t.table[d], c, d) /\ t.table[d] \in Item /\ d \in Buckets(t)
    BY <1>1, <1>4, <2>1, <2>2, FilledItem
  <2>4. c = b
    BY <1>1, <2>1, <2>3 DEF NoGap, Gap
  <2> QED
    BY <2>1, <2>3, <2>4
<1>6. ASSUME NEW d \in Buckets(u), NEW c \in Buckets(u), Gap(u, d, c),
             NEW e \in UpTo(u, a, d)
      PROVE  e \in Filled(u)
  <2> DEFINE x == t.table[d]
             h == Home(t, x)
  <2>1. /\ d \in Filled(t) /\ d \in Buckets(t) /\ d # b
        /\ x \in Item /\ Before(t, x, b, d)
    BY <1>4, <1>5, <1>6
  <2>2. e \in Buckets(t) /\ Ahead(t, a, e) <= Ahead(t, a, d)
    BY <1>4, <1>6 DEF UpTo
  <2>3. t.size \in Nat /\ h \in Buckets(t)
    BY <1>1, <2>1, SizePositive, HomeType
  <2>4. Ahead(t, h, b) < Ahead(t, h, d)
    BY <2>1 DEF Before
  <2> HIDE DEF x, h
  <2>5. e # b /\ (e = d \/ Ahead(t, h, e) < Ahead(t, h, d))
    BY <1>1, <1>3, <2>1, <2>2, <2>3, <2>4 DEF Ahead, Buckets
  <2>6. e = d \/ Before(t, x, e, d)
    BY <2>5 DEF Before, h
  <2>7. e \in Filled(t)
    BY <1>1, <2>1, <2>2, <2>6 DEF NoGap, Gap, x
  <2> QED
    BY <1>2, <2>5, <2>7
<1>7. GapsMended(u, a)
  BY <1>6 DEF GapsMended
<1> QED
  BY <1>5, <1>7 DEF u, a

(* Where a turn of the cleanup at bucket a puts the item found there.      *)
LEMMA TurnMoves ==
  ASSUME NEW t, Table(t), Counted(t), OneOfEach(t), NEW a \in Filled(t)
  PROVE  LET x == t.table[a]
             u == Place(Emptied(t, a), x)
             p == Probe(Emptied(t, a), x)
         IN /\ Table(u) /\ Counted(u) /\ OneOfEach(u)
            /\ u.size = t.size
            /\ u.count = t.count
            /\ Contents(u) = Contents(t)
            /\ p \in Buckets(t)
            /\ Filled(u) = (Filled(t) \ {a}) \cup {p}
            /\ u.table[p] = x
            /\ \A b \in Filled(u) \ {p} : b # a /\ u.table[b] = t.table[b]
            /\ p = a \/ (p \notin Filled(t) /\ Before(t, x, p, a))
            /\ \A c \in Buckets(t) : Before(t, x, c, p) => c \in Filled(u)
<1> DEFINE x == t.table[a]
           v == Emptied(t, a)
           p == Probe(v, x)
           u == Place(v, x)
<1>1. a \in Buckets(t) /\ x \in Item
  BY FilledItem
<1>2. /\ Table(v) /\ Counted(v) /\ OneOfEach(v)
      /\ v.size = t.size
      /\ v.count = t.count - 1
      /\ v.table = [t.table EXCEPT ![a] = NoItem]
      /\ Filled(v) = Filled(t) \ {a}
      /\ Contents(v) = Contents(t) \ {x}
  BY EmptiedIs
<1>3. /\ Buckets(v) = Buckets(t)
      /\ \A y, c, d : Before(v, y, c, d) <=> Before(t, y, c, d)
  BY <1>2 DEF Buckets, Before, Home, Ahead
<1> HIDE DEF v
<1>4. v.table[a] = NoItem
  BY <1>1, <1>2 DEF Table
<1>5. /\ p \in Buckets(t)
      /\ Stops(v, x, p)
      /\ \A c \in Buckets(t) : Before(t, x, c, p) => ~Stops(v, x, c)
  <2>1. Stops(v, x, a) /\ a \in Buckets(v)
    BY <1>1, <1>3, <1>4 DEF Stops
  <2>2. /\ p \in Buckets(v)
        /\ Stops(v, x, p)
        /\ \A c \in Buckets(v) : Before(v, x, c, p) => ~Stops(v, x, c)
    BY <1>1, <1>2, <2>1, ProbeStops
  <2> QED
    BY <1>3, <2>2
<1>6. \A b \in Filled(v) : v.table[b] = t.table[b] /\ Key[v.table[b]] # Key[x]
  BY <1>2 DEF OneOfEach, Filled, Table
<1>7. v.table[p] = NoItem /\ p \notin Filled(v) /\ Lookup(v, x) = NoItem
  BY <1>3, <1>5, <1>6 DEF Stops, Filled, Lookup
<1>8. /\ Table(u)
      /\ u.size = v.size
      /\ u.table = [v.table EXCEPT ![p] = x]
      /\ u.count = v.count + 1
  BY <1>1, <1>2, <1>3, <1>5, <1>7, PlaceIs
<1> HIDE DEF p, u
<1>9. /\ Buckets(u) = Buckets(t)
      /\ u.table[p] = x
      /\ \A b \in Buckets(t) \ {p} : u.table[b] = v.table[b]
  BY <1>2, <1>3, <1>5, <1>8 DEF Buckets, Table
<1>10. Filled(u) = Filled(v) \cup {p}
  BY <1>1, <1>3, <1>5, <1>9, ItemAssumption DEF Filled
<1>11. u.count = t.count /\ Counted(u)
  <2>1. IsFiniteSet(Filled(v)) /\ Cardinality(Filled(v)) \in Nat /\ t.count \in Nat
    BY <1>2, FilledFinite DEF Table
  <2>2. Cardinality(Filled(u)) = Cardinality(Filled(v)) + 1
    BY <1>7, <1>10, <2>1, FS_AddElement
  <2>3. v.count = Cardinality(Filled(v))
    BY <1>2 DEF Counted
  <2>4. u.count = t.count
    BY <1>2, <1>8, <2>1
  <2>5. u.count = Cardinality(Filled(u))
    BY <1>8, <2>1, <2>2, <2>3
  <2> QED
    BY <2>4, <2>5 DEF Counted
<1>12. \A b \in Filled(u) \ {p} : b \in Filled(v) /\ b # a /\ u.table[b] = t.table[b]
  BY <1>2, <1>3, <1>6, <1>9, <1>10 DEF Filled
<1>13. OneOfEach(u)
  BY <1>2, <1>6, <1>9, <1>10, <1>12 DEF OneOfEach
<1>14. Contents(u) = Contents(t)
  <2>1. Contents(u) = {u.table[b] : b \in Filled(v)} \cup {x}
    <3>1. Contents(u) = {u.table[b] : b \in Filled(u)}
      BY <1>8, ContentsFilled
    <3> QED
      BY <1>9, <1>10, <3>1
  <2>2. {u.table[b] : b \in Filled(v)} = {v.table[b] : b \in Filled(v)}
    BY <1>6, <1>7, <1>10, <1>12
  <2>3. x \in Contents(t)
    BY ContentsFilled
  <2> QED
    BY <1>2, <2>1, <2>2, <2>3, ContentsFilled
<1>15. p = a \/ (p \notin Filled(t) /\ Before(t, x, p, a))
  <2>1. ~Before(t, x, a, p)
    BY <1>1, <1>4, <1>5 DEF Stops
  <2> QED
    BY <1>1, <1>2, <1>5, <1>7, <2>1, BeforeOrder
<1>16. \A c \in Buckets(t) : Before(t, x, c, p) => c \in Filled(u)
  BY <1>3, <1>5, <1>10 DEF Stops, Filled
<1> QED
  BY <1>2, <1>5, <1>8, <1>9, <1>10, <1>11, <1>12, <1>13, <1>14, <1>15, <1>16
  DEF u, p, v

(* A gap that is there after the turn was there before it, or is the       *)
(* bucket the item left.                                                   *)
LEMMA TurnGaps ==
  ASSUME NEW t, Table(t), Counted(t), OneOfEach(t), NEW a \in Filled(t),
         NEW b \in Buckets(t), NEW c \in Buckets(t),
         Gap(Place(Emptied(t, a), t.table[a]), b, c)
  PROVE  /\ b \in Filled(t) \ {a}
         /\ Gap(t, b, c) \/ (c = a /\ Before(t, t.table[b], a, b))
<1> DEFINE x == t.table[a]
           u == Place(Emptied(t, a), x)
           p == Probe(Emptied(t, a), x)
<1>1. /\ Table(u)
      /\ u.size = t.size
      /\ p \in Buckets(t)
      /\ Filled(u) = (Filled(t) \ {a}) \cup {p}
      /\ u.table[p] = x
      /\ \A d \in Filled(u) \ {p} : d # a /\ u.table[d] = t.table[d]
      /\ \A d \in Buckets(t) : Before(t, x, d, p) => d \in Filled(u)
  BY TurnMoves
<1> HIDE DEF x, u, p
<1>2. \A y, d, e : Before(u, y, d, e) <=> Before(t, y, d, e)
  BY <1>1 DEF Before, Home, Ahead
<1>3. b \in Filled(u) /\ c \notin Filled(u) /\ Before(t, u.table[b], c, b)
  BY <1>2 DEF Gap, u, x
<1>4. b # p
  BY <1>1, <1>3
<1>5. b \in Filled(t) \ {a} /\ u.table[b] = t.table[b]
  BY <1>1, <1>3, <1>4
<1>6. c = a \/ c \notin Filled(t)
  BY <1>1, <1>3
<1> QED
  BY <1>3, <1>5, <1>6 DEF Gap

LEMMA TurnMends ==
  ASSUME NEW t, Table(t), Counted(t), OneOfEach(t), NEW a \in Filled(t),
         GapsMended(t, a)
  PROVE  GapsMended(Place(Emptied(t, a), t.table[a]), NextBucket(t, a))
<1> DEFINE u == Place(Emptied(t, a), t.table[a])
           n == NextBucket(t, a)
<1>1. /\ u.size = t.size
      /\ Filled(t) \ {a} \subseteq Filled(u)
  BY TurnMoves
<1>2. a \in Buckets(t) /\ n \in Buckets(t) /\ n = IF a + 1 < t.size THEN a + 1 ELSE 0
  BY NextIs, FilledItem
<1> HIDE DEF u, n
<1>3. Buckets(u) = Buckets(t) /\ \A d, e : Ahead(u, d, e) = Ahead(t, d, e)
  BY <1>1 DEF Buckets, Ahead
<1> SUFFICES ASSUME NEW b \in Buckets(t), NEW c \in Buckets(t), Gap(u, b, c),
                    NEW e \in UpTo(u, n, b)
             PROVE  e \in Filled(u)
  BY <1>3 DEF GapsMended, u, n
<1>4. /\ b \in Filled(t) \ {a}
      /\ Gap(t, b, c) \/ (c = a /\ Before(t, t.table[b], a, b))
  BY TurnGaps DEF u
<1>5. e \in Buckets(t) /\ Ahead(t, n, e) <= Ahead(t, n, b)
  BY <1>3 DEF UpTo
<1>6. t.size \in Nat
  BY SizePositive
<1>7. e # a /\ e \in UpTo(t, a, b)
  BY <1>2, <1>4, <1>5, <1>6 DEF UpTo, Ahead, Buckets
<1>8. e \in Filled(t)
  <2>1. CASE Gap(t, b, c)
    BY <1>7, <2>1 DEF GapsMended
  <2>2. CASE Before(t, t.table[b], a, b) /\ e \notin Filled(t)
    <3> DEFINE h == Home(t, t.table[b])
    <3>1. h \in Buckets(t)
      BY <1>4, FilledItem, HomeType
    <3>2. Ahead(t, h, a) < Ahead(t, h, b) /\ Ahead(t, a, e) <= Ahead(t, a, b) /\ e # b
      BY <1>4, <1>7, <2>2 DEF Before, UpTo
    <3> HIDE DEF h
    <3>3. Ahead(t, h, e) < Ahead(t, h, b)
      BY <1>2, <1>5, <1>6, <3>1, <3>2 DEF Ahead, Buckets
    <3>4. Gap(t, b, e)
      BY <1>4, <1>5, <2>2, <3>3 DEF Gap, Before, h
    <3> QED
      BY <1>5, <1>7, <3>4 DEF GapsMended
  <2> QED
    BY <1>4, <2>1, <2>2
<1> QED
  BY <1>1, <1>7, <1>8

(* A cleanup that has come to an empty bucket leaves no gap.               *)
LEMMA NothingToMend ==
  ASSUME NEW t, Table(t), NEW a \in Buckets(t), t.table[a] = NoItem,
         GapsMended(t, a)
  PROVE  NoGap(t)
<1> SUFFICES ASSUME NEW b \in Buckets(t), NEW c \in Buckets(t), Gap(t, b, c)
             PROVE  FALSE
  BY DEF NoGap
<1>1. a \in UpTo(t, a, b)
  BY SizePositive DEF UpTo, Ahead, Buckets
<1>2. a \in Filled(t)
  BY <1>1 DEF GapsMended
<1> QED
  BY <1>2 DEF Filled

-----------------------------------------------------------------------------
(* New and cleared tables.                                                 *)

Listed(t) == \E n \in 2..(Len(TableSizes) - 1) : t.size = TableSizes[n]
Base(t) == Table(t) /\ Counted(t) /\ OneOfEach(t) /\ Listed(t)
AtRest(t) == Base(t) /\ NoGap(t) /\ Room(t)

LEMMA LimitType ==
  ASSUME NEW n \in Nat
  PROVE  Limit(n) \in Nat
BY DEF Limit

(* A table that is not being grown has an empty bucket.                    *)
LEMMA RoomLeft ==
  ASSUME NEW t, Base(t), Room(t)
  PROVE  HasEmpty(t)
<1>1. t.size \in Nat /\ Limit(t.size) < t.size /\ Limit(t.size) \in Nat
  <2>1. PICK n \in 2..(Len(TableSizes) - 1) : t.size = TableSizes[n]
    BY DEF Base, Listed
  <2>2. n \in 2..Len(TableSizes)
    BY SizeAssumption
  <2>3. Limit(t.size) < t.size
    BY <2>1, <2>2, SizeAssumption
  <2>4. t.size \in Nat
    BY SizePositive DEF Base
  <2> QED
    BY <2>3, <2>4, LimitType
<1>2. t.count < t.size
  BY <1>1 DEF Base, Table, Room
<1> QED
  BY <1>2, EmptyLeft DEF Base, HasEmpty

LEMMA EmptyTable ==
  ASSUME NEW n \in 2..(Len(TableSizes) - 1), NEW t,
         DOMAIN t = {"size", "count", "table"},
         t.size = TableSizes[n], t.count = 0,
         t.table = [b \in 0..(t.size - 1) |-> NoItem]
  PROVE  AtRest(t) /\ Contents(t) = {}
<1>1. t.size \in Nat \ {0} /\ t.size \in Range(TableSizes)
  BY SizeAssumption DEF Range
<1>2. Table(t)
  BY <1>1 DEF Table, Buckets
<1>3. Filled(t) = {}
  BY DEF Filled, Buckets
<1>4. Counted(t) /\ OneOfEach(t) /\ NoGap(t) /\ Contents(t) = {}
  BY <1>2, <1>3, FS_EmptySet, ContentsFilled DEF Counted, OneOfEach, NoGap, Gap
<1>5. Room(t) /\ Listed(t)
  <2>1. Limit(t.size) \in Nat
    BY <1>1, LimitType
  <2> QED
    BY <2>1 DEF Room, Listed
<1> QED
  BY <1>2, <1>4, <1>5 DEF AtRest, Base

(* A new table has the size after the least one that is large enough.      *)
LEMMA NewTableIs ==
  ASSUME NEW capacity, NEW k \in 1..(Len(TableSizes) - 2),
         capacity \in Nat, TableSizes[k] >= capacity
  PROVE  /\ AtRest(NewTable(capacity)) /\ Contents(NewTable(capacity)) = {}
         /\ NewTable(capacity).count = 0
         /\ capacity = TableSizes[k] => NewTable(capacity).size = TableSizes[k + 1]
<1> DEFINE fits == {n \in 1..Len(TableSizes) : TableSizes[n] >= capacity}
           least == CHOOSE n \in fits : \A m \in fits : n <= m
           t == NewTable(capacity)
<1>1. Len(TableSizes) \in Nat /\ \A n \in 1..Len(TableSizes) : TableSizes[n] \in Nat
  BY SizeAssumption
<1>2. k \in fits /\ fits \in SUBSET Nat
  BY <1>1
<1>3. \E n \in fits : \A m \in fits : n <= m
  BY <1>2, Least
<1>4. least \in fits /\ \A m \in fits : least <= m
  BY <1>3
<1> HIDE DEF least
<1>5. t = [size |-> TableSizes[1 + least], count |-> 0,
           table |-> [b \in 0..(TableSizes[1 + least] - 1) |-> NoItem]]
  BY DEF NewTable, least
<1>6. 1 + least \in 2..(Len(TableSizes) - 1)
  BY <1>1, <1>2, <1>4
<1> HIDE DEF t
<1>7. AtRest(t) /\ Contents(t) = {}
  <2>1. /\ DOMAIN t = {"size", "count", "table"}
        /\ t.size = TableSizes[1 + least]
        /\ t.count = 0
        /\ t.table = [b \in 0..(t.size - 1) |-> NoItem]
    BY <1>5
  <2> QED
    BY <1>6, <2>1, EmptyTable
<1>8. ASSUME capacity = TableSizes[k]  PROVE t.size = TableSizes[k + 1]
  <2>1. least = k
    BY <1>1, <1>2, <1>4, <1>8, SizeAssumption
  <2> QED
    BY <1>5, <2>1
<1>9. t.count = 0
  BY <1>5
<1> QED
  BY <1>7, <1>8, <1>9 DEF t

LEMMA FirstTable ==
  AtRest(NewTable(0)) /\ Contents(NewTable(0)) = {}
<1>1. 1 \in 1..(Len(TableSizes) - 2) /\ TableSizes[1] >= 0
  BY SizeAssumption, RoomAssumption
<1> QED
  BY <1>1, NewTableIs

-----------------------------------------------------------------------------
(* The tables, whatever operation they are in.                             *)

Tables ==
  /\ DOMAIN set = SetId
  /\ cur \in SetId
  /\ pc \in {"idle", "grow", "cleanup", "bulk"}
  /\ i \in 0..set[cur].size
  /\ AtRest(newSet)
  /\ \A s \in SetId : AtRest(set[s]) \/ (pc \in {"grow", "cleanup"} /\ s = cur)
  /\ pc = "grow" => Base(set[cur]) /\ NoGap(set[cur])
  /\ pc = "cleanup" =>
       /\ Base(set[cur]) /\ Room(set[cur])
       /\ i \in Buckets(set[cur]) /\ GapsMended(set[cur], i)

BulkType ==
  bulk \in [op : {"none", "union", "minus", "intersect"}, set : SetId,
            other : SetId, i : Nat, from : SUBSET Item]
ResultType == result \in Item \cup {NoItem} \cup BOOLEAN /\ Silent

LEMMA IInvIs ==
  IInv <=> /\ Tables /\ BulkType /\ ResultType /\ Control /\ Growing
           /\ Joined /\ Subtracted /\ Sifted /\ NoneMissed
<1> DEFINE P == /\ DOMAIN set = SetId
                /\ cur \in SetId
                /\ pc \in {"idle", "grow", "cleanup", "bulk"}
                /\ i \in 0..set[cur].size
                /\ \A s \in SetId : Base(set[s])
                /\ Base(newSet) /\ NoGap(newSet) /\ Room(newSet)
                /\ \A s \in SetId : NoGap(set[s]) \/ (pc = "cleanup" /\ s = cur)
                /\ \A s \in SetId : Room(set[s]) \/ (pc = "grow" /\ s = cur)
                /\ pc = "cleanup" => i \in Buckets(set[cur]) /\ GapsMended(set[cur], i)
<1>1. P <=> Tables
  BY DEF Tables, AtRest
<1>2. DOMAIN set = SetId => Range(set) = {set[s] : s \in SetId}
  BY DEF Range
<1>3. DOMAIN set = SetId =>
        (CountRight <=> (\A s \in SetId : Counted(set[s])) /\ Counted(newSet))
  BY <1>2 DEF CountRight, Counted
<1>4. DOMAIN set = SetId =>
        (Unbroken <=> /\ (\A s \in SetId : OneOfEach(set[s])) /\ OneOfEach(newSet)
                      /\ \A s \in SetId : NoGap(set[s]) \/ (pc = "cleanup" /\ s = cur)
                      /\ NoGap(newSet)
                      /\ pc = "cleanup" => GapsMended(set[cur], i))
  BY <1>2 DEF Unbroken
<1>5. DOMAIN set = SetId =>
        (Loads <=> /\ (\A s \in SetId : Listed(set[s])) /\ Listed(newSet)
                   /\ \A s \in SetId : Room(set[s]) \/ (pc = "grow" /\ s = cur)
                   /\ Room(newSet))
  BY <1>2 DEF Loads, Listed
<1>6. TypeOK /\ CountRight /\ Unbroken /\ Loads /\ Silent
        <=> P /\ BulkType /\ ResultType
  BY <1>3, <1>4, <1>5 DEF TypeOK, Base, BulkType, ResultType
<1> QED
  BY <1>1, <1>6 DEF IInv

-----------------------------------------------------------------------------
(* What each loop and each operation on one set does to the tables.        *)

LEMMA ReturnTables ==
  ASSUME Tables, DOMAIN set' = SetId, \A s \in SetId : AtRest(set'[s]), Return
  PROVE  Tables' /\ pc' = IF bulk.op = "none" THEN "idle" ELSE "bulk"
<1>1. cur' \in SetId /\ i' = 0 /\ newSet' = NewTable(0)
  BY ItemAssumption DEF Return, NoLoop, NoBulk
<1>2. pc' = (IF bulk.op = "none" THEN "idle" ELSE "bulk")
  BY DEF Return
<1>3. i' \in 0..set'[cur'].size
  BY <1>1, SizePositive DEF AtRest, Base
<1> QED
  BY <1>1, <1>2, <1>3, FirstTable DEF Tables

(* A table that is to be grown can be: there is a larger one, with room    *)
(* for one item more.                                                      *)
LEMMA GrowthRoom ==
  ASSUME NEW t, Base(t), t.count = Limit(t.size) + 1
  PROVE  /\ AtRest(NewTable(t.size)) /\ Contents(NewTable(t.size)) = {}
         /\ NewTable(t.size).count = 0
         /\ t.count <= Limit(NewTable(t.size).size)
<1> DEFINE last == Len(TableSizes) - 1
<1>1. PICK k \in 2..last : t.size = TableSizes[k]
  BY DEF Base, Listed
<1>2. /\ last \in Nat /\ t.size \in Nat
      /\ \A n \in 2..(last + 1) : TableSizes[n] \in Nat /\ Limit(TableSizes[n]) \in Nat
  <2>1. \A n \in 1..Len(TableSizes) : TableSizes[n] \in Nat
    BY SizeAssumption
  <2>2. last \in Nat /\ \A n \in 2..(last + 1) : TableSizes[n] \in Nat
    BY <2>1, SizeAssumption, RoomAssumption
  <2>3. t.size \in Nat
    BY SizePositive DEF Base
  <2> QED
    BY <2>2, <2>3, LimitType
<1>3. k # last
  <2>1. t.count <= Cardinality(Range(Key))
    BY KeysBound DEF Base, Counted
  <2>2. Cardinality(Range(Key)) \in Nat
    <3>1. Key \in Surjection(Item, Range(Key))
      BY ItemAssumption, Fun_RangeProperties
    <3> QED
      BY <3>1, FS_Surjection, FS_CardinalityType, RoomAssumption
  <2>3. t.count \in Nat /\ Cardinality(Range(Key)) <= Limit(TableSizes[last])
    BY RoomAssumption DEF Base, Table
  <2> QED
    BY <1>1, <1>2, <2>1, <2>2, <2>3
<1>4. k \in 1..(Len(TableSizes) - 2) /\ TableSizes[k] >= t.size
  BY <1>1, <1>2, <1>3
<1>5. /\ AtRest(NewTable(t.size)) /\ Contents(NewTable(t.size)) = {}
      /\ NewTable(t.size).count = 0
      /\ NewTable(t.size).size = TableSizes[k + 1]
  BY <1>1, <1>2, <1>4, NewTableIs
<1>6. Limit(TableSizes[k]) < Limit(TableSizes[k + 1])
  BY <1>1, <1>2, <1>3, SizeAssumption
<1> QED
  BY <1>1, <1>2, <1>3, <1>5, <1>6

LEMMA AddToIs ==
  ASSUME Tables, pc \in {"idle", "bulk"}, NEW s \in SetId, NEW x \in Item,
         AddTo(s, x)
  PROVE  /\ Tables'
         /\ \A r \in SetId \ {s} : set'[r] = set[r]
         /\ Contents(set'[s]) = {y \in Contents(set[s]) : Key[y] # Key[x]} \cup {x}
         /\ \/ pc' = "grow" /\ cur' = s /\ Growing'
            \/ pc' = IF bulk.op = "none" THEN "idle" ELSE "bulk"
<1> DEFINE t == set[s]
           u == Place(t, x)
<1>1. \A r \in SetId : AtRest(set[r])
  BY DEF Tables
<1>2. Sound(t) /\ HasEmpty(t) /\ Base(t) /\ Room(t)
  BY <1>1, RoomLeft DEF AtRest, Base, Sound
<1>3. /\ Sound(u)
      /\ u.size = t.size
      /\ u.count = IF Lookup(t, x) = NoItem THEN t.count + 1 ELSE t.count
      /\ Contents(u) = {y \in Contents(t) : Key[y] # Key[x]} \cup {x}
  BY <1>2, PlaceSound
<1>4. set' = [set EXCEPT ![s] = u] /\ DOMAIN set = SetId
  BY DEF AddTo, Tables
<1> HIDE DEF t, u
<1>5. DOMAIN set' = SetId /\ set'[s] = u /\ \A r \in SetId \ {s} : set'[r] = set[r]
  BY <1>4
<1>6. Base(u) /\ NoGap(u)
  BY <1>2, <1>3 DEF Sound, Base, Listed
<1>7. CASE Full(u)
  <2>1. pc' = "grow" /\ cur' = s /\ i' = 0 /\ newSet' = NewTable(u.size)
    BY <1>7 DEF AddTo, u, t
  <2>2. u.count = Limit(u.size) + 1
    <3>1. t.size \in Nat /\ t.count \in Nat
      BY <1>2, SizePositive DEF Base, Table
    <3>2. Limit(t.size) \in Nat
      BY <3>1, LimitType
    <3> QED
      BY <1>2, <1>3, <1>7, <3>1, <3>2 DEF Full, Room
  <2>3. /\ AtRest(newSet') /\ Contents(newSet') = {}
        /\ newSet'.count = 0
        /\ u.count <= Limit(newSet'.size)
    BY <1>6, <2>1, <2>2, GrowthRoom
  <2>4. i' \in 0..set'[cur'].size
    BY <1>5, <1>6, <2>1, SizePositive DEF Base
  <2>5. Tables'
    BY <1>1, <1>5, <1>6, <2>1, <2>3, <2>4 DEF Tables
  <2>6. Growing'
    <3>1. Moved' = {}
      BY <2>1 DEF Moved, Filled, Buckets
    <3> QED
      BY <1>5, <2>1, <2>3, <3>1, FS_EmptySet DEF Growing
  <2> QED
    BY <1>3, <1>5, <2>1, <2>5, <2>6 DEF t
<1>8. CASE ~Full(u)
  <2>1. Return
    BY <1>8 DEF AddTo, u, t
  <2>2. Room(u)
    <3>1. u.size \in Nat /\ u.count \in Nat
      BY <1>6, SizePositive DEF Base, Table
    <3> QED
      BY <1>8, <3>1, LimitType DEF Room, Full
  <2>3. \A r \in SetId : AtRest(set'[r])
    BY <1>1, <1>5, <1>6, <2>2 DEF AtRest
  <2> QED
    BY <1>3, <1>5, <2>1, <2>3, ReturnTables DEF t
<1> QED
  BY <1>7, <1>8

LEMMA RemoveFromIs ==
  ASSUME Tables, pc \in {"idle", "bulk"}, NEW s \in SetId, NEW x \in Item,
         RemoveFrom(s, x)
  PROVE  LET b == Probe(set[s], x)
         IN /\ Tables'
            /\ \A r \in SetId \ {s} : set'[r] = set[r]
            /\ Contents(set'[s]) = {y \in Contents(set[s]) : Key[y] # Key[x]}
            /\ \/ /\ Lookup(set[s], x) # NoItem /\ b \in Filled(set[s])
                  /\ pc' = "cleanup" /\ cur' = s
                  /\ set'[s] = Emptied(set[s], b)
                  /\ i' = NextBucket(set[s], b)
               \/ /\ Lookup(set[s], x) = NoItem /\ set'[s] = set[s]
                  /\ pc' = IF bulk.op = "none" THEN "idle" ELSE "bulk"
<1> DEFINE t == set[s]
           b == Probe(t, x)
<1>1. \A r \in SetId : AtRest(set[r])
  BY DEF Tables
<1>2. Sound(t) /\ HasEmpty(t) /\ Base(t) /\ Room(t)
  BY <1>1, RoomLeft DEF AtRest, Base, Sound
<1>3. /\ b \in Buckets(t)
      /\ Lookup(t, x) = t.table[b]
      /\ Lookup(t, x) = NoItem => \A y \in Contents(t) : Key[y] # Key[x]
      /\ Lookup(t, x) # NoItem =>
           {y \in Contents(t) : Key[y] = Key[x]} = {Lookup(t, x)}
  BY <1>2, LookupFinds DEF Sound
<1>4. DOMAIN set = SetId
  BY DEF Tables
<1>5. CASE Lookup(t, x) = NoItem
  <2>1. Return /\ UNCHANGED set
    BY <1>3, <1>5 DEF RemoveFrom
  <2>2. Contents(t) = {y \in Contents(t) : Key[y] # Key[x]}
    BY <1>3, <1>5
  <2> QED
    BY <1>1, <1>4, <1>5, <2>1, <2>2, ReturnTables
<1>6. CASE Lookup(t, x) # NoItem
  <2> DEFINE u == Emptied(t, b)
  <2>1. /\ set' = [set EXCEPT ![s] = u] /\ newSet' = newSet
        /\ pc' = "cleanup" /\ cur' = s /\ i' = NextBucket(t, b)
    BY <1>3, <1>6 DEF RemoveFrom
  <2>2. b \in Filled(t)
    BY <1>3, <1>6 DEF Filled
  <2>3. /\ Table(u) /\ Counted(u) /\ OneOfEach(u)
        /\ u.size = t.size
        /\ u.count = t.count - 1
        /\ Contents(u) = Contents(t) \ {t.table[b]}
    BY <1>2, <2>2, EmptiedIs DEF Sound
  <2>4. GapsMended(u, NextBucket(t, b))
    BY <1>2, <2>2, RemovalOpens
  <2>5. NextBucket(t, b) \in Buckets(t)
    BY <1>2, <1>3, NextIs DEF Base
  <2> HIDE DEF u
  <2>6. DOMAIN set' = SetId /\ set'[s] = u /\ \A r \in SetId \ {s} : set'[r] = set[r]
    BY <1>4, <2>1
  <2>7. Base(u) /\ Room(u)
    <3>1. t.count \in Nat /\ Limit(t.size) \in Nat
      BY <1>2, SizePositive, LimitType DEF Base, Table
    <3> QED
      BY <1>2, <2>3, <3>1 DEF Base, Listed, Room
  <2>8. i' \in Buckets(u) /\ i' \in 0..u.size
    BY <1>2, <2>1, <2>3, <2>5, SizePositive DEF Buckets, Base
  <2>9. Tables'
    BY <1>1, <2>1, <2>4, <2>6, <2>7, <2>8 DEF Tables
  <2>10. Contents(u) = {y \in Contents(t) : Key[y] # Key[x]}
    BY <1>3, <1>6, <2>3
  <2> QED
    BY <1>6, <2>1, <2>2, <2>6, <2>9, <2>10 DEF u
<1> QED
  BY <1>5, <1>6

LEMMA GrowStepIs ==
  ASSUME Tables, Growing, GrowStep
  PROVE  Tables' /\ Growing' /\ UNCHANGED <<set, pc, cur, bulk, result>>
<1> DEFINE t == set[cur]
           x == t.table[i]
<1>1. /\ pc = "grow" /\ i < t.size /\ i' = i + 1 /\ i \in Nat
      /\ newSet' = IF x = NoItem THEN newSet ELSE Place(newSet, x)
      /\ UNCHANGED <<set, pc, cur, bulk, result>>
  BY DEF GrowStep, Tables
<1>2. /\ Base(t) /\ NoGap(t) /\ cur \in SetId
      /\ AtRest(newSet)
      /\ Contents(newSet) = {t.table[b] : b \in Moved}
      /\ newSet.count = Cardinality(Moved)
      /\ t.count <= Limit(newSet.size)
  BY <1>1 DEF Tables, Growing
<1>3. t.size \in Nat /\ i \in Buckets(t)
  BY <1>1, <1>2, SizePositive DEF Base, Buckets
<1>4. i' \in 0..t.size
  BY <1>1, <1>3 DEF Buckets
<1>5. Moved \subseteq Filled(t) /\ IsFiniteSet(Moved) /\ i \notin Moved
  <2>1. IsFiniteSet(Filled(t))
    BY <1>2, FilledFinite DEF Base
  <2>2. Moved \subseteq Filled(t) /\ i \notin Moved
    BY <1>1 DEF Moved
  <2> QED
    BY <2>1, <2>2, FS_Subset
<1>6. Moved' = {b \in Filled(t) : b < i + 1}
  BY <1>1 DEF Moved
<1>7. \A b \in Filled(t) : b \in Int
  BY <1>3 DEF Filled, Buckets
<1>8. CASE x = NoItem
  <2>1. i \notin Filled(t)
    BY <1>8 DEF Filled
  <2>2. Moved' = Moved
    BY <1>1, <1>6, <1>7, <2>1 DEF Moved
  <2>3. newSet' = newSet
    BY <1>1, <1>8
  <2>4. Growing'
    BY <1>1, <1>2, <2>2, <2>3 DEF Growing
  <2>5. Tables'
    BY <1>1, <1>2, <1>4, <2>3 DEF Tables
  <2> QED
    BY <1>1, <2>4, <2>5
<1>9. CASE x # NoItem
  <2>1. i \in Filled(t) /\ x \in Item
    BY <1>2, <1>3, <1>9 DEF Filled, Base, Table
  <2>2. Moved' = Moved \cup {i}
    <3>1. \A b \in Filled(t) : b < i + 1 <=> b < i \/ b = i
      BY <1>1, <1>7
    <3> QED
      BY <1>6, <2>1, <3>1 DEF Moved
  <2>3. \A y \in Contents(newSet) : Key[y] # Key[x]
    BY <1>2, <1>5, <2>1 DEF Base, OneOfEach
  <2>4. Sound(newSet) /\ HasEmpty(newSet) /\ Base(newSet)
    BY <1>2, RoomLeft DEF AtRest, Base, Sound
  <2>5. Lookup(newSet, x) = NoItem
    BY <2>1, <2>3, <2>4, LookupFinds DEF Sound
  <2> DEFINE u == Place(newSet, x)
  <2>6. /\ Sound(u)
        /\ u.size = newSet.size
        /\ u.count = newSet.count + 1
        /\ Contents(u) = Contents(newSet) \cup {x}
    BY <2>1, <2>3, <2>4, <2>5, PlaceSound
  <2>7. newSet' = u
    BY <1>1, <1>9
  <2> HIDE DEF u
  <2>8. Cardinality(Moved') = Cardinality(Moved) + 1 /\ Cardinality(Moved') <= t.count
    <3>1. Cardinality(Moved') = Cardinality(Moved) + 1
      BY <1>5, <2>2, FS_AddElement
    <3>2. Moved' \subseteq Filled(t)
      BY <1>6
    <3>3. IsFiniteSet(Filled(t)) /\ t.count = Cardinality(Filled(t))
      BY <1>2, FilledFinite DEF Base, Counted
    <3> QED
      BY <3>1, <3>2, <3>3, FS_Subset
  <2>9. u.count = Cardinality(Moved') /\ Room(u)
    <3>1. Cardinality(Moved') \in Nat
      BY <1>5, <2>2, FS_AddElement, FS_CardinalityType
    <3>2. newSet.size \in Nat /\ t.count \in Nat
      BY <1>2, <2>4, SizePositive DEF Base, Table
    <3> QED
      BY <1>2, <2>6, <2>8, <3>1, <3>2, LimitType DEF Room
  <2>10. AtRest(u)
    BY <2>4, <2>6, <2>9 DEF AtRest, Base, Sound, Listed
  <2>11. Contents(u) = {t.table[b] : b \in Moved'}
    BY <1>2, <2>2, <2>6
  <2>12. Growing'
    BY <1>1, <1>2, <2>6, <2>7, <2>9, <2>11 DEF Growing
  <2>13. Tables'
    BY <1>1, <1>2, <1>4, <2>7, <2>10 DEF Tables
  <2> QED
    BY <1>1, <2>12, <2>13
<1> QED
  BY <1>8, <1>9

LEMMA GrowDoneIs ==
  ASSUME Tables, Growing, GrowDone
  PROVE  /\ Tables' /\ UNCHANGED <<bulk, result>>
         /\ pc' = IF bulk.op = "none" THEN "idle" ELSE "bulk"
         /\ \A s \in SetId : Contents(set'[s]) = Contents(set[s])
         /\ \A s \in SetId \ {cur} : set'[s] = set[s]
<1> DEFINE t == set[cur]
<1>1. /\ pc = "grow" /\ i = t.size /\ set' = [set EXCEPT ![cur] = newSet]
      /\ Return /\ UNCHANGED <<bulk, result>>
  BY DEF GrowDone
<1>2. /\ Base(t) /\ cur \in SetId /\ DOMAIN set = SetId
      /\ AtRest(newSet)
      /\ Contents(newSet) = {t.table[b] : b \in Moved}
      /\ \A s \in SetId : AtRest(set[s]) \/ s = cur
  BY <1>1 DEF Tables, Growing
<1>3. Moved = Filled(t)
  BY <1>1, <1>2, SizePositive DEF Moved, Filled, Buckets, Base
<1>4. Contents(newSet) = Contents(t)
  BY <1>2, <1>3, ContentsFilled DEF Base
<1>5. /\ DOMAIN set' = SetId /\ set'[cur] = newSet
      /\ \A s \in SetId \ {cur} : set'[s] = set[s]
  BY <1>1, <1>2
<1>6. \A s \in SetId : AtRest(set'[s])
  BY <1>2, <1>5
<1> QED
  BY <1>1, <1>4, <1>5, <1>6, ReturnTables

LEMMA CleanupStepIs ==
  ASSUME Tables, CleanupStep
  PROVE  /\ Tables' /\ UNCHANGED <<pc, cur, newSet, bulk, result>>
         /\ \A s \in SetId : Contents(set'[s]) = Contents(set[s])
         /\ \A s \in SetId \ {cur} : set'[s] = set[s]
         /\ i \in Filled(set[cur]) /\ i' = NextBucket(set[cur], i)
         /\ set'[cur] = Place(Emptied(set[cur], i), set[cur].table[i])
<1> DEFINE t == set[cur]
           u == Place(Emptied(t, i), t.table[i])
<1>1. /\ pc = "cleanup" /\ t.table[i] # NoItem
      /\ set' = [set EXCEPT ![cur] = u]
      /\ i' = NextBucket(t, i)
      /\ UNCHANGED <<pc, cur, newSet, bulk, result>>
  BY DEF CleanupStep, Cleanup
<1>2. /\ Base(t) /\ Room(t) /\ cur \in SetId /\ DOMAIN set = SetId
      /\ i \in Buckets(t) /\ GapsMended(t, i)
      /\ AtRest(newSet)
      /\ \A s \in SetId : AtRest(set[s]) \/ s = cur
  BY <1>1 DEF Tables
<1>3. i \in Filled(t)
  BY <1>1, <1>2 DEF Filled
<1>4. /\ Table(u) /\ Counted(u) /\ OneOfEach(u)
      /\ u.size = t.size
      /\ u.count = t.count
      /\ Contents(u) = Contents(t)
  BY <1>2, <1>3, TurnMoves DEF Base
<1>5. GapsMended(u, NextBucket(t, i))
  BY <1>2, <1>3, TurnMends DEF Base
<1>6. NextBucket(t, i) \in Buckets(t)
  BY <1>2, NextIs DEF Base
<1> HIDE DEF u
<1>7. /\ DOMAIN set' = SetId /\ set'[cur] = u
      /\ \A s \in SetId \ {cur} : set'[s] = set[s]
  BY <1>1, <1>2
<1>8. Base(u) /\ Room(u)
  BY <1>2, <1>4 DEF Base, Listed, Room
<1>9. i' \in Buckets(u) /\ i' \in 0..u.size
  BY <1>1, <1>2, <1>4, <1>6, SizePositive DEF Buckets, Base
<1>10. Tables'
  BY <1>1, <1>2, <1>5, <1>7, <1>8, <1>9 DEF Tables
<1> QED
  BY <1>1, <1>3, <1>4, <1>7, <1>10 DEF u

LEMMA CleanupDoneIs ==
  ASSUME Tables, CleanupDone
  PROVE  /\ Tables' /\ UNCHANGED <<set, bulk, result>>
         /\ pc' = IF bulk.op = "none" THEN "idle" ELSE "bulk"
<1>1. /\ pc = "cleanup" /\ set[cur].table[i] = NoItem
      /\ Return /\ UNCHANGED <<set, bulk, result>>
  BY DEF CleanupDone
<1>2. /\ Base(set[cur]) /\ Room(set[cur]) /\ DOMAIN set = SetId
      /\ i \in Buckets(set[cur]) /\ GapsMended(set[cur], i)
      /\ \A s \in SetId : AtRest(set[s]) \/ s = cur
  BY <1>1 DEF Tables
<1>3. NoGap(set[cur])
  BY <1>1, <1>2, NothingToMend DEF Base
<1>4. \A s \in SetId : AtRest(set'[s])
  BY <1>1, <1>2, <1>3 DEF AtRest
<1> QED
  BY <1>1, <1>2, <1>4, ReturnTables

-----------------------------------------------------------------------------
(* What the loops do to an operation on two sets in progress.              *)

Bulks == BulkType /\ Control /\ Joined /\ Subtracted /\ Sifted /\ NoneMissed

NoBulkOp == bulk.op = "none" /\ UNCHANGED bulk

LEMMA NoBulks ==
  ASSUME Bulks, NoBulkOp, pc' \in {"idle", "grow", "cleanup"}
  PROVE  Bulks'
BY DEF Bulks, NoBulkOp, BulkType, Control, Joined, Subtracted, Sifted, NoneMissed

(* The items gone past are those of the other set, unless the set is to be *)
(* made smaller to what both have.                                         *)
LEMMA PassedSame ==
  ASSUME UNCHANGED bulk, bulk.op # "intersect", set'[bulk.other] = set[bulk.other]
  PROVE  Passed' = Passed
BY DEF Passed, Walked

LEMMA GrowStepBulks ==
  ASSUME Bulks, GrowStep
  PROVE  Bulks'
<1>1. pc = "grow" /\ UNCHANGED <<set, pc, cur, bulk>>
  BY DEF GrowStep
<1>2. Passed' = Passed
  BY <1>1 DEF Passed, Walked
<1> QED
  BY <1>1, <1>2 DEF Bulks, BulkType, Control, Joined, Subtracted, Sifted, NoneMissed

LEMMA GrowDoneBulks ==
  ASSUME Tables, Growing, Bulks, GrowDone
  PROVE  Bulks'
<1>1. /\ UNCHANGED bulk
      /\ pc' = IF bulk.op = "none" THEN "idle" ELSE "bulk"
      /\ \A s \in SetId : Contents(set'[s]) = Contents(set[s])
      /\ \A s \in SetId \ {cur} : set'[s] = set[s]
  BY GrowDoneIs
<1>2. CASE bulk.op = "none"
  BY <1>1, <1>2, NoBulks DEF NoBulkOp
<1>3. CASE bulk.op # "none"
  <2>1. /\ bulk.op = "union" /\ bulk.set = cur /\ bulk.set # bulk.other
        /\ bulk.set \in SetId /\ bulk.other \in SetId
    BY <1>3 DEF GrowDone, Bulks, Control, BulkType
  <2>2. Passed' = Passed
    BY <1>1, <2>1, PassedSame
  <2> QED
    BY <1>1, <2>1, <2>2
    DEF Bulks, BulkType, Control, Joined, Subtracted, Sifted, NoneMissed
<1> QED
  BY <1>2, <1>3

LEMMA CleanupDoneBulks ==
  ASSUME Tables, Bulks, CleanupDone
  PROVE  Bulks'
<1>1. UNCHANGED <<set, bulk>> /\ pc' = IF bulk.op = "none" THEN "idle" ELSE "bulk"
  BY CleanupDoneIs
<1>2. Passed' = Passed
  BY <1>1 DEF Passed, Walked
<1> QED
  BY <1>1, <1>2 DEF Bulks, BulkType, Control, Joined, Subtracted, Sifted, NoneMissed

(* A turn of the cleanup during BitWSetIntersect.                          *)
LEMMA TurnSifts ==
  ASSUME Tables, Bulks, CleanupStep, bulk.op = "intersect"
  PROVE  Sifted' /\ NoneMissed'
<1> DEFINE t == set[cur]
           x == t.table[i]
           u == Place(Emptied(t, i), x)
           p == Probe(Emptied(t, i), x)
           k == bulk.i
           other == Contents(set[bulk.other])
<1>1. /\ UNCHANGED <<pc, bulk>>
      /\ \A s \in SetId : Contents(set'[s]) = Contents(set[s])
      /\ i \in Filled(t) /\ i' = NextBucket(t, i)
      /\ set'[cur] = u
  BY CleanupStepIs
<1>2. /\ pc = "cleanup" /\ bulk.set = cur /\ cur \in SetId /\ bulk.other \in SetId
      /\ Base(t) /\ i \in Buckets(t)
  BY DEF CleanupStep, Bulks, Control, BulkType, Tables
<1>3. /\ Contents(t) \subseteq bulk.from
      /\ \A y \in bulk.from \ Contents(t) : ~Equalled(other, y)
      /\ \A y \in Passed : Equalled(other, y)
  BY <1>2 DEF Bulks, Sifted
<1>4. /\ k \in Buckets(t)
      /\ \A b, c \in Buckets(t) : Gap(t, b, c) /\ b >= k => c >= k
      /\ \E e \in Buckets(t) \ Filled(t) :
           /\ Ahead(t, i, e) < Ahead(t, i, k)
           /\ \A b \in Filled(t) : ~Before(t, t.table[b], e, b)
  BY <1>2 DEF Bulks, NoneMissed
<1>5. /\ Table(u) /\ u.size = t.size
      /\ p \in Buckets(t)
      /\ Filled(u) = (Filled(t) \ {i}) \cup {p}
      /\ u.table[p] = x
      /\ \A b \in Filled(u) \ {p} : b # i /\ u.table[b] = t.table[b]
      /\ p = i \/ (p \notin Filled(t) /\ Before(t, x, p, i))
  BY <1>1, <1>2, TurnMoves DEF Base
<1>6. \A b, c \in Buckets(t) : Gap(u, b, c) =>
        /\ b \in Filled(t)
        /\ Gap(t, b, c) \/ (c = i /\ Before(t, t.table[b], i, b))
  BY <1>1, <1>2, TurnGaps DEF Base
<1>7. x \in Item /\ t.size \in Nat
  BY <1>1, <1>2, FilledItem, SizePositive DEF Base
<1>8. i' \in Buckets(t) /\ i' = IF i + 1 < t.size THEN i + 1 ELSE 0
  BY <1>1, <1>2, NextIs DEF Base
<1>9. Passed = {t.table[b] : b \in {c \in Filled(t) : c < k}}
  BY <1>2 DEF Passed, Walked
<1>10. Passed' = {u.table[b] : b \in {c \in Filled(u) : c < k}}
  BY <1>1, <1>2 DEF Passed, Walked
<1> HIDE DEF t, x, u, p, k, other
<1>11. /\ Buckets(u) = Buckets(t)
       /\ \A y, c, d : Before(u, y, c, d) <=> Before(t, y, c, d)
       /\ \A c, d : Ahead(u, c, d) = Ahead(t, c, d)
  BY <1>5 DEF Buckets, Before, Home, Ahead
<1>12. PICK e \in Buckets(t) \ Filled(t) :
         /\ Ahead(t, i, e) < Ahead(t, i, k)
         /\ \A b \in Filled(t) : ~Before(t, t.table[b], e, b)
  BY <1>4
<1>13. ASSUME NEW b \in Filled(u), b < k  PROVE u.table[b] \in Passed
  <2>1. CASE b # p
    BY <1>5, <1>9, <1>13, <2>1
  <2>2. CASE b = p /\ i < k
    BY <1>1, <1>5, <1>9, <2>2 DEF x
  <2>3. CASE b = p /\ i >= k
    <3>1. Gap(t, i, p)
      BY <1>1, <1>2, <1>4, <1>5, <1>13, <2>3 DEF Gap, Buckets, x
    <3> QED
      BY <1>2, <1>4, <1>5, <1>7, <1>13, <2>3, <3>1 DEF Buckets
  <2> QED
    BY <1>2, <1>4, <1>7, <2>1, <2>2, <2>3 DEF Buckets
<1>14. Sifted'
  <2>1. \A y \in Passed' : Equalled(other, y)
    BY <1>3, <1>10, <1>13
  <2>2. /\ Contents(set'[bulk'.set]) = Contents(t)
        /\ Contents(set'[bulk'.other]) = other
    BY <1>1, <1>2 DEF t, other
  <2> QED
    BY <1>1, <1>3, <2>1, <2>2 DEF Sifted
<1>15. ASSUME NEW b \in Buckets(t), NEW c \in Buckets(t), Gap(u, b, c), b >= k
       PROVE  c >= k
  <2>1. CASE Gap(t, b, c)
    BY <1>4, <1>15, <2>1
  <2>2. CASE c = i /\ Before(t, t.table[b], i, b) /\ i < k
    <3> DEFINE h == Home(t, t.table[b])
    <3>1. b \in Filled(t)
      BY <1>6, <1>15
    <3>2. h \in Buckets(t)
      BY <1>2, <3>1, FilledItem, HomeType DEF Base
    <3>3. Ahead(t, h, i) < Ahead(t, h, b)
      BY <2>2 DEF Before
    <3> HIDE DEF h
    <3>4. Ahead(t, h, e) < Ahead(t, h, b)
      BY <1>2, <1>4, <1>7, <1>12, <1>15, <2>2, <3>2, <3>3 DEF Ahead, Buckets
    <3> QED
      BY <1>12, <3>1, <3>4 DEF Before, h
  <2> QED
    BY <1>2, <1>4, <1>6, <1>7, <1>15, <2>1, <2>2 DEF Buckets
<1>16. e \notin Filled(u)
  BY <1>1, <1>5, <1>12 DEF x
<1>17. Ahead(t, i', e) < Ahead(t, i', k)
  <2>1. e # i
    BY <1>1, <1>12
  <2> QED
    BY <1>2, <1>4, <1>7, <1>8, <1>12, <2>1 DEF Ahead, Buckets
<1>18. ASSUME NEW b \in Filled(u)  PROVE ~Before(t, u.table[b], e, b)
  <2>1. CASE b # p
    BY <1>5, <1>12, <2>1
  <2>2. CASE b = p
    <3>1. ~Before(t, x, e, i)
      BY <1>1, <1>12 DEF x
    <3> QED
      BY <1>5, <1>7, <2>2, <3>1, HomeType, <1>2, <1>12 DEF Before, Ahead, Buckets, Base
  <2> QED
    BY <2>1, <2>2
<1>19. NoneMissed'
  <2>1. set'[bulk'.set] = u /\ bulk'.i = k
    BY <1>1, <1>2 DEF k
  <2> QED
    BY <1>4, <1>11, <1>12, <1>15, <1>16, <1>17, <1>18, <2>1 DEF NoneMissed
<1> QED
  BY <1>14, <1>19

LEMMA CleanupStepBulks ==
  ASSUME Tables, Bulks, CleanupStep
  PROVE  Bulks'
<1>1. /\ UNCHANGED <<pc, cur, bulk>>
      /\ \A s \in SetId : Contents(set'[s]) = Contents(set[s])
      /\ \A s \in SetId \ {cur} : set'[s] = set[s]
  BY CleanupStepIs
<1>2. pc = "cleanup"
  BY DEF CleanupStep
<1>3. CASE bulk.op = "none"
  BY <1>1, <1>2, <1>3, NoBulks DEF NoBulkOp
<1>4. BulkType' /\ Control'
  BY <1>1 DEF Bulks, BulkType, Control
<1>5. CASE bulk.op = "intersect"
  BY <1>1, <1>4, <1>5, TurnSifts DEF Bulks, Joined, Subtracted
<1>6. CASE bulk.op \in {"union", "minus"}
  <2>1. /\ bulk.set = cur /\ bulk.set # bulk.other
        /\ bulk.set \in SetId /\ bulk.other \in SetId
    BY <1>2, <1>6 DEF Bulks, Control, BulkType
  <2>2. Passed' = Passed
    BY <1>1, <1>6, <2>1, PassedSame
  <2> QED
    BY <1>1, <1>4, <1>6, <2>1, <2>2 DEF Bulks, Joined, Subtracted, Sifted, NoneMissed
<1> QED
  BY <1>3, <1>5, <1>6 DEF Bulks, BulkType

-----------------------------------------------------------------------------
(* What the turns of an operation on two sets do.                          *)

LEMMA WalkedIs ==
  ASSUME Tables, BulkType, Control, pc = "bulk"
  PROVE  /\ AtRest(set[bulk.set]) /\ AtRest(set[bulk.other]) /\ AtRest(Walked)
         /\ bulk.set \in SetId /\ bulk.other \in SetId
         /\ bulk.set # bulk.other /\ bulk.op # "none"
         /\ bulk.i \in Nat
BY DEF Tables, BulkType, Control, Walked

(* Going past a bucket of a table that stays as it is.                     *)
LEMMA PassedGrows ==
  ASSUME Tables, BulkType, Control, pc = "bulk", bulk.i < Walked.size,
         BulkAdvances, Walked' = Walked
  PROVE  LET x == Walked.table[bulk.i]
         IN /\ x \in Item \cup {NoItem}
            /\ Passed' = IF x = NoItem THEN Passed ELSE Passed \cup {x}
            /\ x # NoItem => \A y \in Passed : Key[y] # Key[x]
<1> DEFINE t == Walked
           k == bulk.i
           x == t.table[k]
<1>1. Table(t) /\ OneOfEach(t) /\ k \in Nat /\ k < t.size /\ t.size \in Nat
  BY WalkedIs, SizePositive DEF AtRest, Base
<1>2. k \in Buckets(t) /\ \A b \in Filled(t) : b \in Nat
  BY <1>1 DEF Buckets, Filled
<1>3. bulk'.i = k + 1
  BY DEF BulkAdvances, BulkType
<1> HIDE DEF t, k
<1>4. /\ Passed = {t.table[b] : b \in {c \in Filled(t) : c < k}}
      /\ Passed' = {t.table[b] : b \in {c \in Filled(t) : c < k + 1}}
  BY <1>3 DEF Passed, t, k
<1>5. \A b \in Filled(t) : b < k + 1 <=> b < k \/ b = k
  BY <1>1, <1>2
<1>6. x \in Item \cup {NoItem}
  BY <1>1, <1>2 DEF Table
<1>7. CASE x = NoItem
  <2>1. k \notin Filled(t)
    BY <1>7 DEF Filled
  <2>2. {c \in Filled(t) : c < k + 1} = {c \in Filled(t) : c < k}
    BY <1>5, <2>1
  <2> QED
    BY <1>4, <1>6, <1>7, <2>2 DEF t, k
<1>8. CASE x # NoItem
  <2>1. k \in Filled(t)
    BY <1>2, <1>8 DEF Filled
  <2>2. {c \in Filled(t) : c < k + 1} = {c \in Filled(t) : c < k} \cup {k}
    BY <1>5, <2>1
  <2>3. Passed' = Passed \cup {x}
    BY <1>4, <2>2
  <2>4. \A b \in Filled(t) : b < k => Key[t.table[b]] # Key[x]
    BY <1>1, <2>1 DEF OneOfEach
  <2> QED
    BY <1>4, <1>6, <1>8, <2>3, <2>4 DEF t, k
<1> QED
  BY <1>7, <1>8

LEMMA AdvanceType ==
  ASSUME BulkType, BulkAdvances
  PROVE  /\ BulkType' /\ bulk'.i = bulk.i + 1
         /\ bulk'.op = bulk.op /\ bulk'.set = bulk.set
         /\ bulk'.other = bulk.other /\ bulk'.from = bulk.from
BY DEF BulkType, BulkAdvances

LEMMA BulkSkipKeeps ==
  ASSUME Tables, Bulks, BulkSkip
  PROVE  Tables' /\ Bulks' /\ UNCHANGED <<set, pc, result>>
<1> DEFINE x == Walked.table[bulk.i]
<1>1. /\ pc = "bulk" /\ bulk.i < Walked.size
      /\ x # NoItem => bulk.op = "intersect" /\ Lookup(set[bulk.other], x) # NoItem
      /\ BulkAdvances /\ UNCHANGED <<set, pc, cur, i, newSet, result>>
  BY DEF BulkSkip, InBulk
<1>2. /\ BulkType' /\ bulk'.i = bulk.i + 1
      /\ bulk'.op = bulk.op /\ bulk'.set = bulk.set
      /\ bulk'.other = bulk.other /\ bulk'.from = bulk.from
  BY <1>1, AdvanceType DEF Bulks
<1>3. Tables'
  BY <1>1 DEF Tables
<1>4. Walked' = Walked
  BY <1>1, <1>2 DEF Walked
<1>5. /\ x \in Item \cup {NoItem}
      /\ Passed' = IF x = NoItem THEN Passed ELSE Passed \cup {x}
  BY <1>1, <1>4, PassedGrows DEF Bulks
<1>6. Control'
  BY <1>1, <1>2 DEF Bulks, Control
<1> HIDE DEF x
<1>7. CASE bulk.op = "intersect"
  <2> DEFINE o == set[bulk.other]
  <2>1. AtRest(o) /\ HasEmpty(o)
    BY <1>1, WalkedIs, RoomLeft DEF Bulks, AtRest
  <2>2. x # NoItem => Equalled(Contents(o), x)
    BY <1>1, <1>5, <2>1, LookupFinds DEF AtRest, Base, Equalled, x
  <2>3. \A y \in Passed' : Equalled(Contents(o), y)
    BY <1>5, <1>7, <2>2 DEF Bulks, Sifted
  <2>4. Sifted'
    BY <1>1, <1>2, <1>7, <2>3 DEF Bulks, Sifted
  <2> QED
    BY <1>1, <1>2, <1>3, <1>6, <1>7, <2>4 DEF Bulks, Joined, Subtracted, NoneMissed
<1>8. CASE bulk.op # "intersect"
  <2>1. Passed' = Passed
    BY <1>1, <1>5, <1>8 DEF x
  <2> QED
    BY <1>1, <1>2, <1>3, <1>6, <1>8, <2>1
    DEF Bulks, Joined, Subtracted, Sifted, NoneMissed
<1> QED
  BY <1>7, <1>8

LEMMA UnionStepKeeps ==
  ASSUME Tables, Bulks, UnionStep
  PROVE  Tables' /\ Bulks' /\ Growing' /\ result' = result
<1> DEFINE x == Walked.table[bulk.i]
           s == bulk.set
<1>1. /\ pc = "bulk" /\ bulk.op = "union" /\ bulk.i < Walked.size
      /\ x # NoItem /\ AddTo(s, x) /\ BulkAdvances
  BY DEF UnionStep, InBulk
<1>2. /\ BulkType' /\ bulk'.i = bulk.i + 1
      /\ bulk'.op = bulk.op /\ bulk'.set = bulk.set
      /\ bulk'.other = bulk.other /\ bulk'.from = bulk.from
  BY <1>1, AdvanceType DEF Bulks
<1>3. s \in SetId /\ bulk.other \in SetId \ {s}
  BY <1>1, WalkedIs DEF Bulks
<1>4. Walked = set[bulk.other] /\ Walked' = set'[bulk.other]
  BY <1>1, <1>2 DEF Walked
<1>5. x \in Item
  <2>1. Table(Walked) /\ bulk.i \in Buckets(Walked)
    BY <1>1, WalkedIs, SizePositive DEF Bulks, AtRest, Base, Buckets
  <2> QED
    BY <1>1, <2>1 DEF Table
<1>6. /\ Tables'
      /\ \A r \in SetId \ {s} : set'[r] = set[r]
      /\ Contents(set'[s]) = {y \in Contents(set[s]) : Key[y] # Key[x]} \cup {x}
      /\ \/ pc' = "grow" /\ cur' = s /\ Growing'
         \/ pc' = IF bulk.op = "none" THEN "idle" ELSE "bulk"
  BY <1>1, <1>3, <1>5, AddToIs
<1>7. /\ Passed' = Passed \cup {x}
      /\ \A y \in Passed : Key[y] # Key[x]
  BY <1>1, <1>3, <1>4, <1>6, PassedGrows DEF Bulks
<1>8. Contents(set[s]) = Unequalled(bulk.from, Passed) \cup Passed
  BY <1>1 DEF Bulks, Joined
<1> HIDE DEF x
<1>9. Contents(set'[s]) = Unequalled(bulk.from, Passed') \cup Passed'
  BY <1>6, <1>7, <1>8 DEF Unequalled, Equalled
<1>10. Joined'
  BY <1>2, <1>9 DEF Joined
<1>11. Control'
  BY <1>1, <1>2, <1>6 DEF Bulks, Control
<1>12. Growing'
  BY <1>1, <1>6 DEF Growing
<1>13. result' = result
  BY <1>1 DEF AddTo, Returned
<1> QED
  BY <1>1, <1>2, <1>6, <1>10, <1>11, <1>12, <1>13
  DEF Bulks, Subtracted, Sifted, NoneMissed

LEMMA MinusStepKeeps ==
  ASSUME Tables, Bulks, MinusStep
  PROVE  Tables' /\ Bulks' /\ pc' # "grow" /\ result' = result
<1> DEFINE x == Walked.table[bulk.i]
           s == bulk.set
<1>1. /\ pc = "bulk" /\ bulk.op = "minus" /\ bulk.i < Walked.size
      /\ x # NoItem /\ RemoveFrom(s, x) /\ BulkAdvances
  BY DEF MinusStep, InBulk
<1>2. /\ BulkType' /\ bulk'.i = bulk.i + 1
      /\ bulk'.op = bulk.op /\ bulk'.set = bulk.set
      /\ bulk'.other = bulk.other /\ bulk'.from = bulk.from
  BY <1>1, AdvanceType DEF Bulks
<1>3. s \in SetId /\ bulk.other \in SetId \ {s}
  BY <1>1, WalkedIs DEF Bulks
<1>4. Walked = set[bulk.other] /\ Walked' = set'[bulk.other]
  BY <1>1, <1>2 DEF Walked
<1>5. x \in Item
  <2>1. Table(Walked) /\ bulk.i \in Buckets(Walked)
    BY <1>1, WalkedIs, SizePositive DEF Bulks, AtRest, Base, Buckets
  <2> QED
    BY <1>1, <2>1 DEF Table
<1>6. /\ Tables'
      /\ \A r \in SetId \ {s} : set'[r] = set[r]
      /\ Contents(set'[s]) = {y \in Contents(set[s]) : Key[y] # Key[x]}
      /\ \/ pc' = "cleanup" /\ cur' = s
         \/ pc' = IF bulk.op = "none" THEN "idle" ELSE "bulk"
  BY <1>1, <1>3, <1>5, RemoveFromIs
<1>7. Passed' = Passed \cup {x}
  BY <1>1, <1>3, <1>4, <1>6, PassedGrows DEF Bulks
<1>8. Contents(set[s]) = Unequalled(bulk.from, Passed)
  BY <1>1 DEF Bulks, Subtracted
<1>9. result' = result
  BY <1>1 DEF RemoveFrom, Returned
<1> HIDE DEF x
<1>10. Contents(set'[s]) = Unequalled(bulk.from, Passed')
  BY <1>6, <1>7, <1>8 DEF Unequalled, Equalled
<1>11. Subtracted'
  BY <1>2, <1>10 DEF Subtracted
<1>12. Control' /\ pc' # "grow"
  BY <1>1, <1>2, <1>6 DEF Bulks, Control
<1> QED
  BY <1>1, <1>2, <1>6, <1>9, <1>11, <1>12
  DEF Bulks, Joined, Sifted, NoneMissed

LEMMA IntersectStepKeeps ==
  ASSUME Tables, Bulks, IntersectStep
  PROVE  Tables' /\ Bulks' /\ pc' # "grow" /\ result' = result
<1> DEFINE s == bulk.set
           t == set[s]
           k == bulk.i
           x == t.table[k]
           o == set[bulk.other]
           u == Emptied(t, k)
<1>1. /\ pc = "bulk" /\ bulk.op = "intersect" /\ k < t.size
      /\ x # NoItem /\ Lookup(o, x) = NoItem
      /\ RemoveFrom(s, x) /\ UNCHANGED bulk
  BY DEF IntersectStep, InBulk, Walked, AfterRemoval, BulkStays
<1>2. /\ AtRest(t) /\ AtRest(o) /\ s \in SetId /\ bulk.other \in SetId \ {s} /\ k \in Nat
  BY <1>1, WalkedIs DEF Bulks
<1>3. t.size \in Nat /\ k \in Buckets(t) /\ k \in Filled(t) /\ x \in Item
  <2>1. Table(t) /\ t.size \in Nat \ {0}
    BY <1>2, SizePositive DEF AtRest, Base
  <2>2. k \in Nat /\ k < t.size /\ t.table[k] # NoItem
    BY <1>1, <1>2
  <2> HIDE DEF t, k
  <2>3. k \in Buckets(t)
    BY <2>1, <2>2 DEF Buckets
  <2>4. t.table[k] \in Item
    BY <2>1, <2>2, <2>3 DEF Table
  <2> QED
    BY <2>1, <2>2, <2>3, <2>4 DEF Filled
<1>4. Probe(t, x) = k /\ Lookup(t, x) = x
  BY <1>2, <1>3, ItemFound DEF AtRest, Base, Lookup
<1>5. /\ Tables'
      /\ \A r \in SetId \ {s} : set'[r] = set[r]
      /\ Contents(set'[s]) = {y \in Contents(t) : Key[y] # Key[x]}
      /\ pc' = "cleanup" /\ cur' = s
      /\ set'[s] = u
      /\ i' = NextBucket(t, k)
  BY <1>1, <1>2, <1>3, <1>4, RemoveFromIs
<1>6. result' = result
  BY <1>1 DEF RemoveFrom, Returned
<1>7. BulkType' /\ Control'
  BY <1>1, <1>2, <1>5 DEF Bulks, BulkType, Control
<1>8. \A y \in Contents(o) : Key[y] # Key[x]
  BY <1>1, <1>2, <1>3, LookupFinds, RoomLeft DEF AtRest, Base
<1>9. /\ u.size = t.size
      /\ u.table = [t.table EXCEPT ![k] = NoItem]
      /\ Filled(u) = Filled(t) \ {k}
  <2>1. Table(t) /\ Counted(t) /\ OneOfEach(t) /\ k \in Filled(t)
    BY <1>2, <1>3 DEF AtRest, Base
  <2> HIDE DEF t, k
  <2> QED
    BY <2>1, EmptiedIs
<1>10. \A b \in Filled(u) : u.table[b] = t.table[b]
  BY <1>2, <1>9 DEF Filled, AtRest, Base, Table
<1>11. \A d, c \in Buckets(u) : Gap(u, d, c) => c = k
  BY <1>2, <1>3, RemovalOpens DEF AtRest, Base, Sound
<1>12. i' \in Buckets(t) /\ i' = IF k + 1 < t.size THEN k + 1 ELSE 0
  BY <1>2, <1>3, <1>5, NextIs DEF AtRest, Base
<1>13. PICK e \in Buckets(t) : t.table[e] = NoItem
  BY <1>2, RoomLeft DEF AtRest, HasEmpty
<1>14. Passed = {t.table[b] : b \in {c \in Filled(t) : c < k}}
  BY <1>1 DEF Passed, Walked
<1>15. Passed' = {u.table[b] : b \in {c \in Filled(u) : c < k}}
  BY <1>1, <1>5 DEF Passed, Walked
<1>16. /\ Contents(t) \subseteq bulk.from
       /\ \A y \in bulk.from \ Contents(t) : ~Equalled(Contents(o), y)
       /\ \A y \in Passed : Equalled(Contents(o), y)
  BY <1>1 DEF Bulks, Sifted
<1> HIDE DEF u, x, t, o, k
<1>17. Sifted'
  <2>1. Passed' \subseteq Passed
    BY <1>9, <1>10, <1>14, <1>15
  <2>2. \A y \in bulk.from \ Contents(set'[s]) : ~Equalled(Contents(o), y)
    BY <1>5, <1>8, <1>16 DEF Equalled
  <2>3. Contents(set'[bulk'.other]) = Contents(o) /\ bulk'.set = s
    BY <1>1, <1>2, <1>5 DEF o
  <2> QED
    BY <1>1, <1>5, <1>16, <2>1, <2>2, <2>3 DEF Sifted
<1>18. NoneMissed'
  <2>1. /\ Buckets(u) = Buckets(t)
        /\ \A y, c, d : Before(u, y, c, d) <=> Before(t, y, c, d)
        /\ \A c, d : Ahead(u, c, d) = Ahead(t, c, d)
    BY <1>9 DEF Buckets, Before, Home, Ahead
  <2>2. set'[bulk'.set] = u /\ bulk'.i = k
    BY <1>1, <1>5 DEF k
  <2>3. \A b, c \in Buckets(u) : Gap(u, b, c) /\ b >= k => c >= k
    BY <1>3, <1>11 DEF Buckets
  <2>4. e \in Buckets(t) \ Filled(t) /\ e # k
    BY <1>3, <1>13 DEF Filled
  <2>5. Ahead(t, i', e) < Ahead(t, i', k)
    BY <1>3, <1>12, <2>4 DEF Ahead, Buckets
  <2>6. ASSUME NEW b \in Filled(u)  PROVE ~Before(u, u.table[b], e, b)
    <3>1. b \in Filled(t) /\ b \in Buckets(t)
      BY <1>9 DEF Filled
    <3> QED
      BY <1>2, <1>10, <2>1, <2>4, <3>1 DEF AtRest, NoGap, Gap
  <2> QED
    BY <1>3, <1>9, <2>1, <2>2, <2>3, <2>4, <2>5, <2>6, ZenonT(60) DEF NoneMissed
<1> QED
  BY <1>1, <1>5, <1>6, <1>7, <1>17, <1>18 DEF Bulks, Joined, Subtracted

LEMMA BulkDoneKeeps ==
  ASSUME Tables, Bulks, BulkDone
  PROVE  Tables' /\ Bulks' /\ pc' = "idle" /\ UNCHANGED <<set, result>>
<1>1. /\ pc' = "idle" /\ bulk' = NoBulk
      /\ UNCHANGED <<set, cur, i, newSet, result>> /\ pc = "bulk"
  BY DEF BulkDone
<1>2. Tables'
  BY <1>1 DEF Tables
<1>3. BulkType' /\ bulk'.op = "none"
  BY <1>1, ItemAssumption DEF BulkType, NoBulk
<1> QED
  BY <1>1, <1>2, <1>3 DEF Bulks, Control, Joined, Subtracted, Sifted, NoneMissed

-----------------------------------------------------------------------------
(* What the operations of the interface do, when none is in progress.      *)

LEMMA IdleIs ==
  ASSUME Tables, Bulks, pc = "idle"
  PROVE  bulk.op = "none" /\ \A s \in SetId : AtRest(set[s])
BY DEF Tables, Bulks, Control

LEMMA AddKeeps ==
  ASSUME Tables, Bulks, NEW s \in SetId, NEW x \in Item, Add(s, x)
  PROVE  Tables' /\ Bulks' /\ Growing'
<1>1. pc = "idle" /\ AddTo(s, x) /\ UNCHANGED bulk /\ bulk.op = "none"
  BY IdleIs DEF Add
<1>2. Tables' /\ ((pc' = "grow" /\ Growing') \/ pc' = "idle")
  BY <1>1, AddToIs
<1> QED
  BY <1>1, <1>2, NoBulks DEF NoBulkOp, Growing

LEMMA RemoveKeeps ==
  ASSUME Tables, Bulks, NEW s \in SetId, NEW x \in Item, Remove(s, x)
  PROVE  Tables' /\ Bulks' /\ Growing'
<1>1. pc = "idle" /\ RemoveFrom(s, x) /\ UNCHANGED bulk /\ bulk.op = "none"
  BY IdleIs DEF Remove
<1>2. Tables' /\ pc' \in {"cleanup", "idle"}
  BY <1>1, RemoveFromIs
<1> QED
  BY <1>1, <1>2, NoBulks DEF NoBulkOp, Growing

LEMMA ClearKeeps ==
  ASSUME Tables, Bulks, NEW s \in SetId, Clear(s)
  PROVE  /\ Tables' /\ Bulks' /\ Growing'
         /\ \A r \in SetId \ {s} : set'[r] = set[r]
         /\ Contents(set'[s]) = {}
<1> DEFINE t == set[s]
           u == [t EXCEPT !.table = [b \in Buckets(t) |-> NoItem], !.count = 0]
<1>1. /\ pc = "idle" /\ bulk.op = "none" /\ UNCHANGED <<pc, cur, i, newSet, bulk>>
      /\ DOMAIN set = SetId /\ \A r \in SetId : AtRest(set[r])
  BY IdleIs DEF Clear, Tables
<1>2. set' = [set EXCEPT ![s].table = [b \in Buckets(set[s]) |-> NoItem],
                        ![s].count = 0]
  BY DEF Clear
<1>3. DOMAIN set' = SetId /\ set'[s] = u /\ \A r \in SetId \ {s} : set'[r] = set[r]
  BY <1>1, <1>2
<1>4. AtRest(u) /\ Contents(u) = {} /\ u.size = t.size
  <2>1. DOMAIN t = {"size", "count", "table"}
    BY <1>1 DEF AtRest, Base, Table
  <2>2. /\ DOMAIN u = {"size", "count", "table"}
        /\ u.size = t.size
        /\ u.count = 0
        /\ u.table = [b \in 0..(u.size - 1) |-> NoItem]
    BY <2>1 DEF Buckets
  <2>3. PICK n \in 2..(Len(TableSizes) - 1) : t.size = TableSizes[n]
    BY <1>1 DEF AtRest, Base, Listed
  <2> HIDE DEF u
  <2> QED
    BY <2>2, <2>3, EmptyTable
<1> HIDE DEF u
<1>5. i' \in 0..set'[cur'].size
  BY <1>1, <1>3, <1>4 DEF Tables
<1>6. Tables'
  BY <1>1, <1>3, <1>4, <1>5 DEF Tables
<1> QED
  BY <1>1, <1>3, <1>4, <1>6, NoBulks DEF NoBulkOp, Growing

LEMMA BulkKeeps ==
  ASSUME Tables, Bulks, NEW s \in SetId, NEW o \in SetId, s # o,
         NEW op \in {"union", "minus", "intersect"}, Bulk(op, s, o)
  PROVE  Tables' /\ Bulks' /\ Growing'
<1>1. /\ pc = "idle" /\ pc' = "bulk" /\ UNCHANGED <<set, cur, i, newSet>>
      /\ bulk' = [op |-> op, set |-> s, other |-> o, i |-> 0,
                  from |-> Contents(set[s])]
      /\ \A r \in SetId : AtRest(set[r])
  BY IdleIs DEF Bulk
<1>2. Contents(set[s]) \subseteq Item
  BY <1>1, ContentsFilled DEF AtRest, Base
<1>3. BulkType' /\ Control'
  BY <1>1, <1>2 DEF BulkType, Control
<1>4. Passed' = {}
  <2>1. \A b \in Filled(Walked') : ~(b < 0)
    <3>1. Walked' \in {set[s], set[o]}
      BY <1>1 DEF Walked
    <3> QED
      BY <1>1, <3>1, SizePositive DEF Filled, Buckets, AtRest, Base
  <2>2. bulk'.i = 0
    BY <1>1
  <2> QED
    BY <2>1, <2>2 DEF Passed
<1>5. Tables'
  BY <1>1 DEF Tables
<1> QED
  BY <1>1, <1>3, <1>4, <1>5
  DEF Bulks, Joined, Subtracted, Sifted, NoneMissed, Unequalled, Equalled, Growing

-----------------------------------------------------------------------------
(* Every state of the hash table satisfies IInv.                           *)

LEMMA IInvParts == IInv <=> Tables /\ Bulks /\ Growing /\ ResultType
BY IInvIs DEF Bulks

LEMMA StartResult ==
  ASSUME Tables, Bulks, ResultType, Start
  PROVE  ResultType'
<1>1. pc = "idle" /\ bulk.op = "none" /\ \A s \in SetId : AtRest(set[s])
  BY IdleIs DEF Start, Add, Remove, Clear, Get, Intersects, Bulk
<1>2. ASSUME NEW s \in SetId, NEW x \in Item  PROVE Lookup(set[s], x) \in Item \cup {NoItem}
  <2>1. /\ Table(set[s]) /\ OneOfEach(set[s]) /\ NoGap(set[s])
        /\ HasEmpty(set[s])
    BY <1>1, RoomLeft DEF AtRest, Base
  <2>2. /\ Probe(set[s], x) \in Buckets(set[s])
        /\ Lookup(set[s], x) = set[s].table[Probe(set[s], x)]
    BY <2>1, LookupFinds
  <2> QED
    BY <2>1, <2>2 DEF Table
<1>3. ASSUME NEW s \in SetId, NEW x \in Item, Add(s, x)  PROVE ResultType'
  BY <1>1, <1>2, <1>3 DEF Add, AddTo, Returned, ResultType, Silent
<1>4. ASSUME NEW s \in SetId, NEW x \in Item, Remove(s, x)  PROVE ResultType'
  BY <1>1, <1>2, <1>4 DEF Remove, RemoveFrom, Returned, ResultType, Silent, Lookup
<1>5. ASSUME NEW s \in SetId, NEW x \in Item, Get(s, x)  PROVE ResultType'
  BY <1>1, <1>2, <1>5 DEF Get, ResultType, Silent
<1>6. ASSUME NEW s \in SetId, Clear(s)  PROVE ResultType'
  BY <1>1, <1>6 DEF Clear, ResultType, Silent
<1>7. ASSUME NEW s \in SetId, NEW o \in SetId, Intersects(s, o)  PROVE ResultType'
  BY <1>1, <1>7 DEF Intersects, ResultType, Silent
<1>8. ASSUME NEW s \in SetId, NEW o \in SetId, NEW op, Bulk(op, s, o)  PROVE ResultType'
  BY <1>8 DEF Bulk, ResultType, Silent
<1> QED
  BY <1>3, <1>4, <1>5, <1>6, <1>7, <1>8 DEF Start

LEMMA InitIInv == Init => IInv
<1> SUFFICES ASSUME Init  PROVE Tables /\ Bulks /\ Growing /\ ResultType
  BY IInvParts
<1>1. /\ DOMAIN set = SetId /\ \A s \in SetId : set[s] = NewTable(Capacity[s])
      /\ pc = "idle" /\ cur \in SetId /\ i = 0
      /\ newSet = NewTable(0) /\ bulk = NoBulk /\ result = NoItem
  BY ItemAssumption DEF Init, NoBulk
<1>2. ASSUME NEW s \in SetId  PROVE AtRest(set[s])
  <2>1. /\ Capacity[s] \in Nat
        /\ TableSizes[Len(TableSizes) - 2] >= Capacity[s]
        /\ Len(TableSizes) - 2 \in 1..(Len(TableSizes) - 2)
    BY SizeAssumption, RoomAssumption
  <2> QED
    BY <1>1, <2>1, NewTableIs
<1>3. Tables
  BY <1>1, <1>2, FirstTable, SizePositive DEF Tables, AtRest, Base
<1>4. BulkType /\ bulk.op = "none"
  BY <1>1, ItemAssumption DEF BulkType, NoBulk
<1> QED
  BY <1>1, <1>3, <1>4
  DEF Bulks, Control, Joined, Subtracted, Sifted, NoneMissed, Growing, ResultType, Silent

LEMMA NextIInv == IInv /\ [Next]_vars => IInv'
<1>0. IInv' <=> Tables' /\ Bulks' /\ Growing' /\ ResultType'
  BY IInvParts, PTL
<1> SUFFICES ASSUME Tables, Bulks, Growing, ResultType, [Next]_vars
             PROVE  Tables' /\ Bulks' /\ Growing' /\ ResultType'
  BY <1>0, IInvParts
<1>1. CASE Start
  <2>1. ResultType'
    BY <1>1, StartResult
  <2>2. ASSUME UNCHANGED <<set, pc, cur, i, newSet, bulk>>
        PROVE  Tables' /\ Bulks' /\ Growing'
    <3>1. Tables' /\ Growing'
      BY <2>2 DEF Tables, Growing, Moved
    <3>2. BulkType' /\ Control'
      BY <2>2 DEF Bulks, BulkType, Control
    <3>3. Passed' = Passed
      BY <2>2 DEF Passed, Walked
    <3> QED
      BY <2>2, <3>1, <3>2, <3>3 DEF Bulks, Joined, Subtracted, Sifted, NoneMissed
  <2>3. ASSUME NEW s \in SetId, NEW x \in Item, Get(s, x)
        PROVE  Tables' /\ Bulks' /\ Growing'
    BY <2>2, <2>3 DEF Get
  <2>4. ASSUME NEW s \in SetId, NEW o \in SetId, Intersects(s, o)
        PROVE  Tables' /\ Bulks' /\ Growing'
    BY <2>2, <2>4 DEF Intersects
  <2> QED
    BY <1>1, <2>1, <2>3, <2>4, AddKeeps, RemoveKeeps, ClearKeeps, BulkKeeps DEF Start
<1>2. CASE Continue
  <2>1. CASE GrowStep
    BY <2>1, GrowStepIs, GrowStepBulks DEF ResultType, Silent
  <2>2. CASE GrowDone
    BY <2>2, GrowDoneIs, GrowDoneBulks DEF ResultType, Silent, Growing
  <2>3. CASE CleanupStep
    BY <2>3, CleanupStepIs, CleanupStepBulks DEF ResultType, Silent, Growing, CleanupStep
  <2>4. CASE CleanupDone
    BY <2>4, CleanupDoneIs, CleanupDoneBulks DEF ResultType, Silent, Growing
  <2>5. CASE BulkSkip
    BY <2>5, BulkSkipKeeps, AdvanceType DEF Bulks, ResultType, Silent, Growing, BulkSkip, InBulk
  <2>6. CASE UnionStep
    BY <2>6, UnionStepKeeps, AdvanceType DEF UnionStep, Bulks, ResultType, Silent
  <2>7. CASE MinusStep
    BY <2>7, MinusStepKeeps, AdvanceType DEF MinusStep, Bulks, ResultType, Silent, Growing
  <2>8. CASE IntersectStep
    BY <2>8, IntersectStepKeeps DEF IntersectStep, AfterRemoval, BulkStays, ResultType, Silent, Growing
  <2>9. CASE BulkDone
    BY <2>9, BulkDoneKeeps DEF BulkDone, NoBulk, ResultType, Silent, Growing
  <2> QED
    BY <1>2, <2>1, <2>2, <2>3, <2>4, <2>5, <2>6, <2>7, <2>8, <2>9 DEF Continue
<1>3. CASE UNCHANGED vars
  <2>1. UNCHANGED <<set, pc, cur, i, newSet, bulk, result>>
    BY <1>3 DEF vars
  <2>2. Passed' = Passed
    BY <2>1 DEF Passed, Walked
  <2>3. Tables' /\ Growing' /\ ResultType'
    BY <2>1 DEF Tables, Growing, Moved, ResultType, Silent
  <2>4. Bulks'
    BY <2>1, <2>2 DEF Bulks, BulkType, Control, Joined, Subtracted, Sifted, NoneMissed
  <2> QED
    BY <2>3, <2>4
<1> QED
  BY <1>1, <1>2, <1>3 DEF Next

(* The invariant of the tables holds in the middle of every operation, on  *)
(* one set or on two: every item is found on the probe sequence of its     *)
(* hash, but those that a growth or a cleanup has still to move.           *)
THEOREM IInvHolds == Spec => []IInv
BY InitIInv, NextIInv, PTL DEF Spec

-----------------------------------------------------------------------------
(* Walking from item to item.                                              *)

(* The last number of a set below c, or -1.                                *)
LEMMA LastBelow ==
  ASSUME NEW S \in SUBSET Nat, NEW c \in Nat
  PROVE  \E a \in S \cup {-1} : a < c /\ \A b \in S : b < c => b <= a
<1> DEFINE D == {d \in Nat : \A b \in S : b < c => b < d}
<1>1. c \in D
  OBVIOUS
<1>2. PICK d \in D : \A e \in D : d <= e
  BY <1>1, Least
<1>3. d <= c /\ d \in Nat
  BY <1>1, <1>2
<1>4. CASE d = 0
  BY <1>2, <1>4
<1>5. CASE d # 0
  <2>1. d - 1 \in Nat /\ d - 1 \notin D
    BY <1>2, <1>3, <1>5
  <2>2. PICK b \in S : b < c /\ ~(b < d - 1)
    BY <2>1
  <2>3. b = d - 1
    BY <1>2, <1>3, <2>2
  <2> QED
    BY <1>2, <1>3, <2>2, <2>3
<1> QED
  BY <1>3, <1>4, <1>5

(* What the walk visits at bucket c, and before and after all buckets.     *)
Visited(t, c) == IF c \in Filled(t) THEN t.table[c] ELSE NoItem

LEMMA IterateFromIs ==
  ASSUME NEW t, Table(t), OneOfEach(t), NEW f \in 0..t.size,
         NEW c \in Filled(t) \cup {t.size}
  PROVE  IterateFrom(t, f) = Visited(t, c) <=>
           f <= c /\ \A b \in Filled(t) : b >= f => b >= c
<1> DEFINE filled == {b \in f..(t.size - 1) : t.table[b] # NoItem}
           least == CHOOSE b \in filled : \A a \in filled : b <= a
<1>1. t.size \in Nat \ {0} /\ Filled(t) \subseteq 0..(t.size - 1)
  BY SizePositive DEF Filled, Buckets
<1>2. filled = {b \in Filled(t) : b >= f}
  BY <1>1 DEF Filled, Buckets
<1>3. IterateFrom(t, f) = IF filled = {} THEN NoItem ELSE t.table[least]
  BY DEF IterateFrom
<1>4. filled # {} => least \in filled /\ \A a \in filled : least <= a
  <2>1. filled \in SUBSET Nat
    BY <1>1, <1>2
  <2> QED
    BY <2>1, Least
<1> HIDE DEF filled, least
<1>5. \A b, d \in Filled(t) : t.table[b] = t.table[d] => b = d
  BY DEF OneOfEach
<1>6. \A b \in Filled(t) : t.table[b] # NoItem
  BY DEF Filled
<1>7. CASE filled = {}
  <2>1. IterateFrom(t, f) = NoItem /\ \A b \in Filled(t) : ~(b >= f)
    BY <1>2, <1>3, <1>7
  <2>2. CASE c \in Filled(t)
    BY <1>1, <1>6, <2>1, <2>2 DEF Visited
  <2>3. CASE c = t.size
    BY <1>1, <2>1, <2>3 DEF Visited
  <2> QED
    BY <2>2, <2>3
<1>8. CASE filled # {}
  <2>1. /\ IterateFrom(t, f) = t.table[least] /\ least \in Filled(t) /\ least >= f
        /\ \A b \in Filled(t) : b >= f => least <= b
    BY <1>2, <1>3, <1>4, <1>8
  <2>2. CASE c \in Filled(t)
    <3>1. IterateFrom(t, f) = Visited(t, c) <=> least = c
      BY <1>5, <2>1, <2>2 DEF Visited
    <3> QED
      BY <1>1, <2>1, <2>2, <3>1
  <2>3. CASE c = t.size
    BY <1>1, <1>6, <2>1, <2>3 DEF Visited
  <2> QED
    BY <2>2, <2>3
<1> QED
  BY <1>7, <1>8

(* The walk comes to each item, and to its end, from exactly one place.    *)
LEMMA WalkComplete ==
  ASSUME NEW t, Table(t), OneOfEach(t), NoGap(t)
  PROVE  LET walked == Contents(t) \cup {NoItem}
         IN \A x \in walked : \E y \in walked :
              {z \in walked : Iterate(t, z) = x} = {y}
<1> DEFINE walked == Contents(t) \cup {NoItem}
           From(a, c) == a < c /\ \A b \in Filled(t) : b > a => b >= c
<1>1. t.size \in Nat \ {0} /\ Filled(t) \subseteq 0..(t.size - 1)
  BY SizePositive DEF Filled, Buckets
<1>2. /\ \A z \in walked : \E a \in Filled(t) \cup {-1} : z = Visited(t, a)
      /\ \A a \in Filled(t) \cup {-1} : Visited(t, a) \in walked
      /\ \A x \in walked : \E c \in Filled(t) \cup {t.size} : x = Visited(t, c)
  BY <1>1, ContentsFilled DEF Visited
<1>3. ASSUME NEW a \in Filled(t) \cup {-1}, NEW c \in Filled(t) \cup {t.size}
      PROVE  Iterate(t, Visited(t, a)) = Visited(t, c) <=> From(a, c)
  <2>1. a + 1 \in 0..t.size /\ a \in Int
    BY <1>1
  <2>2. Iterate(t, Visited(t, a)) = IterateFrom(t, a + 1)
    <3>1. CASE a \in Filled(t)
      <4>1. Visited(t, a) = t.table[a] /\ t.table[a] # NoItem /\ Probe(t, t.table[a]) = a
        BY <3>1, ItemFound DEF Visited, Filled
      <4> QED
        BY <4>1 DEF Iterate
    <3>2. CASE a = -1
      <4>1. a \notin Filled(t) /\ a + 1 = 0
        BY <1>1, <3>2
      <4> QED
        BY <4>1 DEF Visited, Iterate
    <3> QED
      BY <3>1, <3>2
  <2>3. Iterate(t, Visited(t, a)) = Visited(t, c) <=>
          a + 1 <= c /\ \A b \in Filled(t) : b >= a + 1 => b >= c
    BY <2>1, <2>2, IterateFromIs
  <2>4. c \in Nat /\ \A b \in Filled(t) : b \in Nat
    BY <1>1
  <2> QED
    BY <2>1, <2>3, <2>4
<1> HIDE DEF walked
<1> SUFFICES ASSUME NEW x \in walked
             PROVE  \E y \in walked : {z \in walked : Iterate(t, z) = x} = {y}
  BY DEF walked
<1>4. PICK c \in Filled(t) \cup {t.size} : x = Visited(t, c)
  BY <1>2
<1>5. PICK a \in Filled(t) \cup {-1} : From(a, c)
  <2>1. Filled(t) \in SUBSET Nat /\ c \in Nat
    BY <1>1
  <2>2. PICK a \in Filled(t) \cup {-1} : a < c /\ \A b \in Filled(t) : b < c => b <= a
    BY <2>1, LastBelow
  <2> QED
    BY <2>1, <2>2
<1>6. ASSUME NEW e \in Filled(t) \cup {-1}, From(e, c)  PROVE e = a
  BY <1>1, <1>4, <1>5, <1>6
<1> HIDE DEF From
<1>7. Visited(t, a) \in walked /\ Iterate(t, Visited(t, a)) = x
  BY <1>2, <1>3, <1>4, <1>5
<1>8. ASSUME NEW z \in walked, Iterate(t, z) = x  PROVE z = Visited(t, a)
  <2>1. PICK e \in Filled(t) \cup {-1} : z = Visited(t, e)
    BY <1>2
  <2>2. From(e, c)
    BY <1>3, <1>4, <1>8, <2>1
  <2> QED
    BY <1>6, <2>1, <2>2
<1> QED
  BY <1>7, <1>8

-----------------------------------------------------------------------------
(* What this means for a caller.                                           *)

LEMMA SettledAtRest ==
  ASSUME Tables, NEW s \in SetId, Settled(s)
  PROVE  AtRest(set[s])
BY DEF Tables, Settled

LEMMA EmptyInRange ==
  ASSUME NEW t, Table(t), HasEmpty(t)
  PROVE  NoItem \in Range(t.table)
BY DEF Table, HasEmpty, Range

LEMMA IInvSound == IInv => TableSound
<1> SUFFICES ASSUME IInv, Tables  PROVE EveryItemFound /\ BucketLeft /\ IterationComplete
  BY IInvParts DEF TableSound
<1>1. EveryItemFound
  <2> SUFFICES ASSUME NEW s \in SetId, Settled(s), NEW b \in Buckets(set[s]),
                      set[s].table[b] # NoItem
               PROVE  Probe(set[s], set[s].table[b]) = b
    BY DEF EveryItemFound
  <2>1. Table(set[s]) /\ OneOfEach(set[s]) /\ NoGap(set[s])
    BY SettledAtRest DEF AtRest, Base
  <2>2. b \in Filled(set[s])
    BY DEF Filled
  <2> QED
    BY <2>1, <2>2, ItemFound
<1>2. BucketLeft
  <2>1. ASSUME NEW t, Base(t), Room(t)  PROVE NoItem \in Range(t.table)
    BY <2>1, RoomLeft, EmptyInRange DEF Base
  <2>2. ASSUME NEW s \in SetId, Settled(s) \/ pc = "cleanup"
        PROVE  Base(set[s]) /\ Room(set[s])
    BY <2>2, SettledAtRest DEF Tables, AtRest
  <2>3. Base(newSet) /\ Room(newSet)
    BY DEF Tables, AtRest
  <2> QED
    BY <2>1, <2>2, <2>3 DEF BucketLeft
<1>3. IterationComplete
  <2>1. ASSUME NEW s \in SetId, Settled(s)
        PROVE  Table(set[s]) /\ OneOfEach(set[s]) /\ NoGap(set[s])
    BY <2>1, SettledAtRest DEF AtRest, Base
  <2> QED
    BY <2>1, WalkComplete DEF IterationComplete
<1> QED
  BY <1>1, <1>2, <1>3

(* BitWSetAdd, BitWSetRemove, _BitWSetGrow and the operations on two sets  *)
(* leave every table usable, between any two of their steps.               *)
THEOREM SetSound == Spec => []TableSound
BY IInvHolds, IInvSound, PTL

-----------------------------------------------------------------------------
(* The table implements the sets of the interface.                         *)

(* What ItemSet's items stand for.                                         *)
Items ==
  [s \in SetId |->
     IF bulk.op # "none" /\ bulk.set = s THEN bulk.from ELSE Contents(set[s])]

LEMMA ItemsIdle ==
  ASSUME bulk.op = "none"
  PROVE  Items = [s \in SetId |-> Contents(set[s])]
BY DEF Items

(* A search returns the one item of the set that is equal to x.            *)
LEMMA LookupReturns ==
  ASSUME Tables, Bulks, pc = "idle", NEW s \in SetId, NEW x \in Item
  PROVE  LET equal == {y \in Contents(set[s]) : Key[y] = Key[x]}
         IN Lookup(set[s], x) =
              IF equal = {} THEN NoItem ELSE CHOOSE y \in equal : TRUE
<1> DEFINE t == set[s]
           equal == {y \in Contents(t) : Key[y] = Key[x]}
<1>1. Table(t) /\ OneOfEach(t) /\ NoGap(t) /\ HasEmpty(t)
  BY IdleIs, RoomLeft DEF AtRest, Base
<1>2. /\ Lookup(t, x) = NoItem => \A y \in Contents(t) : Key[y] # Key[x]
      /\ Lookup(t, x) # NoItem => equal = {Lookup(t, x)}
  BY <1>1, LookupFinds
<1>3. \A y : (CHOOSE z \in {y} : TRUE) = y
  OBVIOUS
<1>4. CASE Lookup(t, x) = NoItem
  BY <1>2, <1>4
<1>5. CASE Lookup(t, x) # NoItem
  BY <1>2, <1>3, <1>5
<1> QED
  BY <1>4, <1>5

LEMMA InitAbstract == Init => Abstract!Init
<1> SUFFICES ASSUME Init  PROVE Abstract!Init
  OBVIOUS
<1>1. \A s \in SetId : set[s] = NewTable(Capacity[s])
  BY DEF Init
<1>2. ASSUME NEW s \in SetId  PROVE Contents(set[s]) = {}
  <2>1. /\ Capacity[s] \in Nat
        /\ TableSizes[Len(TableSizes) - 2] >= Capacity[s]
        /\ Len(TableSizes) - 2 \in 1..(Len(TableSizes) - 2)
    BY SizeAssumption, RoomAssumption
  <2> QED
    BY <1>1, <2>1, NewTableIs
<1>3. bulk.op = "none" /\ result = NoItem
  BY DEF Init, NoBulk
<1> QED
  BY <1>2, <1>3 DEF Abstract!Init

(* The operations on one set take effect with their first step.            *)
LEMMA AddAbstract ==
  ASSUME Tables, Bulks, NEW s \in SetId, NEW x \in Item, Add(s, x)
  PROVE  Abstract!Add(s, x)
<1> DEFINE equal == {y \in Contents(set[s]) : Key[y] = Key[x]}
<1>1. /\ pc = "idle" /\ AddTo(s, x) /\ UNCHANGED bulk /\ bulk.op = "none"
  BY IdleIs DEF Add
<1>2. /\ \A r \in SetId \ {s} : set'[r] = set[r]
      /\ Contents(set'[s]) = {y \in Contents(set[s]) : Key[y] # Key[x]} \cup {x}
  BY <1>1, AddToIs
<1>3. result' = IF equal = {} THEN NoItem ELSE CHOOSE y \in equal : TRUE
  BY <1>1, LookupReturns DEF AddTo, Returned
<1>4. Contents(set'[s]) = (Contents(set[s]) \ equal) \cup {x}
  BY <1>2
<1>5. Items = [r \in SetId |-> Contents(set[r])]
  BY <1>1, ItemsIdle
<1>6. Items' = [r \in SetId |-> Contents(set'[r])]
  BY <1>1 DEF Items
<1>7. equal = {y \in Items[s] : Key[y] = Key[x]}
  BY <1>5
<1>8. Items' = [Items EXCEPT ![s] = (Items[s] \ equal) \cup {x}]
  BY <1>2, <1>4, <1>5, <1>6
<1> HIDE DEF equal
<1> QED
  BY <1>3, <1>7, <1>8
  DEF Abstract!Add, Abstract!Holds, Abstract!Equals, Abstract!Returned, Items

LEMMA RemoveAbstract ==
  ASSUME Tables, Bulks, NEW s \in SetId, NEW x \in Item, Remove(s, x)
  PROVE  Abstract!Remove(s, x)
<1> DEFINE equal == {y \in Contents(set[s]) : Key[y] = Key[x]}
<1>1. /\ pc = "idle" /\ RemoveFrom(s, x) /\ UNCHANGED bulk /\ bulk.op = "none"
  BY IdleIs DEF Remove
<1>2. /\ \A r \in SetId \ {s} : set'[r] = set[r]
      /\ Contents(set'[s]) = {y \in Contents(set[s]) : Key[y] # Key[x]}
  BY <1>1, RemoveFromIs
<1>3. result' = IF equal = {} THEN NoItem ELSE CHOOSE y \in equal : TRUE
  <2>1. result' = Lookup(set[s], x)
    BY <1>1 DEF RemoveFrom, Returned, Lookup
  <2> QED
    BY <1>1, <2>1, LookupReturns
<1>4. Contents(set'[s]) = Contents(set[s]) \ equal
  BY <1>2
<1>5. Items = [r \in SetId |-> Contents(set[r])]
  BY <1>1, ItemsIdle
<1>6. Items' = [r \in SetId |-> Contents(set'[r])]
  BY <1>1 DEF Items
<1>7. equal = {y \in Items[s] : Key[y] = Key[x]}
  BY <1>5
<1>8. Items' = [Items EXCEPT ![s] = Items[s] \ equal]
  BY <1>2, <1>4, <1>5, <1>6
<1> HIDE DEF equal
<1> QED
  BY <1>3, <1>7, <1>8
  DEF Abstract!Remove, Abstract!Holds, Abstract!Equals, Abstract!Returned, Items

LEMMA GetAbstract ==
  ASSUME Tables, Bulks, NEW s \in SetId, NEW x \in Item, Get(s, x)
  PROVE  Abstract!Get(s, x)
<1> DEFINE equal == {y \in Contents(set[s]) : Key[y] = Key[x]}
<1>1. /\ pc = "idle" /\ result' = Lookup(set[s], x) /\ UNCHANGED <<set, bulk>>
      /\ bulk.op = "none"
  BY IdleIs DEF Get
<1>2. result' = IF equal = {} THEN NoItem ELSE CHOOSE y \in equal : TRUE
  BY <1>1, LookupReturns
<1>3. equal = {y \in Items[s] : Key[y] = Key[x]}
  BY <1>1, ItemsIdle
<1>4. Items' = Items
  BY <1>1 DEF Items
<1> HIDE DEF equal
<1> QED
  BY <1>2, <1>3, <1>4 DEF Abstract!Get, Abstract!Equals, Abstract!Returned, Items

LEMMA IntersectsAbstract ==
  ASSUME Tables, Bulks, NEW s \in SetId, NEW o \in SetId, Intersects(s, o)
  PROVE  Abstract!Intersects(s, o)
<1>1. /\ pc = "idle" /\ UNCHANGED <<set, bulk>> /\ bulk.op = "none"
      /\ result' = \E x \in Contents(set[o]) : Lookup(set[s], x) # NoItem
      /\ Table(set[s]) /\ OneOfEach(set[s]) /\ NoGap(set[s]) /\ HasEmpty(set[s])
      /\ Contents(set[o]) \subseteq Item
  BY IdleIs, RoomLeft, ContentsFilled DEF Intersects, AtRest, Base
<1>2. ASSUME NEW x \in Item
      PROVE  Lookup(set[s], x) # NoItem <=> \E y \in Contents(set[s]) : Key[y] = Key[x]
  <2>1. /\ Lookup(set[s], x) = NoItem => \A y \in Contents(set[s]) : Key[y] # Key[x]
        /\ Lookup(set[s], x) # NoItem =>
             {y \in Contents(set[s]) : Key[y] = Key[x]} = {Lookup(set[s], x)}
    BY <1>1, LookupFinds
  <2> QED
    BY <2>1
<1>3. Items[s] = Contents(set[s]) /\ Items[o] = Contents(set[o]) /\ Items' = Items
  BY <1>1 DEF Items
<1>4. result' = \E x \in Items[o] : \E y \in Items[s] : Key[y] = Key[x]
  BY <1>1, <1>2, <1>3
<1>5. (\E x \in Items[o] : \E y \in Items[s] : Key[y] = Key[x])
        = ({y \in Items[s] : {x \in Items[o] : Key[x] = Key[y]} # {}} # {})
  OBVIOUS
<1> QED
  BY <1>3, <1>4, <1>5
  DEF Abstract!Intersects, Abstract!Matching, Abstract!Equals, Items

LEMMA ClearAbstract ==
  ASSUME Tables, Bulks, NEW s \in SetId, Clear(s)
  PROVE  Abstract!Clear(s)
<1>1. /\ bulk.op = "none" /\ UNCHANGED bulk /\ result' = NoItem
  BY IdleIs DEF Clear
<1>2. /\ \A r \in SetId \ {s} : set'[r] = set[r]
      /\ Contents(set'[s]) = {}
  BY ClearKeeps
<1>3. Items' = [Items EXCEPT ![s] = {}]
  BY <1>1, <1>2 DEF Items
<1> QED
  BY <1>1, <1>3 DEF Abstract!Clear, Abstract!Holds, Abstract!Void, Items

(* To begin an operation on two sets changes no set and returns nothing,   *)
(* as a search for an item that is not there does, or the intersection of  *)
(* two sets that have all there is.                                        *)
LEMMA BulkAbstract ==
  ASSUME Tables, Bulks, NEW s \in SetId, NEW o \in SetId, s # o,
         NEW op, Bulk(op, s, o)
  PROVE  Abstract!Next
<1>1. /\ bulk.op = "none" /\ result' = NoItem /\ UNCHANGED set
      /\ bulk'.set = s /\ bulk'.from = Contents(set[s])
      /\ \A r \in SetId : AtRest(set[r])
  BY IdleIs DEF Bulk
<1>2. Items' = Items /\ \A r \in SetId : Items[r] \subseteq Item
  BY <1>1, ContentsFilled DEF Items, AtRest, Base
<1>3. CASE \E r \in SetId, x \in Item : \A y \in Items[r] : Key[y] # Key[x]
  <2>1. PICK r \in SetId, x \in Item : \A y \in Items[r] : Key[y] # Key[x]
    BY <1>3
  <2>2. {y \in Items[r] : Key[y] = Key[x]} = {}
    BY <2>1
  <2>3. Abstract!Get(r, x)
    BY <1>1, <1>2, <2>2 DEF Abstract!Get, Abstract!Returned, Abstract!Equals, Items
  <2> QED
    BY <2>3 DEF Abstract!Next
<1>4. CASE \A r \in SetId, x \in Item : \E y \in Items[r] : Key[y] = Key[x]
  <2>1. {y \in Items[s] : {z \in Items[o] : Key[z] = Key[y]} # {}} = Items[s]
    BY <1>2, <1>4
  <2>2. Items' = [Items EXCEPT ![s] = Items[s]]
    BY <1>2 DEF Items
  <2>3. Abstract!Intersect(s, o)
    BY <1>1, <2>1, <2>2
    DEF Abstract!Intersect, Abstract!Holds, Abstract!Matching, Abstract!Equals,
        Abstract!Void, Items
  <2> QED
    BY <2>3 DEF Abstract!Next
<1> QED
  BY <1>3, <1>4

LEMMA ItemsStay ==
  ASSUME bulk'.op = bulk.op, bulk'.set = bulk.set, bulk'.from = bulk.from,
         \A s \in SetId : \/ bulk.op # "none" /\ bulk.set = s
                          \/ Contents(set'[s]) = Contents(set[s])
  PROVE  Items' = Items
BY DEF Items

(* The loops change no set of the interface before they are done.          *)
LEMMA LoopStutters ==
  ASSUME Tables, Bulks, Growing, Continue, ~BulkDone
  PROVE  Items' = Items /\ result' = result
<1>1. CASE GrowStep
  BY <1>1, ItemsStay DEF GrowStep
<1>2. CASE GrowDone
  BY <1>2, GrowDoneIs, ItemsStay
<1>3. CASE CleanupStep
  BY <1>3, CleanupStepIs, ItemsStay
<1>4. CASE CleanupDone
  BY <1>4, CleanupDoneIs, ItemsStay
<1>5. CASE BulkSkip
  <2>1. BulkType /\ BulkAdvances
    BY <1>5 DEF Bulks, BulkSkip
  <2> QED
    BY <1>5, <2>1, BulkSkipKeeps, AdvanceType, ItemsStay
<1>6. CASE UnionStep
  <2>1. /\ pc = "bulk" /\ bulk.op # "none" /\ BulkType /\ BulkAdvances
        /\ bulk.set \in SetId /\ AddTo(bulk.set, Walked.table[bulk.i])
        /\ Walked.table[bulk.i] \in Item /\ result' = result
    <3>1. bulk.i < Walked.size /\ Walked.table[bulk.i] # NoItem /\ pc = "bulk"
      BY <1>6 DEF UnionStep, InBulk
    <3>2. Table(Walked) /\ bulk.i \in Nat /\ Walked.size \in Nat
      BY <3>1, WalkedIs, SizePositive DEF Bulks, AtRest, Base
    <3>3. Walked.table[bulk.i] \in Item
      BY <3>1, <3>2 DEF Table, Buckets
    <3> QED
      BY <1>6, <3>1, <3>3, UnionStepKeeps DEF UnionStep, InBulk, Bulks, BulkType
  <2>2. \A r \in SetId \ {bulk.set} : set'[r] = set[r]
    BY <2>1, AddToIs
  <2> QED
    BY <2>1, <2>2, AdvanceType, ItemsStay
<1>7. CASE MinusStep
  <2>1. /\ bulk.op # "none" /\ BulkType /\ BulkAdvances /\ DOMAIN set = SetId
        /\ bulk.set \in SetId /\ RemoveFrom(bulk.set, Walked.table[bulk.i])
        /\ result' = result
    BY <1>7, MinusStepKeeps DEF MinusStep, InBulk, Bulks, BulkType, Tables
  <2>2. \A r \in SetId \ {bulk.set} : set'[r] = set[r]
    BY <2>1 DEF RemoveFrom
  <2> QED
    BY <2>1, <2>2, AdvanceType, ItemsStay
<1>8. CASE IntersectStep
  <2>1. /\ bulk.op # "none" /\ UNCHANGED bulk /\ DOMAIN set = SetId
        /\ bulk.set \in SetId /\ RemoveFrom(bulk.set, Walked.table[bulk.i])
        /\ result' = result
    BY <1>8, IntersectStepKeeps
    DEF IntersectStep, InBulk, AfterRemoval, BulkStays, Bulks, BulkType, Tables
  <2>2. \A r \in SetId \ {bulk.set} : set'[r] = set[r]
    BY <2>1 DEF RemoveFrom
  <2> QED
    BY <2>1, <2>2, ItemsStay
<1> QED
  BY <1>1, <1>2, <1>3, <1>4, <1>5, <1>6, <1>7, <1>8 DEF Continue

(* An operation on two sets takes effect at its end.                       *)
LEMMA BulkDoneAbstract ==
  ASSUME Tables, Bulks, Silent, BulkDone
  PROVE  Abstract!Next
<1>0. PICK s \in SetId, o \in SetId : s = bulk.set /\ o = bulk.other
  BY DEF Bulks, BulkType
<1> DEFINE own == Contents(set[s])
           other == Contents(set[o])
           matching == {y \in bulk.from : {z \in other : Key[z] = Key[y]} # {}}
<1>1. /\ pc = "bulk" /\ bulk.i = Walked.size /\ bulk'.op = "none"
      /\ UNCHANGED <<set, result>>
  BY DEF BulkDone, NoBulk
<1>2. /\ s \in SetId /\ o \in SetId \ {s} /\ bulk.op # "none" /\ AtRest(Walked)
      /\ bulk.op \in {"union", "minus", "intersect"} /\ result = NoItem
  BY <1>0, <1>1, WalkedIs DEF Bulks, BulkType, Silent
<1>3. Passed = Contents(Walked)
  <2>1. Table(Walked) /\ Walked.size \in Nat
    BY <1>2, SizePositive DEF AtRest, Base
  <2>2. \A c \in Filled(Walked) : c < bulk.i
    BY <1>1, <2>1 DEF Filled, Buckets
  <2> QED
    BY <2>1, <2>2, ContentsFilled DEF Passed
<1>4. /\ Items[s] = bulk.from /\ Items[o] = other
      /\ Items' = [Items EXCEPT ![s] = own]
  BY <1>0, <1>1, <1>2 DEF Items
<1>5. bulk.from \ matching = Unequalled(bulk.from, other)
  BY DEF Unequalled, Equalled
<1>6. matching = {y \in Items[s] : {z \in Items[o] : Key[z] = Key[y]} # {}}
  BY <1>4
<1>7. CASE bulk.op = "union"
  <2>1. Walked = set[o]
    BY <1>0, <1>7 DEF Walked
  <2>2. own = (Items[s] \ matching) \cup Items[o]
    BY <1>0, <1>3, <1>4, <1>5, <1>7, <2>1 DEF Bulks, Joined
  <2> HIDE DEF own, other, matching
  <2>3. Abstract!Union(s, o)
    BY <1>1, <1>2, <1>4, <1>6, <2>2
    DEF Abstract!Union, Abstract!Holds, Abstract!Matching, Abstract!Equals,
        Abstract!Void, Items
  <2> QED
    BY <1>2, <2>3 DEF Abstract!Next
<1>8. CASE bulk.op = "minus"
  <2>1. Walked = set[o]
    BY <1>0, <1>8 DEF Walked
  <2>2. own = Items[s] \ matching
    BY <1>0, <1>3, <1>4, <1>5, <1>8, <2>1 DEF Bulks, Subtracted
  <2> HIDE DEF own, other, matching
  <2>3. Abstract!Minus(s, o)
    BY <1>1, <1>2, <1>4, <1>6, <2>2
    DEF Abstract!Minus, Abstract!Holds, Abstract!Matching, Abstract!Equals,
        Abstract!Void, Items
  <2> QED
    BY <1>2, <2>3 DEF Abstract!Next
<1>9. CASE bulk.op = "intersect"
  <2>1. Walked = set[s]
    BY <1>0, <1>9 DEF Walked
  <2>2. /\ own \subseteq bulk.from
        /\ \A y \in bulk.from \ own : ~Equalled(other, y)
        /\ \A y \in own : Equalled(other, y)
    BY <1>0, <1>3, <1>9, <2>1 DEF Bulks, Sifted
  <2>3. own = matching
    BY <2>2 DEF Equalled
  <2> HIDE DEF own, other, matching
  <2>4. Abstract!Intersect(s, o)
    BY <1>1, <1>2, <1>4, <1>6, <2>3
    DEF Abstract!Intersect, Abstract!Holds, Abstract!Matching, Abstract!Equals,
        Abstract!Void, Items
  <2> QED
    BY <1>2, <2>4 DEF Abstract!Next
<1> QED
  BY <1>2, <1>7, <1>8, <1>9

LEMMA StepAbstract == IInv /\ [Next]_vars => [Abstract!Next]_(Abstract!vars)
<1> SUFFICES ASSUME Tables, Bulks, Growing, ResultType, [Next]_vars
             PROVE  [Abstract!Next]_(Abstract!vars)
  BY IInvParts
<1>1. ASSUME Items' = Items, result' = result  PROVE UNCHANGED Abstract!vars
  BY <1>1 DEF Abstract!vars, Items
<1>2. CASE Start
  <2>1. ASSUME NEW s \in SetId, NEW x \in Item, Add(s, x)  PROVE Abstract!Next
    BY <2>1, AddAbstract DEF Abstract!Next
  <2>2. ASSUME NEW s \in SetId, NEW x \in Item, Remove(s, x)  PROVE Abstract!Next
    BY <2>2, RemoveAbstract DEF Abstract!Next
  <2>3. ASSUME NEW s \in SetId, Clear(s)  PROVE Abstract!Next
    BY <2>3, ClearAbstract DEF Abstract!Next
  <2>4. ASSUME NEW s \in SetId, NEW x \in Item, Get(s, x)  PROVE Abstract!Next
    BY <2>4, GetAbstract DEF Abstract!Next
  <2>5. ASSUME NEW s \in SetId, NEW o \in SetId, s # o, Intersects(s, o)
        PROVE  Abstract!Next
    BY <2>5, IntersectsAbstract DEF Abstract!Next
  <2>6. ASSUME NEW s \in SetId, NEW o \in SetId, s # o, NEW op, Bulk(op, s, o)
        PROVE  Abstract!Next
    BY <2>6, BulkAbstract
  <2> QED
    BY <1>2, <2>1, <2>2, <2>3, <2>4, <2>5, <2>6 DEF Start
<1>3. CASE Continue
  BY <1>1, <1>3, LoopStutters, BulkDoneAbstract DEF ResultType
<1>4. CASE UNCHANGED vars
  BY <1>1, <1>4, ItemsStay DEF vars
<1> QED
  BY <1>2, <1>3, <1>4 DEF Next

(* The table does to the sets, and returns, what BitWSet.h promises: every *)
(* addition, growth, removal, cleanup and operation on two sets.           *)
THEOREM SetImplementsItems == Spec => ImplementsItemSet
BY InitAbstract, StepAbstract, IInvHolds, PTL DEF Spec, ImplementsItemSet, Abstract!Spec
=============================================================================
