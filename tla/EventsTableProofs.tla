--------------------------- MODULE EventsTableProofs ---------------------------
(***************************************************************************)
(* What a page of the events table holds and what it leaves out, for every *)
(* table, filter, limit and offset.                                        *)
(***************************************************************************)
EXTENDS EventsTable, SequenceTheorems, FiniteSetTheorems, TLAPS

Rank(places, k) == Cardinality(UpTo(places, k))

LEMMA RankType ==
  ASSUME NEW places \in SUBSET Nat, IsFiniteSet(places), NEW k \in places
  PROVE  /\ IsFiniteSet(UpTo(places, k))
         /\ Cardinality(places) \in Nat
         /\ Rank(places, k) \in 1..Cardinality(places)
<1>1. UpTo(places, k) \in SUBSET places /\ k \in UpTo(places, k)
  BY DEF UpTo
<1>2. /\ IsFiniteSet(UpTo(places, k))
      /\ Rank(places, k) <= Cardinality(places)
  BY <1>1, FS_Subset DEF Rank
<1>3. Cardinality(places) \in Nat /\ Rank(places, k) \in Nat
  BY <1>2, FS_CardinalityType DEF Rank
<1>4. Rank(places, k) # 0
  BY <1>1, <1>2, FS_EmptySet DEF Rank
<1> QED
  BY <1>2, <1>3, <1>4

LEMMA RankGrows ==
  ASSUME NEW places \in SUBSET Nat, IsFiniteSet(places),
         NEW k \in places, NEW l \in places, k < l
  PROVE  Rank(places, k) < Rank(places, l)
<1>1. /\ UpTo(places, k) \in SUBSET UpTo(places, l)
      /\ UpTo(places, k) # UpTo(places, l)
  <2>1. UpTo(places, k) \in SUBSET UpTo(places, l)
    <3>1. \A m \in places : m \in Nat
      OBVIOUS
    <3>2. \A m \in places : m <= k => m <= l
      BY <3>1
    <3> QED
      BY <3>2, Zenon DEF UpTo
  <2>2. l \in UpTo(places, l) /\ l \notin UpTo(places, k)
    BY DEF UpTo
  <2> QED
    BY <2>1, <2>2
<1>2. /\ Rank(places, k) <= Rank(places, l)
      /\ Rank(places, k) # Rank(places, l)
  <2>1. IsFiniteSet(UpTo(places, l))
    BY RankType
  <2> QED
    BY <1>1, <2>1, FS_Subset DEF Rank
<1>3. Rank(places, k) \in Nat /\ Rank(places, l) \in Nat
  BY RankType
<1> QED
  BY <1>2, <1>3

(* The n-th place is there, and it is the only one of its rank.             *)
LEMMA NthPlace ==
  ASSUME NEW places \in SUBSET Nat, IsFiniteSet(places)
  PROVE  /\ \A n \in 1..Cardinality(places) :
              Nth(places, n) \in places /\ Rank(places, Nth(places, n)) = n
         /\ \A k \in places : Nth(places, Rank(places, k)) = k
         /\ \A m, n \in 1..Cardinality(places) :
              m < n => Nth(places, m) < Nth(places, n)
<1> DEFINE C == Cardinality(places)
           g == [k \in places |-> Rank(places, k)]
<1>1. C \in Nat
  BY FS_CardinalityType
<1>2. \A k \in places : Rank(places, k) \in 1..C
  BY RankType
<1>3. \A k, l \in places : Rank(places, k) = Rank(places, l) => k = l
  <2> SUFFICES ASSUME NEW k \in places, NEW l \in places, k # l
               PROVE  Rank(places, k) # Rank(places, l)
    OBVIOUS
  <2>1. k \in Nat /\ l \in Nat
    OBVIOUS
  <2>2. k < l \/ l < k
    BY <2>1
  <2>3. Rank(places, k) < Rank(places, l) \/ Rank(places, l) < Rank(places, k)
    BY <2>2, RankGrows
  <2> QED
    BY <1>1, <1>2, <2>3
<1>4. g \in Injection(places, 1..C)
  BY <1>2, <1>3, Zenon DEF Injection, IsInjective
<1>5. \A n \in 1..C : \E k \in places : Rank(places, k) = n
  <2>1. IsFiniteSet(1..C) /\ Cardinality(1..C) = C
    BY <1>1, FS_Interval
  <2>2. g \in Surjection(places, 1..C)
    BY <1>4, <2>1, FS_Injection
  <2> QED
    BY <2>2, Zenon DEF Surjection
<1>6. \A n \in 1..C : Nth(places, n) \in places /\ Rank(places, Nth(places, n)) = n
  BY <1>5, Zenon DEF Nth, Rank
<1>7. \A k \in places : Nth(places, Rank(places, k)) = k
  BY <1>2, <1>3, <1>6
<1>8. ASSUME NEW m \in 1..C, NEW n \in 1..C, m < n
      PROVE  Nth(places, m) < Nth(places, n)
  <2>1. Nth(places, m) \in places /\ Nth(places, n) \in places
    BY <1>6
  <2>2. ~(Nth(places, n) < Nth(places, m)) /\ Nth(places, m) # Nth(places, n)
    <3>1. ~(Rank(places, Nth(places, n)) < Rank(places, Nth(places, m)))
      BY <1>1, <1>6, <1>8
    <3>2. Rank(places, Nth(places, m)) # Rank(places, Nth(places, n))
      BY <1>1, <1>6, <1>8
    <3> QED
      BY <2>1, <3>1, <3>2, RankGrows
  <2>3. Nth(places, m) \in Nat /\ Nth(places, n) \in Nat
    BY <2>1
  <2> QED
    BY <2>2, <2>3
<1> QED
  BY <1>6, <1>7, <1>8

(* Listed has the rows of the set, each once, in the order of the listing.  *)
LEMMA ListedRows ==
  ASSUME NEW n \in Nat, NEW order \in [1..n -> 1..n], NEW set \in SUBSET (1..n),
         \A i \in 1..n : \E k \in 1..n : order[k] = i
  PROVE  LET q == Listed(order, set)
         IN  /\ q \in Seq(set)
             /\ \A i \in set : \E r \in 1..Len(q) : q[r] = i
             /\ \A r, t \in 1..Len(q) :
                  r < t => \E k, l \in 1..n :
                             k < l /\ q[r] = order[k] /\ q[t] = order[l]
<1> DEFINE places == {k \in 1..n : order[k] \in set}
           C == Cardinality(places)
           q == Listed(order, set)
<1>1. places \in SUBSET Nat /\ places \in SUBSET (1..n) /\ IsFiniteSet(places)
  <2>1. places \in SUBSET (1..n) /\ IsFiniteSet(1..n)
    BY FS_Interval
  <2> QED
    BY <2>1, FS_Subset
<1>2. C \in Nat
  BY <1>1, FS_CardinalityType
<1>3. q = [m \in 1..C |-> order[Nth(places, m)]]
  BY DEF Listed
<1>4. \A k \in places : k \in 1..n /\ order[k] \in set
  OBVIOUS
<1>5. \A k \in 1..n : order[k] \in set => k \in places
  OBVIOUS
<1> HIDE DEF places, q
<1>6. q \in [1..C -> set]
  BY <1>1, <1>3, <1>4, NthPlace
<1>7. q \in Seq(set) /\ Len(q) = C
  <2>1. q \in Seq(set)
    BY <1>2, <1>6, SeqDef
  <2>2. DOMAIN q = 1..Len(q) /\ Len(q) \in Nat
    BY <2>1, LenProperties
  <2> QED
    BY <1>2, <1>6, <2>1, <2>2
<1>8. ASSUME NEW i \in set PROVE \E r \in 1..Len(q) : q[r] = i
  <2>1. PICK k \in 1..n : order[k] = i
    OBVIOUS
  <2>2. k \in places
    BY <1>5, <2>1
  <2>3. Rank(places, k) \in 1..C /\ Nth(places, Rank(places, k)) = k
    BY <1>1, <2>2, RankType, NthPlace
  <2> QED
    BY <1>3, <1>7, <2>1, <2>3
<1>9. ASSUME NEW r \in 1..Len(q), NEW t \in 1..Len(q), r < t
      PROVE  \E k, l \in 1..n : k < l /\ q[r] = order[k] /\ q[t] = order[l]
  <2>1. /\ Nth(places, r) < Nth(places, t)
        /\ Nth(places, r) \in 1..n /\ Nth(places, t) \in 1..n
    BY <1>1, <1>4, <1>7, <1>9, NthPlace
  <2>2. q[r] = order[Nth(places, r)] /\ q[t] = order[Nth(places, t)]
    BY <1>3, <1>7
  <2> QED
    BY <2>1, <2>2
<1> QED
  BY <1>7, <1>8, <1>9 DEF q

-----------------------------------------------------------------------------
Rows      == 1..Len(Chain)
KeysTyped == /\ Len(Chain) \in Nat
             /\ \A i \in Rows : Chain[i].block \in Nat /\ Chain[i].logIndex \in Nat

Matching(table, f, first, final) == {i \in table : Selected(f, first, final, i)}

(* The rows of a selection that are listed before a row in any listing.     *)
Newer(set, i) == {j \in set : Before(i, j)}

LEMMA ListingOrder ==
  ASSUME KeysTyped, NEW order \in Listings
  PROVE  /\ order \in [Rows -> Rows]
         /\ \A i \in Rows : \E k \in Rows : order[k] = i
         /\ \A j, k \in Rows :
              j < k => order[j] # order[k] /\ ~Before(order[j], order[k])
<1>1. IsFiniteSet(Rows) /\ Cardinality(Rows) = Len(Chain)
  <2>1. 1 \in Int /\ Len(Chain) \in Int /\ (1 > Len(Chain) => Len(Chain) = 0)
    BY DEF KeysTyped
  <2> QED
    BY <2>1, FS_Interval DEF Rows
<1>2. /\ order \in [Rows -> Rows]
      /\ \A j, k \in Rows : j # k => order[j] # order[k]
      /\ \A j, k \in Rows : j < k => ~Before(order[j], order[k])
  <2>1. order \in SetToSeqs(Rows) /\ \A j, k \in Rows : j < k => ~Before(order[j], order[k])
    BY DEF Listings, Rows
  <2> QED
    BY <1>1, <2>1 DEF SetToSeqs, Rows
<1>3. order \in Injection(Rows, Rows)
  BY <1>2, Zenon DEF Injection, IsInjective
<1>4. order \in Surjection(Rows, Rows)
  BY <1>1, <1>3, FS_Injection
<1>5. \A i \in Rows : \E k \in Rows : order[k] = i
  BY <1>4, Zenon DEF Surjection
<1>6. \A j, k \in Rows : j < k => j # k
  BY DEF KeysTyped, Rows
<1> QED
  BY <1>2, <1>5, <1>6

(* A set of rows as a sequence, sorted by key, highest first.               *)
Descending(q, set) ==
  /\ q \in Seq(set)
  /\ \A i \in set : \E r \in 1..Len(q) : q[r] = i
  /\ \A r, t \in 1..Len(q) : r < t => q[r] # q[t] /\ ~Before(q[r], q[t])

LEMMA ListedSorted ==
  ASSUME KeysTyped, NEW order \in Listings, NEW set \in SUBSET Rows
  PROVE  Descending(Listed(order, set), set)
<1> DEFINE q == Listed(order, set)
<1>1. /\ q \in Seq(set)
      /\ \A i \in set : \E r \in 1..Len(q) : q[r] = i
      /\ \A r, t \in 1..Len(q) :
           r < t => \E k, l \in Rows : k < l /\ q[r] = order[k] /\ q[t] = order[l]
  <2>1. /\ Len(Chain) \in Nat /\ order \in [Rows -> Rows]
        /\ \A i \in Rows : \E k \in Rows : order[k] = i
    BY ListingOrder DEF KeysTyped
  <2> QED
    BY <2>1, ListedRows DEF Rows
<1> HIDE DEF q
<1>2. \A r, t \in 1..Len(q) : r < t => q[r] # q[t] /\ ~Before(q[r], q[t])
  BY <1>1, ListingOrder
<1> QED
  BY <1>1, <1>2 DEF Descending, q

(* How many rows are before the r-th: fewer than r, and at least as many as *)
(* there are in front of it with a higher key.                              *)
LEMMA SortedRank ==
  ASSUME KeysTyped, NEW set \in SUBSET Rows, NEW q, Descending(q, set), NEW r \in 1..Len(q)
  PROVE  /\ Cardinality(Newer(set, q[r])) \in Nat
         /\ Cardinality(Newer(set, q[r])) < r
         /\ \A m \in 0..r - 1 :
              (\A t \in 1..m : Before(q[r], q[t])) => m <= Cardinality(Newer(set, q[r]))
<1> DEFINE new == Newer(set, q[r])
<1>1. Len(q) \in Nat /\ \A t \in 1..Len(q) : q[t] \in set
  BY LenProperties, ElementOfSeq DEF Descending
<1>2. IsFiniteSet(new) /\ Cardinality(new) \in Nat
  <2>1. new \in SUBSET Rows
    BY DEF Newer
  <2>2. IsFiniteSet(Rows)
    BY FS_Interval DEF KeysTyped, Rows
  <2> QED
    BY <2>1, <2>2, FS_Subset, FS_CardinalityType
<1>3. Cardinality(new) <= r - 1
  <2> DEFINE at(i) == CHOOSE t \in 1..Len(q) : q[t] = i
             g == [i \in new |-> at(i)]
  <2>1. \A i \in new : /\ at(i) \in 1..Len(q) /\ q[at(i)] = i
                       /\ Before(q[r], q[at(i)])
    <3>1. \A i \in new : i \in set /\ Before(q[r], i)
      BY DEF Newer
    <3>2. \A i \in new : \E t \in 1..Len(q) : q[t] = i
      BY <3>1 DEF Descending
    <3> QED
      BY <3>1, <3>2
  <2> HIDE DEF at, new
  <2>2. \A i \in new : at(i) \in 1..r - 1
    <3> SUFFICES ASSUME NEW i \in new PROVE at(i) < r
      BY <1>1, <2>1
    <3>1. ~(r < at(i))
      BY <2>1 DEF Descending
    <3>2. r # at(i)
      <4>1. ~Before(q[r], q[r])
        BY <1>1 DEF Before, KeysTyped
      <4> QED
        BY <2>1, <4>1
    <3> QED
      BY <1>1, <2>1, <3>1, <3>2
  <2>3. \A i, j \in new : at(i) = at(j) => i = j
    BY <2>1
  <2>4. g \in Injection(new, 1..r - 1)
    BY <2>2, <2>3, Zenon DEF Injection, IsInjective
  <2>5. IsFiniteSet(1..r - 1) /\ Cardinality(1..r - 1) = r - 1
    <3>1. 1 \in Int /\ r - 1 \in Int /\ (1 > r - 1 => r - 1 = 0)
      BY <1>1
    <3> QED
      BY <3>1, FS_Interval
  <2> QED
    BY <2>4, <2>5, FS_Injection
<1>4. ASSUME NEW m \in 0..r - 1, \A t \in 1..m : Before(q[r], q[t])
      PROVE  m <= Cardinality(new)
  <2> DEFINE g == [t \in 1..m |-> q[t]]
  <2>1. \A t \in 1..m : t \in 1..Len(q) /\ q[t] \in new
    BY <1>1, <1>4 DEF Newer
  <2>2. \A t, u \in 1..m : q[t] = q[u] => t = u
    <3> SUFFICES ASSUME NEW t \in 1..m, NEW u \in 1..m, t # u PROVE q[t] # q[u]
      OBVIOUS
    <3>1. t < u \/ u < t
      OBVIOUS
    <3> QED
      BY <2>1, <3>1 DEF Descending
  <2> HIDE DEF new
  <2>3. g \in Injection(1..m, new)
    BY <2>1, <2>2, Zenon DEF Injection, IsInjective
  <2>4. Cardinality(1..m) = m
    <3>1. 1 \in Int /\ m \in Int /\ (1 > m => m = 0)
      BY <1>1
    <3> QED
      BY <3>1, FS_Interval
  <2> QED
    BY <1>2, <2>3, <2>4, FS_Injection
<1> QED
  BY <1>1, <1>2, <1>3, <1>4

(* And at least r rows of the set are not below it.                         *)
AtLeast(set, i) == {j \in set : ~Before(j, i)}

LEMMA SortedPlace ==
  ASSUME KeysTyped, NEW set \in SUBSET Rows, NEW q, Descending(q, set), NEW r \in 1..Len(q)
  PROVE  /\ IsFiniteSet(AtLeast(set, q[r]))
         /\ r <= Cardinality(AtLeast(set, q[r]))
<1> DEFINE all == AtLeast(set, q[r])
           g   == [t \in 1..r |-> q[t]]
<1>1. Len(q) \in Nat /\ \A t \in 1..Len(q) : q[t] \in set
  BY LenProperties, ElementOfSeq DEF Descending
<1>2. IsFiniteSet(all) /\ Cardinality(all) \in Nat
  <2>1. all \in SUBSET Rows
    BY DEF AtLeast
  <2>2. IsFiniteSet(Rows)
    BY FS_Interval DEF KeysTyped, Rows
  <2> QED
    BY <2>1, <2>2, FS_Subset, FS_CardinalityType
<1>3. \A t \in 1..r : t \in 1..Len(q) /\ q[t] \in all
  <2>1. ~Before(q[r], q[r])
    BY <1>1 DEF Before, KeysTyped
  <2>2. \A t \in 1..r : t \in 1..Len(q) /\ (t < r \/ t = r)
    BY <1>1
  <2>3. \A t \in 1..r : ~Before(q[t], q[r])
    BY <2>1, <2>2 DEF Descending
  <2> QED
    BY <1>1, <2>2, <2>3 DEF AtLeast
<1>4. \A t, u \in 1..r : q[t] = q[u] => t = u
  <2> SUFFICES ASSUME NEW t \in 1..r, NEW u \in 1..r, t # u PROVE q[t] # q[u]
    OBVIOUS
  <2>1. t < u \/ u < t
    OBVIOUS
  <2> QED
    BY <1>3, <2>1 DEF Descending
<1> HIDE DEF all
<1>5. g \in Injection(1..r, all)
  BY <1>3, <1>4, Zenon DEF Injection, IsInjective
<1>6. Cardinality(1..r) = r
  <2>1. 1 \in Int /\ r \in Int /\ (1 > r => r = 0)
    BY <1>1
  <2> QED
    BY <2>1, FS_Interval
<1>7. r <= Cardinality(all)
  BY <1>2, <1>5, <1>6, FS_Injection
<1> QED
  BY <1>2, <1>7 DEF all

Skip(offset) == IF offset < 0 THEN 0 ELSE offset

(* A page is a cut of the sorted selection.                                 *)
LEMMA PageCut ==
  ASSUME KeysTyped, ListLimit \in Nat, DefaultLimit \in Nat \ {0},
         NEW order \in Listings, NEW table \in SUBSET Rows,
         NEW f, NEW first, NEW final, NEW limit \in Int, NEW offset \in Int
  PROVE  LET set  == Matching(table, f, first, final)
             page == Page(order, table, f, first, final, limit, offset)
             n    == Limit(limit)
             skip == Skip(offset)
             q    == Listed(order, set)
             end  == IF skip + n < Len(q) THEN skip + n ELSE Len(q)
         IN  /\ set \in SUBSET Rows /\ Descending(q, set)
             /\ n \in Nat \ {0} /\ skip \in Nat /\ Len(q) \in Nat
             /\ \A t \in 1..Len(q) : q[t] \in set
             /\ page \in Seq(set)
             /\ Len(page) = IF skip < end THEN end - skip ELSE 0
             /\ \A r \in 1..Len(page) : page[r] = q[skip + r] /\ skip + r \in 1..Len(q)
<1> DEFINE set  == Matching(table, f, first, final)
           page == Page(order, table, f, first, final, limit, offset)
           n    == Limit(limit)
           skip == Skip(offset)
           q    == Listed(order, set)
           end  == IF skip + n < Len(q) THEN skip + n ELSE Len(q)
<1>1. set \in SUBSET Rows /\ Descending(q, set)
  BY ListedSorted DEF Matching
<1>2. n \in Nat \ {0} /\ skip \in Nat
  BY DEF Limit, Skip
<1>3. page = SubSeq(q, skip + 1, end)
  BY DEF Page, Matching, Skip
<1> HIDE DEF set, page, n, skip, q
<1>4. Len(q) \in Nat /\ \A t \in 1..Len(q) : q[t] \in set
  BY <1>1, LenProperties, ElementOfSeq DEF Descending
<1>5. /\ page \in Seq(set)
      /\ Len(page) = IF skip < end THEN end - skip ELSE 0
      /\ \A r \in 1..Len(page) : page[r] = q[skip + r] /\ skip + r \in 1..Len(q)
  <2>1. skip + 1 \in Int /\ end \in Int /\ \A t \in skip + 1..end : q[t] \in set
    BY <1>2, <1>4
  <2>2. /\ SubSeq(q, skip + 1, end) \in Seq(set)
        /\ Len(SubSeq(q, skip + 1, end)) =
             IF skip + 1 <= end THEN end - (skip + 1) + 1 ELSE 0
        /\ \A r \in 1..end - (skip + 1) + 1 :
             SubSeq(q, skip + 1, end)[r] = q[skip + 1 + r - 1]
    BY <2>1, SubSeqProperties
  <2>3. /\ page \in Seq(set)
        /\ Len(page) = IF skip + 1 <= end THEN end - (skip + 1) + 1 ELSE 0
        /\ \A r \in 1..end - (skip + 1) + 1 : page[r] = q[skip + 1 + r - 1]
    BY <1>3, <2>2
  <2>4. \A r \in 1..Len(page) :
          /\ r \in 1..end - (skip + 1) + 1
          /\ skip + 1 + r - 1 = skip + r /\ skip + r \in 1..Len(q)
    BY <1>2, <1>4, <2>3
  <2> QED
    BY <1>2, <1>4, <2>3, <2>4
<1> QED
  BY <1>1, <1>2, <1>4, <1>5 DEF set, page, n, skip, q

(* A page has no row twice, and its rows come highest key first.  A row     *)
(* that matches but is not on it was skipped, with fewer than offset rows   *)
(* of a higher key, or comes after a page of limit rows, with all of those  *)
(* and the skipped ones before it, up to rows of its own key.               *)
THEOREM PageSplits ==
  ASSUME KeysTyped, ListLimit \in Nat, DefaultLimit \in Nat \ {0},
         NEW order \in Listings, NEW table \in SUBSET Rows,
         NEW f, NEW first, NEW final, NEW limit \in Int, NEW offset \in Int
  PROVE  LET set  == Matching(table, f, first, final)
             page == Page(order, table, f, first, final, limit, offset)
             n    == Limit(limit)
         IN  /\ page \in Seq(set) /\ Len(page) <= n
             /\ \A r, t \in 1..Len(page) :
                  r < t => page[r] # page[t] /\ ~Before(page[r], page[t])
             /\ \A i \in set :
                  /\ Cardinality(Newer(set, i)) \in Nat
                  /\ \/ \E r \in 1..Len(page) : page[r] = i
                     \/ /\ Cardinality(Newer(set, i)) < Skip(offset)
                        /\ \A r \in 1..Len(page) : ~Before(i, page[r])
                     \/ /\ Len(page) = n
                        /\ \A r \in 1..Len(page) : ~Before(page[r], i)
                        /\ \/ Cardinality(Newer(set, i)) >= Skip(offset) + n
                           \/ \E j \in set \ {i} : ~Before(i, j) /\ ~Before(j, i)
<1> DEFINE set  == Matching(table, f, first, final)
           page == Page(order, table, f, first, final, limit, offset)
           n    == Limit(limit)
           skip == Skip(offset)
           q    == Listed(order, set)
           end  == IF skip + n < Len(q) THEN skip + n ELSE Len(q)
<1>1. set \in SUBSET Rows /\ Descending(q, set)
  BY PageCut
<1>2. n \in Nat \ {0} /\ skip \in Nat
  BY PageCut
<1>3. Len(q) \in Nat /\ \A t \in 1..Len(q) : q[t] \in set
  BY PageCut
<1>4. /\ page \in Seq(set)
      /\ Len(page) = IF skip < end THEN end - skip ELSE 0
      /\ \A r \in 1..Len(page) : page[r] = q[skip + r] /\ skip + r \in 1..Len(q)
  BY PageCut
<1> HIDE DEF set, page, n, skip, q
<1> HIDE DEF end
<1>5. /\ end \in Nat /\ end <= Len(q) /\ end <= skip + n
      /\ (end < Len(q) => end = skip + n)
      /\ Len(page) \in Nat
  BY <1>2, <1>3, <1>4 DEF end
<1>6. Len(page) <= n
  BY <1>2, <1>4, <1>5
<1>7. ASSUME NEW r \in 1..Len(page), NEW t \in 1..Len(page), r < t
      PROVE  page[r] # page[t] /\ ~Before(page[r], page[t])
  <2>1. skip + r < skip + t
    BY <1>2, <1>5, <1>7
  <2>2. /\ page[r] = q[skip + r] /\ skip + r \in 1..Len(q)
        /\ page[t] = q[skip + t] /\ skip + t \in 1..Len(q)
    BY <1>4
  <2>3. q[skip + r] # q[skip + t] /\ ~Before(q[skip + r], q[skip + t])
    BY <1>1, <2>1, <2>2 DEF Descending
  <2> QED
    BY <2>2, <2>3
<1>8. ASSUME NEW i \in set
      PROVE  /\ Cardinality(Newer(set, i)) \in Nat
             /\ \/ \E r \in 1..Len(page) : page[r] = i
                \/ /\ Cardinality(Newer(set, i)) < skip
                   /\ \A r \in 1..Len(page) : ~Before(i, page[r])
                \/ /\ Len(page) = n
                   /\ \A r \in 1..Len(page) : ~Before(page[r], i)
                   /\ \/ Cardinality(Newer(set, i)) >= skip + n
                      \/ \E j \in set \ {i} : ~Before(i, j) /\ ~Before(j, i)
  <2>1. PICK k \in 1..Len(q) : q[k] = i
    BY <1>1 DEF Descending
  <2>2. /\ Cardinality(Newer(set, i)) \in Nat
        /\ Cardinality(Newer(set, i)) < k
        /\ \A m \in 0..k - 1 :
             (\A t \in 1..m : Before(i, q[t])) => m <= Cardinality(Newer(set, i))
    BY <1>1, <2>1, SortedRank
  <2>3. CASE k <= skip
    <3>1. \A r \in 1..Len(page) : k < skip + r
      BY <1>2, <1>3, <2>3
    <3>2. \A r \in 1..Len(page) : ~Before(i, page[r])
      BY <1>1, <1>4, <2>1, <3>1 DEF Descending
    <3>3. Cardinality(Newer(set, i)) < skip
      BY <1>2, <1>3, <2>2, <2>3
    <3> QED
      BY <2>2, <3>2, <3>3
  <2>4. CASE skip < k /\ k <= end
    <3>1. k - skip \in 1..Len(page) /\ skip + (k - skip) = k
      BY <1>2, <1>3, <1>4, <1>5, <2>4
    <3>2. page[k - skip] = i
      BY <1>4, <2>1, <3>1
    <3> QED
      BY <2>2, <3>1, <3>2
  <2>5. CASE skip < k /\ end < k
    <3>1. end = skip + n /\ end < Len(q)
      BY <1>2, <1>3, <1>5, <2>5
    <3>2. Len(page) = n
      BY <1>2, <1>4, <1>5, <3>1
    <3>3. \A t \in 1..end : t \in 1..Len(q) /\ t < k
      BY <1>3, <1>5, <2>5
    <3>4. \A t \in 1..end : ~Before(q[t], i) /\ q[t] # i /\ q[t] \in set
      BY <1>1, <1>3, <2>1, <3>3 DEF Descending
    <3>5. \A r \in 1..Len(page) : ~Before(page[r], i)
      <4>1. \A r \in 1..Len(page) : skip + r \in 1..end
        BY <1>2, <1>5, <3>1, <3>2
      <4> QED
        BY <1>4, <3>4, <4>1
    <3>6. CASE \A t \in 1..end : Before(i, q[t])
      <4>1. end \in 0..k - 1
        BY <1>3, <1>5, <2>5
      <4>2. end <= Cardinality(Newer(set, i))
        BY <2>2, <3>6, <4>1
      <4>3. Cardinality(Newer(set, i)) >= skip + n
        BY <1>2, <2>2, <3>1, <4>2
      <4> QED
        BY <2>2, <3>2, <3>5, <4>3
    <3>7. CASE \E t \in 1..end : ~Before(i, q[t])
      BY <2>2, <3>2, <3>4, <3>5, <3>7
    <3> QED
      BY <3>6, <3>7
  <2> QED
    BY <1>2, <1>3, <1>5, <2>3, <2>4, <2>5
<1> QED
  BY <1>4, <1>6, <1>7, <1>8 DEF set, page, n, skip

(* The r-th row of a page has all the rows skipped, and those before it on  *)
(* the page, not below it, and no other row above it.                       *)
THEOREM PagePlaces ==
  ASSUME KeysTyped, ListLimit \in Nat, DefaultLimit \in Nat \ {0},
         NEW order \in Listings, NEW table \in SUBSET Rows,
         NEW f, NEW first, NEW final, NEW limit \in Int, NEW offset \in Int
  PROVE  LET set  == Matching(table, f, first, final)
             page == Page(order, table, f, first, final, limit, offset)
         IN  \A r \in 1..Len(page) :
               /\ page[r] \in set
               /\ Cardinality(Newer(set, page[r])) \in Nat
               /\ Cardinality(Newer(set, page[r])) < Skip(offset) + r
               /\ IsFiniteSet(AtLeast(set, page[r]))
               /\ Skip(offset) + r <= Cardinality(AtLeast(set, page[r]))
<1> DEFINE set  == Matching(table, f, first, final)
           page == Page(order, table, f, first, final, limit, offset)
           q    == Listed(order, set)
<1>1. /\ set \in SUBSET Rows /\ Descending(q, set)
      /\ \A t \in 1..Len(q) : q[t] \in set
      /\ \A r \in 1..Len(page) :
           page[r] = q[Skip(offset) + r] /\ Skip(offset) + r \in 1..Len(q)
  BY PageCut
<1> HIDE DEF set, page, q
<1> QED
  BY <1>1, SortedRank, SortedPlace DEF set, page
=============================================================================
