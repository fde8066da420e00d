--------------------------- MODULE Pagination_proofs ---------------------------
(***************************************************************************)
(* That the answer is the page, for every table and every page: the heap   *)
(* keeps the smallest rows that were processed, takes them out largest     *)
(* first, and finish() counts as many of them as the page has.             *)
(*                                                                         *)
(* A heap is seen as the set of its rows (RangeOf), which differ by their  *)
(* lines (Distinct), and in which no row is larger than its parent         *)
(* (HeapOrdered): insert() and extract() are what they do to the set.  The *)
(* recursions of SiftUp and SiftDown are functions on positions: one       *)
(* exists, and all of its values are right, because there is no first      *)
(* position where they are not.                                            *)
(***************************************************************************)
EXTENDS Pagination, FiniteSetTheorems, FunctionTheorems, NaturalsInduction,
        WellFoundedInduction, TLAPS

-----------------------------------------------------------------------------
(* Numbers                                                                 *)

\* A set of numbers has a least one.
LEMMA Least ==
    ASSUME NEW T, T \subseteq Nat, T # {}
    PROVE  \E n \in T : \A m \in T : n <= m
<1>1. \E n \in T : \A m \in T : ~(<<m, n>> \in OpToRel(<, Nat))
    BY NatLessThanWellFounded, WFMin
<1>2. PICK n \in T : \A m \in T : ~(m < n)
    BY <1>1 DEF OpToRel
<1>3. \A m \in T : m \in Nat /\ n \in Nat
    OBVIOUS
<1> QED BY <1>2, <1>3

LEMMA ParentIs ==
    ASSUME NEW k \in Nat, k >= 2
    PROVE  /\ Parent(k) \in 1 .. k - 1
           /\ k = 2 * Parent(k) \/ k = 2 * Parent(k) + 1
BY DEF Parent

LEMMA ParentsOrdered ==
    ASSUME NEW j \in Nat, NEW k \in Nat, 2 <= j, j <= k
    PROVE  Parent(j) <= Parent(k)
BY DEF Parent

-----------------------------------------------------------------------------
(* Heaps                                                                   *)

\* Rows that can be compared.
Comparable(R) == \A r \in R : Key(r) \in Int

\* No row of a heap is larger than its parent, from one position on.
OrderedFrom(h, first) ==
    \A k \in 2 .. Len(h) : Parent(k) >= first => Key(h[k]) <= Key(h[Parent(k)])
HeapOrdered(h) == OrderedFrom(h, 1)

RangeOf(h) == {h[k] : k \in 1 .. Len(h)}
Distinct(h) == \A j, k \in 1 .. Len(h) : h[j] = h[k] => j = k

\* The row on top is the largest: there is no first one that is larger.
LEMMA TopLargest ==
    ASSUME NEW R, Comparable(R), NEW h \in Seq(R), HeapOrdered(h), NEW k \in 1 .. Len(h)
    PROVE  Key(h[k]) <= Key(h[1])
<1> DEFINE Larger == {n \in 1 .. Len(h) : Key(h[n]) > Key(h[1])}
<1>1. \A n \in 1 .. Len(h) : Key(h[n]) \in Int
    BY DEF Comparable
<1>2. 1 \in 1 .. Len(h)
    OBVIOUS
<1>3. SUFFICES ASSUME ~(Key(h[k]) <= Key(h[1])) PROVE FALSE
    OBVIOUS
<1>4. Larger \subseteq Nat /\ k \in Larger
    BY <1>1, <1>2, <1>3
<1>5. PICK n \in Larger : \A m \in Larger : n <= m
    BY <1>4, Least
<1>6. n \in 2 .. Len(h)
    BY <1>1, <1>2, <1>5
<1>7. Parent(n) \in 1 .. n - 1
    BY <1>6, ParentIs
<1>8. Key(h[n]) <= Key(h[Parent(n)])
    BY <1>6, <1>7 DEF HeapOrdered, OrderedFrom
<1>9. Parent(n) \in Larger
    BY <1>1, <1>2, <1>5, <1>6, <1>7, <1>8
<1> QED BY <1>5, <1>6, <1>7, <1>9

\* A row that has the range of a sequence without repetitions, and its length, has
\* none either.
LEMMA SameRangeDistinct ==
    ASSUME NEW h, NEW g, NEW n \in Nat, Len(h) = n, Len(g) = n, Distinct(h), RangeOf(g) = RangeOf(h)
    PROVE  Distinct(g)
<1> DEFINE S == 1 .. n
           T == RangeOf(h)
           f == [k \in S |-> h[k]]
           e == [k \in S |-> g[k]]
<1>1. IsFiniteSet(S) /\ Cardinality(S) = n
    BY FS_Interval
<1>2. f \in Surjection(S, T) /\ f \in Injection(S, T)
    BY DEF Surjection, Injection, IsInjective, RangeOf, Distinct
<1>3. IsFiniteSet(T) /\ Cardinality(T) = Cardinality(S)
    BY <1>1, <1>2, FS_Surjection
<1>4. e \in Surjection(S, T)
    BY DEF Surjection, RangeOf
<1>5. e \in Injection(S, T)
    BY <1>1, <1>3, <1>4, FS_Surjection
<1> QED BY <1>5 DEF Injection, IsInjective, Distinct
-----------------------------------------------------------------------------
(* insert(): sifting up                                                    *)

UpEnds(h, row, hole) == hole = 1 \/ ~Greater(row, h[Parent(hole)])

\* The recursion of SiftUp.
SiftsUp(h, row, from) ==
    from = [hole \in 1 .. Len(h) |->
                IF hole = 1 \/ ~Greater(row, h[Parent(hole)])
                THEN [h EXCEPT ![hole] = row]
                ELSE [from[Parent(hole)] EXCEPT ![hole] = h[Parent(hole)]]]

\* It has a solution: there is no first position without one.
LEMMA SiftsUpExists ==
    ASSUME NEW R, NEW h \in Seq(R), NEW row \in R
    PROVE  \E from : SiftsUp(h, row, from)
<1> DEFINE V == [1 .. Len(h) -> R]
           Step(from, hole) ==
                from[hole] = IF UpEnds(h, row, hole) THEN [h EXCEPT ![hole] = row]
                             ELSE [from[Parent(hole)] EXCEPT ![hole] = h[Parent(hole)]]
           Solved(m) == \E from \in [1 .. m -> V] : \A hole \in 1 .. m : Step(from, hole)
           Open == {m \in 0 .. Len(h) : ~Solved(m)}
<1>1. h \in V /\ Len(h) \in Nat
    OBVIOUS
<1>2. Solved(0)
    <2> DEFINE from == [k \in 1 .. 0 |-> h]
    <2>1. from \in [1 .. 0 -> V] /\ 1 .. 0 = {}
        BY <1>1
    <2> HIDE DEF from, V, Step
    <2> QED BY <2>1
<1>3. ASSUME NEW m \in 1 .. Len(h), Solved(m - 1)
      PROVE  Solved(m)
    <2>1. PICK f \in [1 .. m - 1 -> V] : \A hole \in 1 .. m - 1 : Step(f, hole)
        BY <1>3
    <2> DEFINE last == IF UpEnds(h, row, m) THEN [h EXCEPT ![m] = row]
                       ELSE [f[Parent(m)] EXCEPT ![m] = h[Parent(m)]]
               from == [k \in 1 .. m |-> IF k < m THEN f[k] ELSE last]
    <2>2. ~UpEnds(h, row, m) => Parent(m) \in 1 .. m - 1
        BY ParentIs DEF UpEnds
    <2>3. last \in V
        <3>1. CASE UpEnds(h, row, m)
            BY <1>1, <3>1
        <3>2. CASE ~UpEnds(h, row, m)
            <4>1. f[Parent(m)] \in V /\ h[Parent(m)] \in R
                BY <1>1, <2>2, <3>2
            <4> QED BY <3>2, <4>1
        <3> QED BY <3>1, <3>2
    <2> HIDE DEF last
    <2>4. from \in [1 .. m -> V] /\ from[m] = last /\ \A k \in 1 .. m - 1 : from[k] = f[k]
        BY <2>3
    <2> HIDE DEF from
    <2>5. Step(from, m)
        BY <2>2, <2>4 DEF last
    <2>6. ASSUME NEW hole \in 1 .. m - 1 PROVE Step(from, hole)
        <3>1. ~UpEnds(h, row, hole) => Parent(hole) \in 1 .. m - 1
            BY ParentIs DEF UpEnds
        <3>2. Step(f, hole)
            BY <2>1
        <3> QED BY <2>4, <3>1, <3>2
    <2>7. \A hole \in 1 .. m : hole = m \/ hole \in 1 .. m - 1
        OBVIOUS
    <2> HIDE DEF Step, V
    <2> QED BY <2>4, <2>5, <2>6, <2>7
<1>4. Solved(Len(h))
    <2> HIDE DEF Solved
    <2>1. SUFFICES ASSUME ~Solved(Len(h)) PROVE FALSE
        OBVIOUS
    <2>2. Open \subseteq Nat /\ Len(h) \in Open
        BY <1>1, <2>1
    <2>3. PICK m \in Open : \A n \in Open : m <= n
        BY <2>2, Least
    <2>4. m \in 1 .. Len(h) /\ m - 1 \in 0 .. Len(h) /\ ~(m <= m - 1) /\ ~Solved(m)
        <3>1. m # 0
            BY <1>2, <2>3
        <3> QED BY <1>1, <2>2, <3>1
    <2>5. Solved(m - 1)
        BY <2>3, <2>4
    <2> QED BY <1>3, <2>4, <2>5
<1>5. PICK from \in [1 .. Len(h) -> V] : \A hole \in 1 .. Len(h) : Step(from, hole)
    BY <1>4
<1> HIDE DEF V
<1> QED BY <1>5 DEF SiftsUp, UpEnds

\* What is a heap but for its last row.
AlmostOrdered(h) == \A k \in 2 .. Len(h) - 1 : Key(h[k]) <= Key(h[Parent(k)])

\* What comes of a hole in a heap, where larger rows are only put in front of it.
RoseTo(R, h, row, hole, r) ==
    /\ r \in [1 .. Len(h) -> R]
    /\ \A k \in hole + 1 .. Len(h) : r[k] = h[k]
    /\ \A k \in 1 .. Len(h) - 1 : Key(h[k]) <= Key(r[k])
    /\ \A k \in 2 .. hole : Key(r[k]) <= Key(r[Parent(k)])
    /\ {r[k] : k \in 1 .. hole} = {h[k] : k \in 1 .. hole - 1} \cup {row}

\* Where the row fits, it is put.
LEMMA RoseEnds ==
    ASSUME NEW R, Comparable(R), NEW h \in Seq(R), NEW row \in R, AlmostOrdered(h),
           NEW hole \in 1 .. Len(h), UpEnds(h, row, hole),
           hole = Len(h) \/ Key(h[hole]) <= Key(row)
    PROVE  RoseTo(R, h, row, hole, [h EXCEPT ![hole] = row])
<1> DEFINE r == [h EXCEPT ![hole] = row]
<1>1. Key(row) \in Int /\ Len(h) \in Nat /\ \A k \in 1 .. Len(h) : h[k] \in R /\ Key(h[k]) \in Int
    BY DEF Comparable
<1>2. r \in [1 .. Len(h) -> R] /\ r[hole] = row /\ \A k \in 1 .. Len(h) : k # hole => r[k] = h[k]
    OBVIOUS
<1> HIDE DEF r
<1>3. \A k \in hole + 1 .. Len(h) : r[k] = h[k]
    BY <1>2
<1>4. \A k \in 1 .. Len(h) - 1 : Key(h[k]) <= Key(r[k])
    BY <1>1, <1>2
<1>5. ASSUME NEW k \in 2 .. hole PROVE Key(r[k]) <= Key(r[Parent(k)])
    <2>1. Parent(k) \in 1 .. k - 1
        BY ParentIs
    <2>2. r[Parent(k)] = h[Parent(k)]
        BY <1>2, <2>1
    <2>3. CASE k = hole
        <3>1. ~Greater(row, h[Parent(hole)]) /\ Key(h[Parent(hole)]) \in Int
            BY <1>1, <2>1, <2>3 DEF UpEnds
        <3> QED BY <1>1, <1>2, <2>2, <2>3, <3>1 DEF Greater
    <2>4. CASE k # hole
        BY <1>2, <2>2, <2>4 DEF AlmostOrdered
    <2> QED BY <2>3, <2>4
<1>6. {r[k] : k \in 1 .. hole} = {h[k] : k \in 1 .. hole - 1} \cup {row}
    <2>1. 1 .. hole = (1 .. hole - 1) \cup {hole} /\ \A k \in 1 .. hole - 1 : r[k] = h[k]
        BY <1>2
    <2> QED BY <1>2, <2>1
<1> QED BY <1>2, <1>3, <1>4, <1>5, <1>6 DEF RoseTo, r

\* Otherwise the parent moves down.
LEMMA RoseMoves ==
    ASSUME NEW R, Comparable(R), NEW h \in Seq(R), NEW row \in R, AlmostOrdered(h),
           NEW hole \in 2 .. Len(h), NEW p, RoseTo(R, h, row, Parent(hole), p),
           hole = Len(h) \/ Key(h[hole]) <= Key(row)
    PROVE  RoseTo(R, h, row, hole, [p EXCEPT ![hole] = h[Parent(hole)]])
<1> DEFINE up == Parent(hole)
           r == [p EXCEPT ![hole] = h[up]]
<1>1. Len(h) \in Nat /\ \A k \in 1 .. Len(h) : h[k] \in R /\ Key(h[k]) \in Int
    BY DEF Comparable
<1>2. up \in 1 .. hole - 1
    BY ParentIs
<1>3. /\ p \in [1 .. Len(h) -> R]
      /\ \A k \in up + 1 .. Len(h) : p[k] = h[k]
      /\ \A k \in 1 .. Len(h) - 1 : Key(h[k]) <= Key(p[k])
      /\ \A k \in 2 .. up : Key(p[k]) <= Key(p[Parent(k)])
      /\ {p[k] : k \in 1 .. up} = {h[k] : k \in 1 .. up - 1} \cup {row}
    BY DEF RoseTo
<1> HIDE DEF up
<1>4. r \in [1 .. Len(h) -> R] /\ r[hole] = h[up] /\ \A k \in 1 .. Len(h) : k # hole => r[k] = p[k]
    BY <1>1, <1>2, <1>3
<1> HIDE DEF r
<1>5. ASSUME NEW k \in hole + 1 .. Len(h) PROVE r[k] = h[k]
    <2>1. k \in up + 1 .. Len(h) /\ k \in 1 .. Len(h) /\ k # hole
        BY <1>1, <1>2
    <2> QED BY <1>3, <1>4, <2>1
<1>6. \A k \in 1 .. Len(h) : Key(r[k]) \in Int /\ Key(p[k]) \in Int
    BY <1>3, <1>4 DEF Comparable
<1>7. ASSUME NEW k \in 1 .. Len(h) - 1 PROVE Key(h[k]) <= Key(r[k])
    <2>1. CASE k = hole
        <3>1. Key(h[hole]) <= Key(h[Parent(hole)])
            BY <2>1 DEF AlmostOrdered
        <3> QED BY <1>4, <2>1, <3>1 DEF up
    <2>2. CASE k # hole
        BY <1>3, <1>4, <2>2
    <2> QED BY <2>1, <2>2
<1>8. ASSUME NEW k \in 2 .. hole PROVE Key(r[k]) <= Key(r[Parent(k)])
    <2>1. Parent(k) \in 1 .. k - 1 /\ Parent(k) # hole /\ Parent(k) \in 1 .. Len(h) - 1
        BY <1>1, ParentIs
    <2>2. r[Parent(k)] = p[Parent(k)] /\ Key(h[Parent(k)]) <= Key(p[Parent(k)])
        BY <1>3, <1>4, <2>1
    <2>3. CASE k <= up
        BY <1>2, <1>3, <1>4, <2>2, <2>3
    <2>4. CASE up < k /\ k < hole
        <3>0. k \in up + 1 .. Len(h) /\ k \in 1 .. Len(h) - 1 /\ k # hole
            BY <1>1, <1>2, <2>4
        <3>1. r[k] = h[k]
            BY <1>3, <1>4, <3>0
        <3>2. Key(h[k]) <= Key(h[Parent(k)])
            BY <2>4 DEF AlmostOrdered
        <3>3. Key(h[k]) \in Int
            BY <1>1, <3>0
        <3>4. Parent(k) \in 1 .. Len(h)
            BY <1>1, <2>1
        <3>5. Key(h[Parent(k)]) \in Int
            BY <1>1, <3>4
        <3>6. Key(p[Parent(k)]) \in Int
            BY <1>6, <3>4
        <3> QED BY <2>2, <3>1, <3>2, <3>3, <3>5, <3>6
    <2>5. CASE k = hole
        <3>1. Parent(k) = up
            BY <2>5 DEF up
        <3> QED BY <1>4, <2>2, <2>5, <3>1
    <2> QED BY <1>2, <2>3, <2>4, <2>5
<1>9. {r[k] : k \in 1 .. hole} = {h[k] : k \in 1 .. hole - 1} \cup {row}
    <2>1. /\ 1 .. hole = (1 .. up) \cup (up + 1 .. hole - 1) \cup {hole}
          /\ 1 .. hole - 1 = (1 .. up - 1) \cup {up} \cup (up + 1 .. hole - 1)
        BY <1>2
    <2>2. /\ \A k \in 1 .. up : r[k] = p[k]
          /\ \A k \in up + 1 .. hole - 1 : r[k] = h[k]
        BY <1>2, <1>3, <1>4
    <2>3. {r[k] : k \in 1 .. hole} =
            {p[k] : k \in 1 .. up} \cup {h[k] : k \in up + 1 .. hole - 1} \cup {h[up]}
        <3>1. {r[k] : k \in 1 .. hole} =
                {r[k] : k \in 1 .. up} \cup {r[k] : k \in up + 1 .. hole - 1} \cup {r[hole]}
            BY <2>1
        <3>2. /\ {r[k] : k \in 1 .. up} = {p[k] : k \in 1 .. up}
              /\ {r[k] : k \in up + 1 .. hole - 1} = {h[k] : k \in up + 1 .. hole - 1}
            BY <2>2
        <3> QED BY <1>4, <3>1, <3>2
    <2>4. {h[k] : k \in 1 .. hole - 1} =
            {h[k] : k \in 1 .. up - 1} \cup {h[up]} \cup {h[k] : k \in up + 1 .. hole - 1}
        BY <2>1
    <2> QED BY <1>3, <2>3, <2>4
<1> QED BY <1>4, <1>5, <1>7, <1>8, <1>9 DEF RoseTo, r, up

\* A row that is appended to a heap and sifted up makes a heap with that row more.
LEMMA SiftUpHeap ==
    ASSUME NEW R, Comparable(R), NEW h \in Seq(R), NEW row \in R, Len(h) >= 1, AlmostOrdered(h)
    PROVE  /\ SiftUp(h, row) \in Seq(R)
           /\ Len(SiftUp(h, row)) = Len(h)
           /\ HeapOrdered(SiftUp(h, row))
           /\ RangeOf(SiftUp(h, row)) = {h[k] : k \in 1 .. Len(h) - 1} \cup {row}
<1> DEFINE from == CHOOSE f : SiftsUp(h, row, f)
           Fits(hole) == hole = Len(h) \/ Key(h[hole]) <= Key(row)
           Rises(hole) == Fits(hole) => RoseTo(R, h, row, hole, from[hole])
           Wrong == {n \in 1 .. Len(h) : ~Rises(n)}
<1>1. SiftsUp(h, row, from)
    BY SiftsUpExists
<1>2. SiftUp(h, row) = from[Len(h)]
    BY DEF SiftUp, SiftsUp
<1> HIDE DEF from
<1>3. \A hole \in 1 .. Len(h) :
            from[hole] = IF UpEnds(h, row, hole) THEN [h EXCEPT ![hole] = row]
                         ELSE [from[Parent(hole)] EXCEPT ![hole] = h[Parent(hole)]]
    BY <1>1 DEF SiftsUp, UpEnds
<1>4. Len(h) \in Nat /\ Key(row) \in Int /\ \A k \in 1 .. Len(h) : Key(h[k]) \in Int
    BY DEF Comparable
<1>5. ASSUME NEW hole \in 1 .. Len(h), Fits(hole), ~UpEnds(h, row, hole) => Rises(Parent(hole))
      PROVE  RoseTo(R, h, row, hole, from[hole])
    <2>1. CASE UpEnds(h, row, hole)
        <3>1. from[hole] = [h EXCEPT ![hole] = row]
            BY <1>3, <2>1
        <3>2. hole = Len(h) \/ Key(h[hole]) <= Key(row)
            BY <1>5
        <3>3. RoseTo(R, h, row, hole, [h EXCEPT ![hole] = row])
            BY <2>1, <3>2, RoseEnds
        <3> QED BY <3>1, <3>3
    <2>2. CASE ~UpEnds(h, row, hole)
        <3>1. hole \in 2 .. Len(h) /\ Greater(row, h[Parent(hole)])
            BY <2>2 DEF UpEnds
        <3>2. Parent(hole) \in 1 .. Len(h)
            BY <1>4, <3>1, ParentIs
        <3>3. Fits(Parent(hole))
            BY <1>4, <3>1, <3>2 DEF Greater
        <3>4. RoseTo(R, h, row, Parent(hole), from[Parent(hole)])
            BY <1>5, <2>2, <3>3
        <3>5. from[hole] = [from[Parent(hole)] EXCEPT ![hole] = h[Parent(hole)]]
            BY <1>3, <2>2
        <3> QED BY <1>5, <3>1, <3>4, <3>5, RoseMoves
    <2> QED BY <2>1, <2>2
<1>6. Rises(Len(h))
    <2>1. SUFFICES ASSUME ~Rises(Len(h)) PROVE FALSE
        OBVIOUS
    <2> HIDE DEF Rises
    <2>2. Wrong \subseteq Nat /\ Len(h) \in Wrong
        BY <1>4, <2>1
    <2>3. PICK n \in Wrong : \A m \in Wrong : n <= m
        BY <2>2, Least
    <2>4. n \in 1 .. Len(h) /\ ~Rises(n)
        BY <2>3
    <2>5. ~UpEnds(h, row, n) => Rises(Parent(n))
        <3> SUFFICES ASSUME ~UpEnds(h, row, n), ~Rises(Parent(n)) PROVE FALSE
            OBVIOUS
        <3>1. Parent(n) \in 1 .. n - 1
            BY <2>4, ParentIs DEF UpEnds
        <3>2. Parent(n) \in Wrong /\ ~(n <= Parent(n))
            BY <2>4, <3>1
        <3> QED BY <2>3, <3>2
    <2> QED BY <1>5, <2>4, <2>5 DEF Rises
<1>7. RoseTo(R, h, row, Len(h), SiftUp(h, row))
    BY <1>2, <1>4, <1>6
<1> DEFINE r == SiftUp(h, row)
<1> HIDE DEF r
<1>8. /\ r \in [1 .. Len(h) -> R]
      /\ \A k \in 2 .. Len(h) : Key(r[k]) <= Key(r[Parent(k)])
      /\ {r[k] : k \in 1 .. Len(h)} = {h[k] : k \in 1 .. Len(h) - 1} \cup {row}
    BY <1>7 DEF RoseTo, r
<1>9. r \in Seq(R) /\ Len(r) = Len(h)
    BY <1>4, <1>8
<1> QED BY <1>8, <1>9 DEF HeapOrdered, OrderedFrom, RangeOf, r
-----------------------------------------------------------------------------
(* extract(): sifting down                                                 *)

DownEnds(h, row, hole) == 2 * hole > Len(h) \/ ~Greater(h[LargerChild(h, hole)], row)

\* The recursion of SiftDown.
SiftsDown(h, row, from) ==
    from = [hole \in 1 .. Len(h) |->
                IF 2 * hole > Len(h) \/ ~Greater(h[LargerChild(h, hole)], row)
                THEN [h EXCEPT ![hole] = row]
                ELSE [from[LargerChild(h, hole)] EXCEPT ![hole] = h[LargerChild(h, hole)]]]

\* The child that may move up is one of the two, and the larger one.
LEMMA LargerChildIs ==
    ASSUME NEW R, Comparable(R), NEW h \in Seq(R), NEW hole \in 1 .. Len(h), 2 * hole <= Len(h)
    PROVE  /\ LargerChild(h, hole) \in hole + 1 .. Len(h)
           /\ Parent(LargerChild(h, hole)) = hole
           /\ \A k \in 2 .. Len(h) : Parent(k) = hole => Key(h[k]) <= Key(h[LargerChild(h, hole)])
<1>1. Len(h) \in Nat /\ \A k \in 1 .. Len(h) : Key(h[k]) \in Int
    BY DEF Comparable
<1>2. /\ LargerChild(h, hole) \in {2 * hole, 2 * hole + 1}
      /\ LargerChild(h, hole) \in hole + 1 .. Len(h)
    BY <1>1 DEF LargerChild
<1>3. Parent(2 * hole) = hole /\ Parent(2 * hole + 1) = hole
    BY DEF Parent
<1>4. ASSUME NEW k \in 2 .. Len(h), Parent(k) = hole
      PROVE  Key(h[k]) <= Key(h[LargerChild(h, hole)])
    <2>1. k = 2 * hole \/ k = 2 * hole + 1
        <3>1. k \in Nat /\ k >= 2
            BY <1>1
        <3> QED BY <1>4, <3>1, ParentIs
    <2> QED BY <1>1, <2>1 DEF LargerChild, Greater
<1> QED BY <1>2, <1>3, <1>4

\* It has a solution: there is no last position without one.
LEMMA SiftsDownExists ==
    ASSUME NEW R, Comparable(R), NEW h \in Seq(R), NEW row \in R
    PROVE  \E from : SiftsDown(h, row, from)
<1> DEFINE V == [1 .. Len(h) -> R]
           child(hole) == LargerChild(h, hole)
           Step(from, hole) ==
                from[hole] = IF DownEnds(h, row, hole) THEN [h EXCEPT ![hole] = row]
                             ELSE [from[child(hole)] EXCEPT ![hole] = h[child(hole)]]
           Solved(m) == \E from \in [Len(h) - m + 1 .. Len(h) -> V] :
                            \A hole \in Len(h) - m + 1 .. Len(h) : Step(from, hole)
           Open == {m \in 0 .. Len(h) : ~Solved(m)}
<1>1. h \in V /\ Len(h) \in Nat
    OBVIOUS
<1>2. Solved(0)
    <2> DEFINE from == [k \in Len(h) - 0 + 1 .. Len(h) |-> h]
    <2>1. from \in [Len(h) - 0 + 1 .. Len(h) -> V] /\ Len(h) - 0 + 1 .. Len(h) = {}
        BY <1>1
    <2> HIDE DEF from, V, Step
    <2> QED BY <2>1
<1>a. \A hole \in 1 .. Len(h) : ~DownEnds(h, row, hole) => child(hole) \in hole + 1 .. Len(h)
    BY <1>1, LargerChildIs DEF DownEnds
<1> HIDE DEF child
<1>3. ASSUME NEW m \in 1 .. Len(h), Solved(m - 1)
      PROVE  Solved(m)
    <2> DEFINE n == Len(h) - m + 1
    <2>0. n \in 1 .. Len(h) /\ Len(h) - (m - 1) + 1 = n + 1
        BY <1>1
    <2>1. PICK f \in [n + 1 .. Len(h) -> V] : \A hole \in n + 1 .. Len(h) : Step(f, hole)
        BY <1>3, <2>0
    <2> HIDE DEF n
    <2> DEFINE last == IF DownEnds(h, row, n) THEN [h EXCEPT ![n] = row]
                       ELSE [f[child(n)] EXCEPT ![n] = h[child(n)]]
               from == [k \in n .. Len(h) |-> IF k > n THEN f[k] ELSE last]
    <2>3. last \in V
        <3>1. CASE DownEnds(h, row, n)
            BY <1>1, <3>1
        <3>2. CASE ~DownEnds(h, row, n)
            <4>1. f[child(n)] \in V /\ h[child(n)] \in R
                BY <1>1, <1>a, <2>0, <3>2
            <4> QED BY <3>2, <4>1
        <3> QED BY <3>1, <3>2
    <2> HIDE DEF last
    <2>4. /\ from \in [n .. Len(h) -> V] /\ from[n] = last
          /\ \A k \in n + 1 .. Len(h) : from[k] = f[k]
        BY <2>0, <2>3
    <2> HIDE DEF from
    <2>5. Step(from, n)
        BY <1>a, <2>0, <2>4 DEF last
    <2>6. ASSUME NEW hole \in n + 1 .. Len(h) PROVE Step(from, hole)
        <3>1. ~DownEnds(h, row, hole) => child(hole) \in n + 1 .. Len(h)
            BY <1>a, <2>0
        <3>2. Step(f, hole)
            BY <2>1
        <3> QED BY <2>4, <3>1, <3>2
    <2>7. \A hole \in n .. Len(h) : hole = n \/ hole \in n + 1 .. Len(h)
        BY <2>0
    <2> HIDE DEF Step, V
    <2> QED BY <2>4, <2>5, <2>6, <2>7 DEF n
<1>4. Solved(Len(h))
    <2> HIDE DEF Solved
    <2>1. SUFFICES ASSUME ~Solved(Len(h)) PROVE FALSE
        OBVIOUS
    <2>2. Open \subseteq Nat /\ Len(h) \in Open
        BY <1>1, <2>1
    <2>3. PICK m \in Open : \A n \in Open : m <= n
        BY <2>2, Least
    <2>4. m \in 1 .. Len(h) /\ m - 1 \in 0 .. Len(h) /\ ~(m <= m - 1) /\ ~Solved(m)
        <3>1. m # 0
            BY <1>2, <2>3
        <3> QED BY <1>1, <2>2, <3>1
    <2>5. Solved(m - 1)
        BY <2>3, <2>4
    <2> QED BY <1>3, <2>4, <2>5
<1>5. PICK from \in [1 .. Len(h) -> V] : \A hole \in 1 .. Len(h) : Step(from, hole)
    <2>1. Len(h) - Len(h) + 1 = 1
        BY <1>1
    <2> QED BY <1>4, <2>1
<1> HIDE DEF V
<1> QED BY <1>5 DEF SiftsDown, DownEnds, child

\* What comes of a hole in a heap, where smaller rows are only put behind it.
SankFrom(R, h, row, hole, r) ==
    /\ r \in [1 .. Len(h) -> R]
    /\ \A k \in 1 .. hole - 1 : r[k] = h[k]
    /\ \A k \in 1 .. Len(h) : Key(r[k]) <= Key(h[k])
    /\ \A k \in 2 .. Len(h) : Parent(k) >= hole => Key(r[k]) <= Key(r[Parent(k)])
    /\ {r[k] : k \in hole .. Len(h)} = {h[k] : k \in hole + 1 .. Len(h)} \cup {row}

LEMMA SankEnds ==
    ASSUME NEW R, Comparable(R), NEW h \in Seq(R), NEW row \in R, HeapOrdered(h),
           NEW hole \in 1 .. Len(h), DownEnds(h, row, hole), Key(row) <= Key(h[hole])
    PROVE  SankFrom(R, h, row, hole, [h EXCEPT ![hole] = row])
<1> DEFINE r == [h EXCEPT ![hole] = row]
<1>1. Key(row) \in Int /\ Len(h) \in Nat /\ \A k \in 1 .. Len(h) : h[k] \in R /\ Key(h[k]) \in Int
    BY DEF Comparable
<1>2. r \in [1 .. Len(h) -> R] /\ r[hole] = row /\ \A k \in 1 .. Len(h) : k # hole => r[k] = h[k]
    OBVIOUS
<1> HIDE DEF r
<1>3. \A k \in 1 .. hole - 1 : r[k] = h[k]
    BY <1>2
<1>4. \A k \in 1 .. Len(h) : Key(r[k]) <= Key(h[k])
    BY <1>1, <1>2
<1>5. ASSUME NEW k \in 2 .. Len(h), Parent(k) >= hole
      PROVE  Key(r[k]) <= Key(r[Parent(k)])
    <2>1. Parent(k) \in 1 .. k - 1 /\ (k = 2 * Parent(k) \/ k = 2 * Parent(k) + 1)
        BY ParentIs
    <2>2. k # hole /\ r[k] = h[k]
        BY <1>2, <1>5, <2>1
    <2>3. CASE Parent(k) = hole
        <3>1. 2 * hole <= Len(h)
            BY <1>1, <2>1, <2>3
        <3>2. ~Greater(h[LargerChild(h, hole)], row)
            BY <3>1 DEF DownEnds
        <3>3. LargerChild(h, hole) \in 1 .. Len(h) /\ Key(h[k]) <= Key(h[LargerChild(h, hole)])
            BY <1>1, <2>3, <3>1, LargerChildIs
        <3> QED BY <1>1, <1>2, <2>2, <2>3, <3>2, <3>3 DEF Greater
    <2>4. CASE Parent(k) # hole
        <3>1. Key(h[k]) <= Key(h[Parent(k)])
            BY <2>1 DEF HeapOrdered, OrderedFrom
        <3>2. Parent(k) \in 1 .. Len(h)
            BY <1>1, <2>1
        <3> QED BY <1>2, <2>2, <2>4, <3>1, <3>2
    <2> QED BY <2>3, <2>4
<1>6. {r[k] : k \in hole .. Len(h)} = {h[k] : k \in hole + 1 .. Len(h)} \cup {row}
    <2>1. hole .. Len(h) = {hole} \cup (hole + 1 .. Len(h)) /\ \A k \in hole + 1 .. Len(h) : r[k] = h[k]
        BY <1>1, <1>2
    <2>2. {r[k] : k \in hole .. Len(h)} = {r[hole]} \cup {r[k] : k \in hole + 1 .. Len(h)}
        BY <2>1
    <2>3. {r[k] : k \in hole + 1 .. Len(h)} = {h[k] : k \in hole + 1 .. Len(h)}
        BY <2>1
    <2> QED BY <1>2, <2>2, <2>3
<1> QED BY <1>2, <1>3, <1>4, <1>5, <1>6 DEF SankFrom, r

LEMMA SankMoves ==
    ASSUME NEW R, Comparable(R), NEW h \in Seq(R), NEW row \in R, HeapOrdered(h),
           NEW hole \in 1 .. Len(h), 2 * hole <= Len(h), NEW p,
           SankFrom(R, h, row, LargerChild(h, hole), p)
    PROVE  SankFrom(R, h, row, hole, [p EXCEPT ![hole] = h[LargerChild(h, hole)]])
<1> DEFINE down == LargerChild(h, hole)
           r == [p EXCEPT ![hole] = h[down]]
<1>1. Len(h) \in Nat /\ \A k \in 1 .. Len(h) : h[k] \in R /\ Key(h[k]) \in Int
    BY DEF Comparable
<1>2. /\ down \in hole + 1 .. Len(h) /\ Parent(down) = hole
      /\ \A k \in 2 .. Len(h) : Parent(k) = hole => Key(h[k]) <= Key(h[down])
    BY LargerChildIs
<1>3. /\ p \in [1 .. Len(h) -> R]
      /\ \A k \in 1 .. down - 1 : p[k] = h[k]
      /\ \A k \in 1 .. Len(h) : Key(p[k]) <= Key(h[k])
      /\ \A k \in 2 .. Len(h) : Parent(k) >= down => Key(p[k]) <= Key(p[Parent(k)])
      /\ {p[k] : k \in down .. Len(h)} = {h[k] : k \in down + 1 .. Len(h)} \cup {row}
    BY DEF SankFrom
<1> HIDE DEF down
<1>4. r \in [1 .. Len(h) -> R] /\ r[hole] = h[down] /\ \A k \in 1 .. Len(h) : k # hole => r[k] = p[k]
    BY <1>1, <1>2, <1>3
<1> HIDE DEF r
<1>5. \A k \in 1 .. hole - 1 : r[k] = h[k]
    <2>1. \A k \in 1 .. hole - 1 : k \in 1 .. Len(h) /\ k # hole /\ k \in 1 .. down - 1
        BY <1>1, <1>2
    <2> QED BY <1>3, <1>4, <2>1
<1>6. \A k \in 1 .. Len(h) : Key(r[k]) \in Int /\ Key(p[k]) \in Int
    BY <1>3, <1>4 DEF Comparable
<1>7. ASSUME NEW k \in 1 .. Len(h) PROVE Key(r[k]) <= Key(h[k])
    <2>1. CASE k = hole
        <3>1. down \in 2 .. Len(h) /\ Key(h[down]) <= Key(h[Parent(down)])
            BY <1>2 DEF HeapOrdered, OrderedFrom
        <3> QED BY <1>2, <1>4, <2>1, <3>1
    <2>2. CASE k # hole
        BY <1>3, <1>4, <2>2
    <2> QED BY <2>1, <2>2
<1>8. ASSUME NEW k \in 2 .. Len(h), Parent(k) >= hole
      PROVE  Key(r[k]) <= Key(r[Parent(k)])
    <2>1. Parent(k) \in 1 .. k - 1 /\ Parent(k) \in 1 .. Len(h)
        BY <1>1, ParentIs
    <2>2. k # hole /\ r[k] = p[k] /\ Key(r[k]) <= Key(h[k])
        BY <1>4, <1>7, <1>8, <2>1
    <2>3. CASE Parent(k) >= down
        <3>1. r[Parent(k)] = p[Parent(k)]
            BY <1>2, <1>4, <2>1, <2>3
        <3> QED BY <1>3, <2>2, <2>3, <3>1
    <2>4. CASE hole < Parent(k) /\ Parent(k) < down
        <3>1. r[Parent(k)] = h[Parent(k)]
            <4>1. Parent(k) # hole /\ Parent(k) \in 1 .. down - 1
                BY <1>2, <2>1, <2>4
            <4> QED BY <1>3, <1>4, <2>1, <4>1
        <3>2. Key(h[k]) <= Key(h[Parent(k)])
            BY <2>1 DEF HeapOrdered, OrderedFrom
        <3>3. PICK m : m = Parent(k)
            OBVIOUS
        <3>4. Key(h[k]) \in Int /\ Key(r[k]) \in Int /\ Key(h[m]) \in Int
            <4>1. m \in 1 .. Len(h) /\ k \in 1 .. Len(h)
                BY <1>1, <2>1, <3>3
            <4> QED BY <1>1, <1>6, <4>1
        <3> QED BY <2>2, <3>1, <3>2, <3>3, <3>4
    <2>5. CASE Parent(k) = hole
        <3>1. r[Parent(k)] = h[down] /\ Key(h[k]) <= Key(h[down])
            BY <1>2, <1>4, <2>5
        <3>2. Key(h[k]) \in Int /\ Key(r[k]) \in Int /\ Key(h[down]) \in Int
            BY <1>1, <1>2, <1>6
        <3> QED BY <2>2, <3>1, <3>2
    <2> QED BY <1>2, <1>8, <2>1, <2>3, <2>4, <2>5
<1>9. {r[k] : k \in hole .. Len(h)} = {h[k] : k \in hole + 1 .. Len(h)} \cup {row}
    <2>1. /\ hole .. Len(h) = {hole} \cup (hole + 1 .. down - 1) \cup (down .. Len(h))
          /\ hole + 1 .. Len(h) = (hole + 1 .. down - 1) \cup {down} \cup (down + 1 .. Len(h))
        BY <1>1, <1>2
    <2>2. /\ \A k \in hole + 1 .. down - 1 : r[k] = h[k]
          /\ \A k \in down .. Len(h) : r[k] = p[k]
        BY <1>2, <1>3, <1>4
    <2>3. {r[k] : k \in hole .. Len(h)} =
            {r[hole]} \cup {r[k] : k \in hole + 1 .. down - 1} \cup {r[k] : k \in down .. Len(h)}
        BY <2>1
    <2>4. /\ {r[k] : k \in hole + 1 .. down - 1} = {h[k] : k \in hole + 1 .. down - 1}
          /\ {r[k] : k \in down .. Len(h)} = {p[k] : k \in down .. Len(h)}
        BY <2>2
    <2>5. {h[k] : k \in hole + 1 .. Len(h)} =
            {h[k] : k \in hole + 1 .. down - 1} \cup {h[down]} \cup {h[k] : k \in down + 1 .. Len(h)}
        BY <2>1
    <2> QED BY <1>3, <1>4, <2>3, <2>4, <2>5
<1> QED BY <1>4, <1>5, <1>7, <1>8, <1>9 DEF SankFrom, r, down

\* A heap stays one when a row that is not larger than its top takes the place of it.
LEMMA SiftDownHeap ==
    ASSUME NEW R, Comparable(R), NEW h \in Seq(R), NEW row \in R, Len(h) >= 1, HeapOrdered(h),
           Key(row) <= Key(h[1])
    PROVE  /\ SiftDown(h, row) \in Seq(R)
           /\ Len(SiftDown(h, row)) = Len(h)
           /\ HeapOrdered(SiftDown(h, row))
           /\ RangeOf(SiftDown(h, row)) = {h[k] : k \in 2 .. Len(h)} \cup {row}
<1> DEFINE from == CHOOSE f : SiftsDown(h, row, f)
           child(hole) == LargerChild(h, hole)
           Sinks(hole) == Key(row) <= Key(h[hole]) => SankFrom(R, h, row, hole, from[hole])
           Wrong == {n \in 0 .. Len(h) - 1 : ~Sinks(Len(h) - n)}
<1>1. SiftsDown(h, row, from)
    BY SiftsDownExists
<1>2. SiftDown(h, row) = from[1]
    BY DEF SiftDown, SiftsDown
<1> HIDE DEF from
<1>3. \A hole \in 1 .. Len(h) :
            from[hole] = IF DownEnds(h, row, hole) THEN [h EXCEPT ![hole] = row]
                         ELSE [from[child(hole)] EXCEPT ![hole] = h[child(hole)]]
    BY <1>1 DEF SiftsDown, DownEnds
<1>4. Len(h) \in Nat /\ Key(row) \in Int /\ \A k \in 1 .. Len(h) : Key(h[k]) \in Int
    BY DEF Comparable
<1>5. ASSUME NEW hole \in 1 .. Len(h), Key(row) <= Key(h[hole]),
             ~DownEnds(h, row, hole) => Sinks(child(hole))
      PROVE  SankFrom(R, h, row, hole, from[hole])
    <2>1. CASE DownEnds(h, row, hole)
        <3>1. from[hole] = [h EXCEPT ![hole] = row]
            BY <1>3, <2>1
        <3>2. SankFrom(R, h, row, hole, [h EXCEPT ![hole] = row])
            BY <1>5, <2>1, SankEnds
        <3> QED BY <3>1, <3>2
    <2>2. CASE ~DownEnds(h, row, hole)
        <3>1. 2 * hole <= Len(h) /\ Greater(h[child(hole)], row)
            BY <1>4, <2>2 DEF DownEnds
        <3>2. child(hole) \in 1 .. Len(h)
            BY <1>4, <3>1, LargerChildIs
        <3>3. Key(row) <= Key(h[child(hole)])
            BY <1>4, <3>1, <3>2 DEF Greater
        <3>4. SankFrom(R, h, row, child(hole), from[child(hole)])
            BY <1>5, <2>2, <3>3
        <3>5. from[hole] = [from[child(hole)] EXCEPT ![hole] = h[child(hole)]]
            BY <1>3, <2>2
        <3> QED BY <3>1, <3>4, <3>5, SankMoves
    <2> QED BY <2>1, <2>2
<1>6. Sinks(1)
    <2>0. Len(h) - (Len(h) - 1) = 1
        BY <1>4
    <2>1. SUFFICES ASSUME ~Sinks(1) PROVE FALSE
        OBVIOUS
    <2> HIDE DEF Sinks
    <2>2. Wrong \subseteq Nat /\ Len(h) - 1 \in Wrong
        BY <1>4, <2>0, <2>1
    <2>3. PICK n \in Wrong : \A m \in Wrong : n <= m
        BY <2>2, Least
    <2> DEFINE hole == Len(h) - n
    <2>4. n \in Nat /\ hole \in 1 .. Len(h) /\ ~Sinks(hole)
        BY <1>4, <2>3
    <2>5. ~DownEnds(h, row, hole) => Sinks(child(hole))
        <3> SUFFICES ASSUME ~DownEnds(h, row, hole), ~Sinks(child(hole)) PROVE FALSE
            OBVIOUS
        <3> DEFINE m == Len(h) - child(hole)
        <3>1. child(hole) \in hole + 1 .. Len(h)
            BY <1>4, <2>4, LargerChildIs DEF DownEnds
        <3> HIDE DEF child
        <3>2. m \in 0 .. Len(h) - 1 /\ Len(h) - m = child(hole) /\ ~(n <= m)
            BY <1>4, <2>4, <3>1
        <3>3. m \in Wrong
            BY <3>2
        <3> QED BY <2>3, <3>2, <3>3
    <2> QED BY <1>5, <2>4, <2>5 DEF Sinks
<1>7. SankFrom(R, h, row, 1, SiftDown(h, row))
    BY <1>2, <1>6
<1> DEFINE r == SiftDown(h, row)
<1> HIDE DEF r
<1>8. /\ r \in [1 .. Len(h) -> R]
      /\ \A k \in 2 .. Len(h) : Parent(k) >= 1 => Key(r[k]) <= Key(r[Parent(k)])
      /\ {r[k] : k \in 1 .. Len(h)} = {h[k] : k \in 2 .. Len(h)} \cup {row}
    BY <1>7 DEF SankFrom, r
<1>9. r \in Seq(R) /\ Len(r) = Len(h)
    BY <1>4, <1>8
<1> QED BY <1>8, <1>9 DEF HeapOrdered, OrderedFrom, RangeOf, r
-----------------------------------------------------------------------------
(* Heaps of different rows                                                 *)

IsHeap(R, h) == h \in Seq(R) /\ HeapOrdered(h) /\ Distinct(h)

LEMMA EmptyHeap == \A R : IsHeap(R, <<>>) /\ RangeOf(<<>>) = {}
BY DEF IsHeap, HeapOrdered, OrderedFrom, Distinct, RangeOf

\* A sequence, with a row at its end.
LEMMA Appended ==
    ASSUME NEW R, NEW h \in Seq(R), NEW row \in R
    PROVE  /\ Append(h, row) \in Seq(R)
           /\ Len(Append(h, row)) = Len(h) + 1
           /\ Append(h, row)[Len(h) + 1] = row
           /\ \A k \in 1 .. Len(h) : Append(h, row)[k] = h[k]
           /\ {Append(h, row)[k] : k \in 1 .. Len(h)} = RangeOf(h)
           /\ RangeOf(Append(h, row)) = RangeOf(h) \cup {row}
<1>1. PICK a : a = Append(h, row)
    OBVIOUS
<1>2. /\ a \in Seq(R) /\ Len(a) = Len(h) + 1 /\ a[Len(h) + 1] = row
      /\ \A k \in 1 .. Len(h) : a[k] = h[k]
    BY <1>1
<1>3. {a[k] : k \in 1 .. Len(h)} = RangeOf(h)
    BY <1>2 DEF RangeOf
<1>4. Len(h) \in Nat /\ 1 .. Len(h) + 1 = (1 .. Len(h)) \cup {Len(h) + 1}
    OBVIOUS
<1>5. RangeOf(a) = {a[k] : k \in 1 .. Len(h)} \cup {row}
    BY <1>2, <1>4 DEF RangeOf
<1> QED BY <1>1, <1>2, <1>3, <1>5

LEMMA AppendedDistinct ==
    ASSUME NEW R, NEW h \in Seq(R), NEW row \in R, Distinct(h), row \notin RangeOf(h)
    PROVE  Distinct(Append(h, row))
<1>1. PICK a : a = Append(h, row)
    OBVIOUS
<1>2. PICK n \in Nat : n = Len(h)
    OBVIOUS
<1>3. Len(a) = n + 1 /\ a[n + 1] = row /\ \A k \in 1 .. n : a[k] = h[k]
    BY <1>1, <1>2
<1>4. 1 .. n + 1 = (1 .. n) \cup {n + 1}
    OBVIOUS
<1>5. \A k \in 1 .. n : a[k] # row
    BY <1>2, <1>3 DEF RangeOf
<1>6. \A j, k \in 1 .. n : a[j] = a[k] => j = k
    BY <1>2, <1>3 DEF Distinct
<1>7. Distinct(a)
    BY <1>3, <1>4, <1>5, <1>6 DEF Distinct
<1> QED BY <1>1, <1>7

\* A sequence without its last row.
LEMMA Shortened ==
    ASSUME NEW R, NEW h \in Seq(R), Len(h) >= 1
    PROVE  /\ SubSeq(h, 1, Len(h) - 1) \in Seq(R)
           /\ Len(SubSeq(h, 1, Len(h) - 1)) = Len(h) - 1
           /\ \A k \in 1 .. Len(h) - 1 : SubSeq(h, 1, Len(h) - 1)[k] = h[k]
<1>1. Len(h) \in Nat /\ Len(h) - 1 \in Nat
    OBVIOUS
<1>2. PICK m \in Nat : m = Len(h) - 1
    BY <1>1
<1>3. \A k \in 1 .. m : h[k] \in R
    BY <1>2
<1>4. SubSeq(h, 1, m) = [k \in 1 .. m |-> h[k]]
    BY <1>2
<1>5. PICK r : r = [k \in 1 .. m |-> h[k]]
    OBVIOUS
<1>6. r \in [1 .. m -> R]
    BY <1>3, <1>5
<1>7. r \in Seq(R) /\ Len(r) = m /\ \A k \in 1 .. m : r[k] = h[k]
    BY <1>2, <1>5, <1>6
<1> QED BY <1>2, <1>4, <1>5, <1>7

\* A sequence without its first row.
LEMMA TailOf ==
    ASSUME NEW R, NEW h \in Seq(R), Len(h) >= 1, Distinct(h)
    PROVE  \E t : /\ Len(t) = Len(h) - 1 /\ Distinct(t)
                  /\ RangeOf(t) = {h[k] : k \in 2 .. Len(h)}
<1>1. PICK t : t = Tail(h)
    OBVIOUS
<1>2. Len(h) \in Nat /\ Len(t) = Len(h) - 1 /\ \A k \in 1 .. Len(h) - 1 : t[k] = h[k + 1]
    BY <1>1
<1>3. \A j, k \in 1 .. Len(h) - 1 : h[j + 1] = h[k + 1] => j + 1 = k + 1
    BY <1>2 DEF Distinct
<1>4. Distinct(t)
    BY <1>2, <1>3 DEF Distinct
<1>5. \A k \in 2 .. Len(h) : k - 1 \in 1 .. Len(h) - 1 /\ t[k - 1] = h[k]
    BY <1>2
<1>6. \A k \in 1 .. Len(h) - 1 : k + 1 \in 2 .. Len(h) /\ t[k] = h[k + 1]
    BY <1>2
<1>7. RangeOf(t) \subseteq {h[k] : k \in 2 .. Len(h)}
    BY <1>2, <1>6 DEF RangeOf
<1>8. {h[k] : k \in 2 .. Len(h)} \subseteq RangeOf(t)
    BY <1>2, <1>5 DEF RangeOf
<1> QED BY <1>2, <1>4, <1>7, <1>8

\* The heap that insert() makes before it looks at the limit.
Grown(h, row) == SiftUp(Append(h, row), row)

LEMMA GrownHeap ==
    ASSUME NEW R, Comparable(R), NEW h, IsHeap(R, h), NEW row \in R, row \notin RangeOf(h)
    PROVE  /\ IsHeap(R, Grown(h, row))
           /\ Len(Grown(h, row)) = Len(h) + 1
           /\ RangeOf(Grown(h, row)) = RangeOf(h) \cup {row}
<1>1. h \in Seq(R) /\ HeapOrdered(h) /\ Distinct(h)
    BY DEF IsHeap
<1>2. PICK a : a = Append(h, row)
    OBVIOUS
<1>3. PICK n \in Nat : n = Len(h)
    BY <1>1
<1>4. /\ a \in Seq(R) /\ Len(a) = n + 1 /\ a[n + 1] = row
      /\ \A k \in 1 .. n : a[k] = h[k]
      /\ {a[k] : k \in 1 .. n} = RangeOf(h)
      /\ RangeOf(a) = RangeOf(h) \cup {row}
    BY <1>1, <1>2, <1>3, Appended
<1>5. AlmostOrdered(a)
    <2>1. Len(a) - 1 = n
        BY <1>4
    <2>2. ASSUME NEW k \in 2 .. n PROVE Key(a[k]) <= Key(a[Parent(k)])
        <3>1. Parent(k) \in 1 .. n /\ Parent(k) >= 1 /\ k \in 1 .. n
            BY ParentIs
        <3>2. Key(h[k]) <= Key(h[Parent(k)])
            BY <1>1, <1>3, <3>1 DEF HeapOrdered, OrderedFrom
        <3> QED BY <1>4, <3>1, <3>2
    <2> QED BY <2>1, <2>2 DEF AlmostOrdered
<1>6. PICK g : g = Grown(h, row)
    OBVIOUS
<1>7. g \in Seq(R) /\ Len(g) = n + 1 /\ HeapOrdered(g) /\ RangeOf(g) = RangeOf(h) \cup {row}
    <2>1. g = SiftUp(a, row)
        BY <1>2, <1>6 DEF Grown
    <2>2. Len(a) >= 1 /\ Len(a) - 1 = n
        BY <1>4
    <2>3. {a[k] : k \in 1 .. Len(a) - 1} = RangeOf(h)
        BY <1>4, <2>2
    <2>4. /\ g \in Seq(R) /\ Len(g) = Len(a) /\ HeapOrdered(g)
          /\ RangeOf(g) = {a[k] : k \in 1 .. Len(a) - 1} \cup {row}
        <3>1. a \in Seq(R) /\ Len(a) >= 1 /\ AlmostOrdered(a)
            BY <1>4, <1>5, <2>2
        <3>2. /\ SiftUp(a, row) \in Seq(R) /\ Len(SiftUp(a, row)) = Len(a)
              /\ HeapOrdered(SiftUp(a, row))
              /\ RangeOf(SiftUp(a, row)) = {a[k] : k \in 1 .. Len(a) - 1} \cup {row}
            BY ONLY Comparable(R), row \in R, <3>1, SiftUpHeap
        <3> QED BY <2>1, <3>2
    <2> QED BY <1>4, <2>3, <2>4
<1>8. Distinct(a)
    BY <1>1, <1>2, AppendedDistinct
<1>9. Distinct(g)
    <2>1. n + 1 \in Nat /\ RangeOf(g) = RangeOf(a)
        BY <1>4, <1>7
    <2> QED BY <1>4, <1>7, <1>8, <2>1, SameRangeDistinct
<1> QED BY <1>3, <1>6, <1>7, <1>9 DEF IsHeap

LEMMA ExtractHeap ==
    ASSUME NEW R, Comparable(R), NEW h, IsHeap(R, h), Len(h) >= 1
    PROVE  /\ IsHeap(R, Extract(h))
           /\ Len(Extract(h)) = Len(h) - 1
           /\ RangeOf(Extract(h)) = RangeOf(h) \ {h[1]}
<1>1. h \in Seq(R) /\ HeapOrdered(h) /\ Distinct(h)
    BY DEF IsHeap
<1>2. PICK n \in Nat : n = Len(h) /\ n >= 1
    BY <1>1
<1>3. PICK rest : rest = SubSeq(h, 1, Len(h) - 1)
    OBVIOUS
<1>4. /\ rest \in Seq(R) /\ Len(rest) = n - 1 /\ \A k \in 1 .. n - 1 : rest[k] = h[k]
    BY <1>1, <1>2, <1>3, Shortened
<1>5. PICK e : e = Extract(h)
    OBVIOUS
<1>6. e = IF rest = <<>> THEN <<>> ELSE SiftDown(rest, h[n])
    BY <1>2, <1>3, <1>5 DEF Extract
<1>7. RangeOf(h) \ {h[1]} = {h[k] : k \in 2 .. n}
    <2>1. 1 .. n = {1} \cup (2 .. n) /\ \A k \in 2 .. n : k \in 1 .. n /\ k # 1
        BY <1>2
    <2>2. \A k \in 2 .. n : h[k] # h[1]
        BY <1>1, <1>2, <2>1 DEF Distinct
    <2> QED BY <1>2, <2>1, <2>2 DEF RangeOf
<1>8. CASE n = 1
    <2>1. rest = <<>> /\ e = <<>>
        BY <1>4, <1>6, <1>8
    <2>2. {h[k] : k \in 2 .. n} = {} /\ Len(<<>>) = n - 1
        BY <1>8
    <2> QED BY <1>2, <1>5, <1>7, <2>1, <2>2, EmptyHeap
<1>9. CASE n >= 2
    <2>1. e = SiftDown(rest, h[n])
        BY <1>4, <1>6, <1>9
    <2>2. HeapOrdered(rest)
        <3>1. ASSUME NEW k \in 2 .. n - 1 PROVE Key(rest[k]) <= Key(rest[Parent(k)])
            <4>1. Parent(k) \in 1 .. n - 1 /\ Parent(k) >= 1 /\ k \in 1 .. n - 1 /\ k \in 2 .. n
                BY ParentIs
            <4>2. Key(h[k]) <= Key(h[Parent(k)])
                BY <1>1, <1>2, <4>1 DEF HeapOrdered, OrderedFrom
            <4> QED BY <1>4, <4>1, <4>2
        <3> QED BY <1>4, <3>1 DEF HeapOrdered, OrderedFrom
    <2>3. h[n] \in R /\ Key(h[n]) <= Key(rest[1])
        <3>1. n \in 1 .. Len(h) /\ rest[1] = h[1]
            BY <1>2, <1>4, <1>9
        <3>2. Key(h[n]) <= Key(h[1])
            BY <1>1, <3>1, TopLargest
        <3> QED BY <1>1, <3>1, <3>2
    <2>4. e \in Seq(R) /\ Len(e) = n - 1 /\ HeapOrdered(e) /\ RangeOf(e) = {rest[k] : k \in 2 .. n - 1} \cup {h[n]}
        <3>1. Len(rest) >= 1
            BY <1>4, <1>9
        <3> QED BY <1>4, <2>1, <2>2, <2>3, <3>1, SiftDownHeap
    <2>5. RangeOf(e) = {h[k] : k \in 2 .. n}
        <3>1. 2 .. n = (2 .. n - 1) \cup {n} /\ \A k \in 2 .. n - 1 : rest[k] = h[k]
            BY <1>4, <1>9
        <3>2. {rest[k] : k \in 2 .. n - 1} = {h[k] : k \in 2 .. n - 1}
            BY <3>1
        <3> QED BY <2>4, <3>1, <3>2
    <2>6. Distinct(e)
        <3>1. PICK t : /\ Len(t) = n - 1 /\ Distinct(t)
                       /\ RangeOf(t) = {h[k] : k \in 2 .. n}
            BY <1>1, <1>2, TailOf
        <3>2. n - 1 \in Nat
            BY <1>2
        <3> QED BY <2>4, <2>5, <3>1, <3>2, SameRangeDistinct
    <2> QED BY <1>2, <1>5, <1>7, <2>4, <2>5, <2>6 DEF IsHeap
<1> QED BY <1>2, <1>8, <1>9
\* insert() adds a row, and drops a largest one if that is one too many.
LEMMA InsertHeap ==
    ASSUME NEW R, Comparable(R), NEW h, IsHeap(R, h), NEW row \in R, row \notin RangeOf(h),
           NEW most \in Int
    PROVE  /\ IsHeap(R, Insert(h, row, most))
           /\ IF most > 0 /\ Len(h) + 1 > most
              THEN /\ Len(Insert(h, row, most)) = Len(h)
                   /\ \E last \in RangeOf(h) \cup {row} :
                        /\ RangeOf(Insert(h, row, most)) = (RangeOf(h) \cup {row}) \ {last}
                        /\ \A x \in RangeOf(h) \cup {row} : Key(x) <= Key(last)
              ELSE /\ Len(Insert(h, row, most)) = Len(h) + 1
                   /\ RangeOf(Insert(h, row, most)) = RangeOf(h) \cup {row}
<1>1. PICK g : g = Grown(h, row)
    OBVIOUS
<1>2. IsHeap(R, g) /\ Len(g) = Len(h) + 1 /\ RangeOf(g) = RangeOf(h) \cup {row}
    BY <1>1, GrownHeap
<1>3. Insert(h, row, most) = IF most > 0 /\ Len(g) > most THEN Extract(g) ELSE g
    BY <1>1 DEF Insert, Grown
<1>4. CASE most > 0 /\ Len(h) + 1 > most
    <2>1. Insert(h, row, most) = Extract(g)
        BY <1>2, <1>3, <1>4
    <2>2. Len(h) \in Nat /\ Len(g) >= 1
        BY <1>2, <1>4 DEF IsHeap
    <2>3. IsHeap(R, Extract(g)) /\ Len(Extract(g)) = Len(g) - 1 /\ RangeOf(Extract(g)) = RangeOf(g) \ {g[1]}
        BY <1>2, <2>2, ExtractHeap
    <2>4. g[1] \in RangeOf(g)
        BY <2>2 DEF RangeOf
    <2>5. \A x \in RangeOf(g) : Key(x) <= Key(g[1])
        BY <1>2, TopLargest DEF RangeOf, IsHeap
    <2>6. Len(Extract(g)) = Len(h)
        BY <1>2, <2>2, <2>3
    <2> QED BY <1>2, <1>4, <2>1, <2>3, <2>4, <2>5, <2>6
<1>5. CASE ~(most > 0 /\ Len(h) + 1 > most)
    BY <1>2, <1>3, <1>5
<1> QED BY <1>4, <1>5
-----------------------------------------------------------------------------
(* What holds of every query                                               *)

Seen(n) == {table[k] : k \in 1 .. n}

Tabled == table \in Seq(RowType) /\ \A k \in 1 .. Len(table) : table[k].line = k

Queried ==
    /\ [limit |-> limit, offset |-> offset] \in Pages
    /\ sorted \in BOOLEAN /\ wrapped \in BOOLEAN

\* The heap is one, of rows that were processed, and never over its limit.
Held ==
    /\ IsHeap(RowType, heap) /\ RangeOf(heap) \subseteq Seen(current_line)
    /\ Sum > 0 => Len(heap) <= Sum
    /\ ~sorted => heap = <<>> /\ outbuf = <<>>

\* Whoever is done has processed the table, or may stop behind the page.
Counted ==
    pc \in {"extract", "print"} \/ (pc = "done" /\ (sorted \/ wrapped))
        => current_line = Len(table)

Base ==
    /\ Tabled /\ Queried /\ Held /\ Counted
    /\ current_line \in 0 .. Len(table) /\ numelems \in Int
    /\ outbuf \in Seq(RowType) /\ printed \in Seq(RowType)
    /\ pc \in {"process", "extract", "print", "done", "failed"}

-----------------------------------------------------------------------------
(* What holds of a query whose _limit + _offset is what it says            *)

PagesMeant ==
    \A page \in Pages :
        (page.limit >= 0 \/ page.offset = 0) /\ page.limit + page.offset < IntSpan \div 2

\* No row left out of the heap is smaller than one in it.
Smallest(t, h, n) ==
    \A k \in 1 .. n : t[k] \notin RangeOf(h) => \A x \in RangeOf(h) : Key(x) <= Key(t[k])

\* SortedPlace, of a table.
PlaceIn(t, row, n) ==
    /\ Cardinality({k \in DOMAIN t : Greater(row, t[k])}) <= n - 1
    /\ Cardinality({k \in DOMAIN t : Greater(t[k], row)}) <= Len(t) - n

\* While rows are collected.
Collected ==
    sorted /\ pc = "process" =>
        /\ Smallest(table, heap, current_line) /\ outbuf = <<>> /\ printed = <<>>
        /\ IF Sum > 0 /\ current_line > Sum THEN Len(heap) = Sum
           ELSE Len(heap) = current_line /\ RangeOf(heap) = Seen(current_line)

\* While they are taken from the heap: those of the page, the last ones first.
Extracted ==
    sorted /\ pc = "extract" =>
        /\ Smallest(table, heap, Len(table)) /\ printed = <<>>
        /\ Distinct(outbuf) /\ RangeOf(outbuf) \cap RangeOf(heap) = {}
        /\ Len(outbuf) <= PageSize
        /\ numelems = IF limit < 0 THEN -1 - Len(outbuf) ELSE PageSize - Len(outbuf)
        /\ limit < 0 \/ PageSize > 0 => Len(heap) + Len(outbuf) = PageStart + PageSize

\* While they are printed.
Printing ==
    sorted /\ pc \in {"print", "done"} =>
        /\ Len(outbuf) + Len(printed) = PageSize /\ (pc = "done" => outbuf = <<>>)
        /\ Distinct(outbuf) /\ Distinct(printed) /\ RangeOf(outbuf) \cap RangeOf(printed) = {}
        /\ \A k \in 1 .. Len(printed) : PlaceIn(table, printed[k], PageStart + k)

\* Every row to be printed has its place.
Placed ==
    /\ RangeOf(outbuf) \cup RangeOf(printed) \subseteq RangeOf(table)
    /\ sorted => \A k \in 1 .. Len(outbuf) : PlaceIn(table, outbuf[k], PageStart + PageSize - k + 1)

\* Without a sort the rows are printed at once.
Reached == IF limit >= 0 /\ current_line > Sum THEN Sum ELSE current_line
Plain ==
    ~sorted =>
        /\ pc \in {"process", "done", "failed"}
        /\ Len(printed) = IF Reached > offset THEN Reached - offset ELSE 0
        /\ \A k \in 1 .. Len(printed) : printed[k] = table[offset + k]
        /\ pc = "done" => current_line = Len(table) \/ (limit >= 0 /\ current_line > Sum)

PageInv == Collected /\ Extracted /\ Printing /\ Placed /\ Plain
IInv == Base /\ PageInv
-----------------------------------------------------------------------------
(* Places in the sorted result                                             *)

\* A sequence without repetitions has as many rows as its length, and as many lines
\* when its rows are the table's.
LEMMA LinesOf ==
    ASSUME Tabled, NEW h \in Seq(RowType), Distinct(h), RangeOf(h) \subseteq RangeOf(table)
    PROVE  /\ IsFiniteSet(Lines(h)) /\ Cardinality(Lines(h)) = Len(h)
           /\ Lines(h) \subseteq 1 .. Len(table)
           /\ \A k \in 1 .. Len(table) : k \in Lines(h) <=> table[k] \in RangeOf(h)
<1>1. PICK n \in Nat : n = Len(h)
    OBVIOUS
<1>2. PICK f : f = [k \in 1 .. n |-> h[k].line]
    OBVIOUS
<1>3. \A k \in 1 .. n : h[k].line \in 1 .. Len(table) /\ h[k] = table[h[k].line]
    BY <1>1 DEF Tabled, RangeOf
<1>4. Lines(h) = {h[k].line : k \in 1 .. n}
    <2>1. DOMAIN h = 1 .. n
        BY <1>1
    <2> QED BY <2>1 DEF Lines
<1>5. f \in Surjection(1 .. n, Lines(h))
    BY <1>2, <1>4 DEF Surjection
<1>6. f \in Injection(1 .. n, Lines(h))
    <2>1. \A j, k \in 1 .. n : h[j].line = h[k].line => j = k
        BY <1>1, <1>3 DEF Distinct
    <2> QED BY <1>2, <1>5, <2>1 DEF Injection, IsInjective, Surjection
<1>7. IsFiniteSet(1 .. n) /\ Cardinality(1 .. n) = n
    BY FS_Interval
<1>8. IsFiniteSet(Lines(h)) /\ Cardinality(Lines(h)) = n
    BY <1>5, <1>6, <1>7, FS_Surjection
<1>9. ASSUME NEW k \in 1 .. Len(table) PROVE k \in Lines(h) <=> table[k] \in RangeOf(h)
    <2>1. table[k].line = k
        BY DEF Tabled
    <2> QED BY <1>1, <1>3, <1>4, <2>1 DEF RangeOf
<1> QED BY <1>1, <1>3, <1>4, <1>8, <1>9

\* Of the rows that are left in a heap, when none outside it is smaller, the one on
\* top has the last place.
LEMMA TopPlace ==
    ASSUME Tabled, Comparable(RowType), NEW h, IsHeap(RowType, h), Len(h) >= 1,
           RangeOf(h) \subseteq RangeOf(table), Smallest(table, h, Len(table))
    PROVE  PlaceIn(table, h[1], Len(h))
<1>1. h \in Seq(RowType) /\ HeapOrdered(h) /\ Distinct(h)
    BY DEF IsHeap
<1>2. PICK n \in Nat : n = Len(table)
    BY DEF Tabled
<1>3. PICK x : x = h[1]
    OBVIOUS
<1>4. x \in RangeOf(h) /\ x \in RowType /\ \A r \in RangeOf(h) : Key(r) <= Key(x)
    BY <1>1, <1>3, TopLargest DEF RangeOf
<1>5. /\ IsFiniteSet(Lines(h)) /\ Cardinality(Lines(h)) = Len(h) /\ Lines(h) \subseteq 1 .. n
      /\ \A k \in 1 .. n : k \in Lines(h) <=> table[k] \in RangeOf(h)
    BY <1>1, <1>2, LinesOf
<1>6. DOMAIN table = 1 .. n /\ \A k \in 1 .. n : table[k] \in RowType /\ table[k].line = k
    BY <1>2 DEF Tabled
<1>7. IsFiniteSet(1 .. n) /\ Cardinality(1 .. n) = n
    BY FS_Interval
<1>8. Key(x) \in Int /\ \A k \in 1 .. n : Key(table[k]) \in Int
    BY <1>4, <1>6 DEF Comparable
<1>9. x.line \in Lines(h) /\ table[x.line] = x
    <2>1. PICK k \in 1 .. n : x = table[k]
        BY <1>2, <1>4 DEF RangeOf
    <2> QED BY <1>4, <1>5, <1>6, <2>1
<1>10. Cardinality({k \in DOMAIN table : Greater(x, table[k])}) <= Len(h) - 1
    <2>1. PICK S : S = {k \in 1 .. n : Greater(x, table[k])}
        OBVIOUS
    <2>2. S \subseteq Lines(h) \ {x.line}
        <3>1. ASSUME NEW k \in 1 .. n, Greater(x, table[k]) PROVE k \in Lines(h) /\ k # x.line
            <4>1. ~(Key(x) <= Key(table[k]))
                BY <1>8, <3>1 DEF Greater
            <4>2. table[k] \in RangeOf(h)
                BY <1>2, <1>4, <4>1 DEF Smallest
            <4>3. k # x.line
                BY <1>8, <1>9, <4>1
            <4> QED BY <1>5, <4>2, <4>3
        <3> QED BY <2>1, <3>1
    <2>3. IsFiniteSet(Lines(h) \ {x.line}) /\ Cardinality(Lines(h) \ {x.line}) = Len(h) - 1
        BY <1>5, <1>9, FS_RemoveElement
    <2>4. Cardinality(S) <= Len(h) - 1
        BY <2>2, <2>3, FS_Subset
    <2> QED BY <1>6, <2>1, <2>4
<1>11. Cardinality({k \in DOMAIN table : Greater(table[k], x)}) <= Len(table) - Len(h)
    <2>1. PICK S : S = {k \in 1 .. n : Greater(table[k], x)}
        OBVIOUS
    <2>2. S \subseteq (1 .. n) \ Lines(h)
        <3>1. ASSUME NEW k \in 1 .. n, Greater(table[k], x) PROVE k \notin Lines(h)
            <4>1. ~(Key(table[k]) <= Key(x))
                BY <1>8, <3>1 DEF Greater
            <4> QED BY <1>4, <1>5, <4>1
        <3> QED BY <2>1, <3>1
    <2>3. (1 .. n) \cap Lines(h) = Lines(h)
        BY <1>5
    <2>4. /\ IsFiniteSet((1 .. n) \ Lines(h))
          /\ Cardinality((1 .. n) \ Lines(h)) = Cardinality(1 .. n) - Cardinality((1 .. n) \cap Lines(h))
        BY <1>7, FS_Difference
    <2>5. Cardinality((1 .. n) \ Lines(h)) = n - Len(h)
        BY <1>5, <1>7, <2>3, <2>4
    <2>6. Cardinality(S) <= n - Len(h)
        BY <2>2, <2>4, <2>5, FS_Subset
    <2> QED BY <1>2, <1>6, <2>1, <2>6
<1> QED BY <1>3, <1>10, <1>11 DEF PlaceIn
-----------------------------------------------------------------------------
(* Every query                                                             *)

LEMMA RowsComparable == Comparable(RowType)
BY PaginationAssumption DEF Comparable, RowType, Key

LEMMA QueryNumbers ==
    ASSUME Queried
    PROVE  limit \in Nat \cup {-1} /\ offset \in Nat /\ Sum \in Int
<1>1. PICK page \in [limit : Nat \cup {-1}, offset : Nat] : page = [limit |-> limit, offset |-> offset]
    BY PaginationAssumption DEF Queried
<1>2. page.limit = limit /\ page.offset = offset
    BY <1>1
<1>3. limit \in Nat \cup {-1} /\ offset \in Nat
    BY <1>1, <1>2
<1>4. IntSpan \in Nat \ {0} /\ IntSpan \div 2 \in Int
    BY PaginationAssumption
<1> QED BY <1>3, <1>4 DEF Sum, ToInt

LEMMA QueryKept ==
    ASSUME Next
    PROVE  /\ table' = table /\ limit' = limit /\ offset' = offset
           /\ sorted' = sorted /\ wrapped' = wrapped
BY DEF Next, ProcessSorted, ProcessBehind, ProcessPlain, Fail, Finish, ExtractRow, ExtractEnd,
       PrintRow, PrintEnd, query

LEMMA SumKept ==
    ASSUME limit' = limit, offset' = offset
    PROVE  Sum' = Sum
BY DEF Sum, ToInt

LEMMA BaseInit == Init => Base
<1> SUFFICES ASSUME Init PROVE Base
    OBVIOUS
<1>0. PICK keys \in Rows : table = [k \in DOMAIN keys |-> [key |-> keys[k], line |-> k]]
    BY DEF Init
<1>1. PICK n \in 0 .. MaxRows : keys \in [1 .. n -> Keys]
    BY DEF Rows
<1>2. n \in Nat /\ MaxRows \in Nat
    BY PaginationAssumption
<1>3. table = [k \in 1 .. n |-> [key |-> keys[k], line |-> k]]
    BY <1>0, <1>1
<1>4. \A k \in 1 .. n : table[k] \in RowType /\ table[k].line = k
    BY <1>1, <1>2, <1>3 DEF RowType
<1>5. table \in [1 .. n -> RowType]
    BY <1>3, <1>4
<1>6. Tabled
    BY <1>2, <1>4, <1>5 DEF Tabled
<1>7. Queried
    <2>1. PICK page \in Pages : limit = page.limit /\ offset = page.offset
        BY DEF Init
    <2>2. page = [limit |-> limit, offset |-> offset]
        BY <2>1, PaginationAssumption
    <2> QED BY <2>1, <2>2, PaginationAssumption DEF Init, Queried
<1>8. Held
    BY <1>7, QueryNumbers, EmptyHeap DEF Init, Held
<1> QED BY <1>6, <1>7, <1>8 DEF Init, Base, Counted, Tabled

\* The next row is not in the heap yet.
LEMMA NextRowIsNew ==
    ASSUME Tabled, Held, current_line \in 0 .. Len(table), More
    PROVE  /\ Line \in 1 .. Len(table) /\ table[Line] \in RowType
           /\ table[Line] \notin RangeOf(heap)
           /\ Seen(Line) = Seen(current_line) \cup {table[Line]}
<1>1. Len(table) \in Nat /\ current_line \in Nat
    BY DEF Tabled
<1>2. Line \in 1 .. Len(table)
    BY <1>1 DEF Line, More
<1>3. table[Line] \in RowType
    BY <1>2 DEF Tabled
<1>4. 1 .. Line = (1 .. current_line) \cup {Line} /\ Line \notin 1 .. current_line
    BY <1>1 DEF Line
<1>5. table[Line] \notin Seen(current_line)
    <2> SUFFICES ASSUME NEW k \in 1 .. current_line, table[k] = table[Line] PROVE FALSE
        BY DEF Seen
    <2>1. k \in 1 .. Len(table)
        BY <1>1
    <2> QED BY <1>2, <1>4, <2>1 DEF Tabled
<1>6. Seen(Line) = Seen(current_line) \cup {table[Line]}
    BY <1>4 DEF Seen
<1> QED BY <1>2, <1>3, <1>5, <1>6 DEF Held

LEMMA BaseStep == Base /\ [Next]_vars => Base'
<1> SUFFICES ASSUME Base, [Next]_vars PROVE Base'
    OBVIOUS
<1>1. CASE UNCHANGED vars
    BY <1>1 DEF vars, query, Base, Tabled, Queried, Held, Counted, Seen, Sum, ToInt
<1>2. CASE Next
    <2>1. /\ table' = table /\ limit' = limit /\ offset' = offset
          /\ sorted' = sorted /\ wrapped' = wrapped /\ Sum' = Sum
        BY <1>2, QueryKept, SumKept
    <2>2. Tabled' /\ Queried' /\ current_line \in Nat /\ Len(table) \in Nat /\ Sum \in Int
        BY <2>1, QueryNumbers DEF Base, Tabled, Queried
    <2>3. CASE ProcessSorted
        <3>1. PICK row : row = table[Line]
            OBVIOUS
        <3>2. /\ row \in RowType /\ row \notin RangeOf(heap) /\ Line \in 1 .. Len(table)
              /\ Seen(Line) = Seen(current_line) \cup {row}
            BY <2>3, <3>1, NextRowIsNew DEF Base, ProcessSorted
        <3>3. IsHeap(RowType, heap) /\ RangeOf(heap) \subseteq Seen(current_line) /\ (Sum > 0 => Len(heap) <= Sum)
            BY DEF Base, Held
        <3>4. heap' = Insert(heap, row, Sum) /\ current_line' = Line
            BY <2>3, <3>1 DEF ProcessSorted
        <3>5. /\ IsHeap(RowType, heap')
              /\ IF Sum > 0 /\ Len(heap) + 1 > Sum
                 THEN Len(heap') = Len(heap) /\ RangeOf(heap') \subseteq RangeOf(heap) \cup {row}
                 ELSE Len(heap') = Len(heap) + 1 /\ RangeOf(heap') = RangeOf(heap) \cup {row}
            BY <2>2, <3>2, <3>3, <3>4, RowsComparable, InsertHeap
        <3>6. RangeOf(heap') \subseteq Seen(Line)
            BY <3>2, <3>3, <3>5
        <3>7. Len(heap) \in Nat
            BY <3>3 DEF IsHeap
        <3>8. Sum > 0 => Len(heap') <= Sum
            BY <2>2, <3>3, <3>5, <3>7
        <3>9. RangeOf(heap') \subseteq Seen(current_line)'
            BY <2>1, <3>4, <3>6 DEF Seen
        <3>10. Held'
            BY <2>1, <2>3, <3>5, <3>8, <3>9 DEF Held, ProcessSorted
        <3> QED BY <2>1, <2>2, <2>3, <3>2, <3>4, <3>10 DEF Base, ProcessSorted, Counted
    <2>4. CASE ProcessBehind \/ ProcessPlain
        <3>1. Line \in 1 .. Len(table) /\ table[Line] \in RowType /\ Seen(current_line) \subseteq Seen(Line)
            BY <2>4, NextRowIsNew DEF Base, ProcessBehind, ProcessPlain
        <3>2. /\ current_line' = Line /\ heap' = heap /\ outbuf' = outbuf /\ numelems' = numelems
              /\ pc' \in {"process", "done"} /\ (pc' = "done" => ~sorted /\ ~wrapped)
            BY <2>4 DEF ProcessBehind, ProcessPlain, Base
        <3>3. Held'
            BY <2>1, <3>1, <3>2 DEF Base, Held, Seen
        <3>4. printed' \in Seq(RowType)
            <4>1. printed \in Seq(RowType)
                BY DEF Base
            <4>2. PICK row \in RowType : row = table[Line]
                BY <3>1
            <4>3. Append(printed, row) \in Seq(RowType)
                BY <4>1
            <4>4. printed' = printed \/ printed' = Append(printed, row)
                BY <2>4, <4>2 DEF ProcessBehind, ProcessPlain
            <4> QED BY <4>1, <4>3, <4>4
        <3> QED BY <2>1, <2>2, <3>1, <3>2, <3>3, <3>4 DEF Base, Counted
    <2>5. CASE Fail \/ Finish
        <3>1. /\ current_line' = current_line /\ heap' = heap /\ outbuf' = outbuf /\ printed' = printed
              /\ pc' \in {"failed", "extract", "done"} /\ (pc' # "failed" => current_line = Len(table))
            BY <2>2, <2>5 DEF Fail, Finish, More, Base
        <3>2. numelems' \in Int
            BY <2>2, <2>5, QueryNumbers DEF Fail, Finish, Base, Held, IsHeap
        <3>3. Held'
            BY <2>1, <3>1 DEF Base, Held, Seen
        <3> QED BY <2>1, <2>2, <3>1, <3>2, <3>3 DEF Base, Counted
    <2>6. CASE ExtractRow
        <3>1. IsHeap(RowType, heap) /\ RangeOf(heap) \subseteq Seen(current_line) /\ heap # <<>>
            BY <2>6 DEF Base, Held, ExtractRow
        <3>2. Len(heap) \in Nat /\ Len(heap) >= 1 /\ Largest(heap) \in RowType
            BY <3>1 DEF IsHeap, Largest
        <3>3. heap' = Extract(heap) /\ current_line' = current_line /\ printed' = printed
            BY <2>6 DEF ExtractRow
        <3>4. IsHeap(RowType, heap') /\ Len(heap') = Len(heap) - 1 /\ RangeOf(heap') \subseteq RangeOf(heap)
            BY <3>1, <3>2, <3>3, RowsComparable, ExtractHeap
        <3>5. sorted
            BY <3>1 DEF Base, Held
        <3>6. Held'
            BY <2>1, <2>2, <3>1, <3>2, <3>3, <3>4, <3>5 DEF Base, Held, Seen
        <3>7. outbuf' \in Seq(RowType) /\ numelems' \in Int /\ pc' \in {"extract", "print"} /\ pc = "extract"
            <4>1. outbuf \in Seq(RowType) /\ numelems \in Int
                BY DEF Base
            <4>2. PICK row \in RowType : row = Largest(heap)
                BY <3>2
            <4>3. Append(outbuf, row) \in Seq(RowType)
                BY <4>1
            <4>4. outbuf' = outbuf \/ outbuf' = Append(outbuf, row)
                BY <2>6, <4>2 DEF ExtractRow
            <4>5. numelems' \in Int /\ pc' \in {"extract", "print"} /\ pc = "extract"
                BY <2>6, <4>1 DEF ExtractRow
            <4> QED BY <4>1, <4>3, <4>4, <4>5
        <3> QED BY <2>1, <2>2, <3>3, <3>6, <3>7 DEF Base, Counted
    <2>7. CASE ExtractEnd \/ PrintEnd
        <3>1. /\ current_line' = current_line /\ heap' = heap /\ outbuf' = outbuf /\ printed' = printed
              /\ numelems' = numelems /\ pc \in {"extract", "print"} /\ pc' \in {"print", "done"}
            BY <2>7 DEF ExtractEnd, PrintEnd
        <3>2. Held'
            BY <2>1, <3>1 DEF Base, Held, Seen
        <3> QED BY <2>1, <2>2, <3>1, <3>2 DEF Base, Counted
    <2>8. CASE PrintRow
        <3>1. /\ current_line' = current_line /\ heap' = heap /\ numelems' = numelems /\ pc' = pc
              /\ outbuf' = SubSeq(outbuf, 1, Len(outbuf) - 1) /\ printed' = Append(printed, outbuf[Len(outbuf)])
              /\ outbuf # <<>> /\ outbuf \in Seq(RowType) /\ printed \in Seq(RowType)
            BY <2>8 DEF PrintRow, Base
        <3>2. Len(outbuf) \in 1 .. Len(outbuf) /\ Len(outbuf) >= 1
            BY <3>1
        <3>3. outbuf' \in Seq(RowType) /\ printed' \in Seq(RowType)
            BY <3>1, <3>2, Shortened
        <3>4. sorted
            BY <3>1 DEF Base, Held
        <3>5. Held'
            BY <2>1, <3>1, <3>4 DEF Base, Held, Seen
        <3> QED BY <2>1, <2>2, <3>1, <3>3, <3>5 DEF Base, Counted
    <2> QED BY <1>2, <2>3, <2>4, <2>5, <2>6, <2>7, <2>8 DEF Next
<1> QED BY <1>1, <1>2

LEMMA BaseHolds == Spec => []Base
<1> QED BY BaseInit, BaseStep, PTL DEF Spec

\* Every variable keeps its type, and the heap its limit.
THEOREM TypeCorrect == Spec => []TypeOK
<1>1. Base => TypeOK
    BY DEF Base, Tabled, Queried, Held, IsHeap, TypeOK
<1> QED BY <1>1, BaseHolds, PTL

\* total_count is the number of all rows, whatever Limit and Offset say, also when
\* their sum is beyond an int.
THEOREM TotalCorrect == Spec => []TotalCount
<1>1. Base => TotalCount
    BY DEF Base, Counted, TotalCount
<1> QED BY <1>1, BaseHolds, PTL
-----------------------------------------------------------------------------
(* The page                                                                *)

\* The sum is what it says, and without a limit it is none.
LEMMA SumIs ==
    ASSUME PagesMeant, Queried
    PROVE  /\ limit >= 0 => Sum = limit + offset
           /\ limit < 0 => limit = -1 /\ offset = 0 /\ Sum <= 0
<1>1. PICK page \in Pages : page = [limit |-> limit, offset |-> offset]
    BY DEF Queried
<1>2. (limit >= 0 \/ offset = 0) /\ limit + offset < IntSpan \div 2
    BY <1>1 DEF PagesMeant
<1>3. limit \in Nat \cup {-1} /\ offset \in Nat
    BY QueryNumbers
<1>4. PICK half \in Int : half = IntSpan \div 2
    BY PaginationAssumption
<1>5. IntSpan \in Nat \ {0} /\ half >= 0 /\ 2 * half <= IntSpan
    BY <1>4, PaginationAssumption
<1>6. ASSUME limit >= 0 PROVE Sum = limit + offset
    <2>1. PICK n \in Nat : n = limit + offset
        BY <1>3, <1>6
    <2>2. n + half \in 0 .. IntSpan - 1
        BY <1>2, <1>4, <1>5, <2>1
    <2>3. (n + half) % IntSpan = n + half
        BY <1>5, <2>2
    <2> QED BY <1>4, <2>1, <2>3 DEF Sum, ToInt
<1>7. ASSUME limit < 0 PROVE limit = -1 /\ offset = 0 /\ Sum <= 0
    <2>1. limit = -1 /\ offset = 0
        BY <1>2, <1>3, <1>7
    <2>2. Sum = ((half - 1) % IntSpan) - half
        BY <1>4, <2>1 DEF Sum, ToInt
    <2>3. (half - 1) % IntSpan <= half
        <3>1. CASE half = 0
            <4>1. IntSpan = 1
                BY <1>4, <1>5, <3>1
            <4> QED BY <3>1, <4>1
        <3>2. CASE half > 0
            BY <1>5, <3>2
        <3> QED BY <1>5, <3>1, <3>2
    <2> QED BY <1>4, <1>5, <2>1, <2>2, <2>3
<1> QED BY <1>6, <1>7

\* The page ends where it was asked to, or with the table.
LEMMA PageNumbers ==
    ASSUME PagesMeant, Queried, NEW n \in Nat, Len(table) = n
    PROVE  /\ PageStart \in Nat /\ PageSize \in Nat
           /\ limit < 0 => PageStart = 0 /\ PageSize = n
           /\ limit >= 0 /\ offset + limit <= n => PageStart = offset /\ PageSize = limit
           /\ limit >= 0 /\ offset + limit > n =>
                /\ PageStart + PageSize = n
                /\ PageSize = IF n > offset THEN n - offset ELSE 0
           /\ PageSize > 0 => PageStart = offset /\ offset + PageSize <= n
<1>1. limit \in Nat \cup {-1} /\ offset \in Nat
    BY QueryNumbers
<1>2. /\ PageStart = IF offset < n THEN offset ELSE n
      /\ PageEnd = IF limit < 0 \/ offset + limit > n THEN n ELSE offset + limit
      /\ PageSize = IF PageEnd > PageStart THEN PageEnd - PageStart ELSE 0
    BY DEF PageStart, PageEnd, PageSize
<1>3. CASE limit < 0
    <2>1. offset = 0
        BY <1>3, SumIs
    <2>2. PageStart = 0 /\ PageEnd = n
        BY <1>2, <1>3, <2>1
    <2>3. PageSize = n
        BY <1>2, <2>2
    <2> QED BY <1>1, <1>3, <2>1, <2>2, <2>3
<1>4. CASE limit >= 0 /\ offset + limit <= n
    <2>1. PageStart = offset /\ PageEnd = offset + limit
        BY <1>1, <1>2, <1>4
    <2>2. PageSize = limit
        BY <1>1, <1>2, <1>4, <2>1
    <2> QED BY <1>1, <1>4, <2>1, <2>2
<1>5. CASE limit >= 0 /\ offset + limit > n
    <2>1. PageEnd = n
        BY <1>2, <1>5
    <2>2. CASE n > offset
        <3>1. PageStart = offset /\ PageSize = n - offset
            BY <1>1, <1>2, <2>1, <2>2
        <3> QED BY <1>1, <1>5, <2>2, <3>1
    <2>3. CASE ~(n > offset)
        <3>1. PageStart = n /\ PageSize = 0
            BY <1>1, <1>2, <2>1, <2>3
        <3> QED BY <1>1, <1>5, <2>3, <3>1
    <2> QED BY <2>2, <2>3
<1> QED BY <1>1, <1>3, <1>4, <1>5

LEMMA PageKept ==
    ASSUME table' = table, limit' = limit, offset' = offset
    PROVE  Sum' = Sum /\ PageStart' = PageStart /\ PageSize' = PageSize
BY DEF Sum, ToInt, PageStart, PageEnd, PageSize

LEMMA EmptyRows == Len(<<>>) = 0 /\ Distinct(<<>>) /\ RangeOf(<<>>) = {}
BY DEF Distinct, RangeOf

LEMMA PageInit == Base /\ Init => PageInv
<1> SUFFICES ASSUME Base, Init PROVE PageInv
    OBVIOUS
<1>1. /\ heap = <<>> /\ outbuf = <<>> /\ printed = <<>> /\ current_line = 0 /\ pc = "process"
      /\ Sum \in Int /\ offset \in Nat /\ limit \in Int
    BY QueryNumbers DEF Base, Init
<1>2. Seen(current_line) = {} /\ RangeOf(heap) = {}
    BY <1>1, EmptyRows DEF Seen
<1>3. Collected
    BY <1>1, <1>2, EmptyRows DEF Collected, Smallest
<1>4. Extracted /\ Printing
    BY <1>1 DEF Extracted, Printing
<1>5. Placed
    BY <1>1, EmptyRows DEF Placed
<1>6. Plain
    <2>1. ~(Reached > offset)
        BY <1>1 DEF Reached, Base, Queried
    <2> QED BY <1>1, <2>1, EmptyRows DEF Plain
<1> QED BY <1>3, <1>4, <1>5, <1>6 DEF PageInv
-----------------------------------------------------------------------------
(* A row is processed                                                      *)

LEMMA CollectStep ==
    ASSUME PagesMeant, Base, PageInv, ProcessSorted
    PROVE  PageInv'
<1>1. PICK row : row = table[Line]
    OBVIOUS
<1>2. PICK n \in Nat : n = current_line
    BY DEF Base
<1>3. /\ pc = "process" /\ sorted /\ n < Len(table) /\ heap' = Insert(heap, row, Sum)
      /\ current_line' = n + 1 /\ pc' = pc /\ outbuf' = outbuf /\ printed' = printed
      /\ table' = table /\ limit' = limit /\ offset' = offset /\ sorted' = sorted
    BY <1>1, <1>2 DEF ProcessSorted, More, Line, query
<1>4. Sum' = Sum /\ PageStart' = PageStart /\ PageSize' = PageSize /\ Sum \in Int
    BY <1>3, PageKept, QueryNumbers DEF Base
<1>5. /\ row \in RowType /\ row \notin RangeOf(heap) /\ row = table[n + 1]
      /\ Seen(n + 1) = Seen(n) \cup {row}
    BY <1>1, <1>2, <1>3, NextRowIsNew DEF Base, Line, More
<1>6. /\ IsHeap(RowType, heap) /\ RangeOf(heap) \subseteq Seen(n) /\ (Sum > 0 => Len(heap) <= Sum)
      /\ Len(heap) \in Nat
    BY <1>2 DEF Base, Held, IsHeap
<1>7. /\ Smallest(table, heap, n)
      /\ IF Sum > 0 /\ n > Sum THEN Len(heap) = Sum ELSE Len(heap) = n /\ RangeOf(heap) = Seen(n)
    BY <1>2, <1>3 DEF PageInv, Collected
<1>8. PICK h : h = heap'
    OBVIOUS
<1>9. /\ IsHeap(RowType, h)
      /\ IF Sum > 0 /\ Len(heap) + 1 > Sum
         THEN /\ Len(h) = Len(heap)
              /\ \E last \in RangeOf(heap) \cup {row} :
                   /\ RangeOf(h) = (RangeOf(heap) \cup {row}) \ {last}
                   /\ \A x \in RangeOf(heap) \cup {row} : Key(x) <= Key(last)
         ELSE Len(h) = Len(heap) + 1 /\ RangeOf(h) = RangeOf(heap) \cup {row}
    BY <1>3, <1>4, <1>5, <1>6, <1>8, RowsComparable, InsertHeap
<1>10. /\ Smallest(table, h, n + 1)
       /\ IF Sum > 0 /\ n + 1 > Sum THEN Len(h) = Sum ELSE Len(h) = n + 1 /\ RangeOf(h) = Seen(n + 1)
    <2>1. CASE Sum > 0 /\ Len(heap) + 1 > Sum
        <3>1. Len(h) = Sum /\ n + 1 > Sum
            BY <1>4, <1>6, <1>7, <1>9, <2>1
        <3>2. PICK last \in RangeOf(heap) \cup {row} :
                   /\ RangeOf(h) = (RangeOf(heap) \cup {row}) \ {last}
                   /\ \A x \in RangeOf(heap) \cup {row} : Key(x) <= Key(last)
            BY <1>9, <2>1
        <3>3. \A x \in RangeOf(heap) \cup {row} : x \in RowType /\ Key(x) \in Int
            BY <1>5, <1>6, RowsComparable DEF Comparable, IsHeap, RangeOf
        <3>4. ASSUME NEW k \in 1 .. n + 1, table[k] \notin RangeOf(h), NEW x \in RangeOf(h)
              PROVE  Key(x) <= Key(table[k])
            <4>1. x \in RangeOf(heap) \cup {row}
                BY <3>2, <3>4
            <4>2. CASE table[k] \in RangeOf(heap) \cup {row}
                BY <3>2, <3>4, <4>1, <4>2
            <4>3. CASE table[k] \notin RangeOf(heap) \cup {row}
                <5>1. k \in 1 .. n
                    BY <1>5, <4>3
                <5>2. \A y \in RangeOf(heap) : Key(y) <= Key(table[k])
                    BY <1>7, <4>3, <5>1 DEF Smallest
                <5>3. CASE x \in RangeOf(heap)
                    BY <5>2, <5>3
                <5>4. CASE x = row
                    <6>1. last \in RangeOf(heap)
                        BY <3>2, <3>4, <5>4
                    <6>2. Key(x) <= Key(last) /\ Key(last) <= Key(table[k])
                        BY <3>2, <4>1, <5>2, <6>1
                    <6>3. k \in 1 .. Len(table) /\ Len(table) \in Nat
                        BY <1>2, <1>3, <5>1 DEF Base, Tabled
                    <6>4. table[k] \in RowType
                        BY <6>3 DEF Base, Tabled
                    <6>5. Key(table[k]) \in Int
                        BY <6>4, RowsComparable DEF Comparable
                    <6> QED BY <3>3, <4>1, <6>1, <6>2, <6>5
                <5> QED BY <4>1, <5>3, <5>4
            <4> QED BY <4>2, <4>3
        <3>5. Smallest(table, h, n + 1)
            BY <3>4 DEF Smallest
        <3> QED BY <2>1, <3>1, <3>5
    <2>2. CASE ~(Sum > 0 /\ Len(heap) + 1 > Sum)
        <3>1. Len(heap) = n /\ RangeOf(heap) = Seen(n)
            BY <1>6, <1>7, <2>2
        <3>2. Len(h) = n + 1 /\ RangeOf(h) = Seen(n + 1)
            BY <1>5, <1>9, <2>2, <3>1
        <3>3. Smallest(table, h, n + 1)
            BY <3>2 DEF Smallest, Seen
        <3>4. ~(Sum > 0 /\ n + 1 > Sum)
            BY <2>2, <3>1
        <3> QED BY <3>2, <3>3, <3>4
    <2> QED BY <2>1, <2>2
<1>11. Seen(n + 1)' = Seen(n + 1)
    BY <1>3 DEF Seen
<1>12. Collected'
    <2>1. outbuf = <<>> /\ printed = <<>>
        BY <1>3 DEF PageInv, Collected
    <2>2. Seen(current_line)' = Seen(n + 1)
        BY <1>3 DEF Seen
    <2> QED BY <1>3, <1>4, <1>8, <1>10, <2>1, <2>2 DEF Collected
<1>13. Extracted' /\ Printing' /\ Plain'
    BY <1>3 DEF Extracted, Printing, Plain
<1>14. Placed'
    BY <1>3, <1>4 DEF PageInv, Placed
<1> QED BY <1>12, <1>13, <1>14 DEF PageInv

\* The rows behind the page are counted.
LEMMA BehindStep ==
    ASSUME PagesMeant, Base, PageInv, ProcessBehind
    PROVE  PageInv'
<1>1. PICK n \in Nat : n = current_line
    BY DEF Base
<1>2. /\ pc = "process" /\ ~sorted /\ limit >= 0 /\ n + 1 > Sum
      /\ current_line' = n + 1 /\ pc' \in {"process", "done"}
      /\ outbuf' = outbuf /\ printed' = printed /\ heap' = heap
      /\ table' = table /\ limit' = limit /\ offset' = offset /\ sorted' = sorted
    BY <1>1 DEF ProcessBehind, More, Line, query
<1>3. Sum' = Sum /\ PageStart' = PageStart /\ PageSize' = PageSize /\ Sum \in Int /\ Sum = limit + offset
    BY <1>2, PageKept, QueryNumbers, SumIs DEF Base
<1>4. Reached' = Reached
    BY <1>1, <1>2, <1>3 DEF Reached
<1>5. Plain'
    BY <1>1, <1>2, <1>3, <1>4 DEF PageInv, Plain
<1>6. Collected' /\ Extracted' /\ Printing'
    BY <1>2 DEF Collected, Extracted, Printing
<1>7. Placed'
    BY <1>2, <1>3 DEF PageInv, Placed
<1> QED BY <1>5, <1>6, <1>7 DEF PageInv

\* The rows before the page are skipped, those of the page printed.
LEMMA PlainStep ==
    ASSUME PagesMeant, Base, PageInv, ProcessPlain
    PROVE  PageInv'
<1>1. PICK n \in Nat : n = current_line
    BY DEF Base
<1>2. /\ pc = "process" /\ ~sorted /\ ~(limit >= 0 /\ n + 1 > Sum) /\ n < Len(table)
      /\ current_line' = n + 1 /\ pc' = pc
      /\ printed' = IF n + 1 <= offset THEN printed ELSE Append(printed, table[n + 1])
      /\ outbuf' = outbuf /\ heap' = heap
      /\ table' = table /\ limit' = limit /\ offset' = offset /\ sorted' = sorted
    BY <1>1 DEF ProcessPlain, More, Line, query
<1>3. /\ Sum' = Sum /\ PageStart' = PageStart /\ PageSize' = PageSize /\ Sum \in Int
      /\ limit \in Int /\ offset \in Nat
    BY <1>2, PageKept, QueryNumbers DEF Base
<1>4. Reached = n /\ Reached' = n + 1
    BY <1>1, <1>2, <1>3 DEF Reached
<1>5. Len(table) \in Nat /\ n + 1 \in 1 .. Len(table)
    BY <1>1, <1>2 DEF Base, Tabled
<1>6. table[n + 1] \in RowType /\ table[n + 1] \in RangeOf(table) /\ printed \in Seq(RowType)
    BY <1>5 DEF Base, Tabled, RangeOf
<1>7. /\ Len(printed) = IF n > offset THEN n - offset ELSE 0
      /\ \A k \in 1 .. Len(printed) : printed[k] = table[offset + k]
    BY <1>2, <1>4 DEF PageInv, Plain
<1>8. PICK p : p = printed'
    OBVIOUS
<1>9. /\ Len(p) = IF n + 1 > offset THEN n + 1 - offset ELSE 0
      /\ \A k \in 1 .. Len(p) : p[k] = table[offset + k]
      /\ RangeOf(p) \subseteq RangeOf(printed) \cup {table[n + 1]}
    <2>1. CASE n + 1 <= offset
        BY <1>2, <1>3, <1>7, <1>8, <2>1
    <2>2. CASE n + 1 > offset
        <3>1. p = Append(printed, table[n + 1])
            BY <1>2, <1>3, <1>8, <2>2
        <3>2. PICK m \in Nat : m = Len(printed)
            BY <1>6
        <3>3. /\ Len(p) = m + 1 /\ p[m + 1] = table[n + 1] /\ \A k \in 1 .. m : p[k] = printed[k]
              /\ RangeOf(p) = RangeOf(printed) \cup {table[n + 1]}
            BY <1>6, <3>1, <3>2, Appended
        <3>4. m = n - offset
            BY <1>3, <1>7, <2>2, <3>2
        <3> QED BY <1>3, <1>7, <2>2, <3>2, <3>3, <3>4
    <2> QED BY <1>3, <2>1, <2>2
<1>10. Plain'
    BY <1>2, <1>3, <1>4, <1>8, <1>9 DEF Plain
<1>11. Collected' /\ Extracted' /\ Printing'
    BY <1>2 DEF Collected, Extracted, Printing
<1>12. Placed'
    <2>1. RangeOf(outbuf) \cup RangeOf(p) \subseteq RangeOf(table)
        BY <1>6, <1>9 DEF PageInv, Placed
    <2> QED BY <1>2, <1>8, <2>1 DEF Placed
<1> QED BY <1>10, <1>11, <1>12 DEF PageInv

LEMMA FailStep ==
    ASSUME PagesMeant, Base, PageInv, Fail
    PROVE  PageInv'
<1>1. /\ pc = "process" /\ pc' = "failed" /\ current_line' = current_line
      /\ outbuf' = outbuf /\ printed' = printed /\ heap' = heap
      /\ table' = table /\ limit' = limit /\ offset' = offset /\ sorted' = sorted
    BY DEF Fail, query
<1>2. Sum' = Sum /\ PageStart' = PageStart /\ PageSize' = PageSize
    BY <1>1, PageKept
<1>3. Reached' = Reached
    BY <1>1, <1>2 DEF Reached
<1>4. Plain'
    BY <1>1, <1>3 DEF PageInv, Plain
<1>5. Collected' /\ Extracted' /\ Printing'
    BY <1>1 DEF Collected, Extracted, Printing
<1>6. Placed'
    BY <1>1, <1>2 DEF PageInv, Placed
<1> QED BY <1>4, <1>5, <1>6 DEF PageInv

\* finish(): as many rows are to be extracted as the page has.
LEMMA FinishStep ==
    ASSUME PagesMeant, Base, PageInv, Finish
    PROVE  PageInv'
<1>1. PICK n \in Nat : n = Len(table)
    BY DEF Base, Tabled
<1>2. /\ pc = "process" /\ current_line = n /\ current_line' = current_line
      /\ pc' = (IF sorted THEN "extract" ELSE "done")
      /\ numelems' = (IF Sum <= Len(heap) THEN limit
                      ELSE IF Len(heap) > offset THEN Len(heap) - offset ELSE 0)
      /\ outbuf' = outbuf /\ printed' = printed /\ heap' = heap
      /\ table' = table /\ limit' = limit /\ offset' = offset /\ sorted' = sorted
    BY <1>1 DEF Finish, More, query, Base
<1>3. /\ Sum' = Sum /\ PageStart' = PageStart /\ PageSize' = PageSize /\ Sum \in Int
      /\ limit \in Nat \cup {-1} /\ offset \in Nat /\ PageStart \in Nat /\ PageSize \in Nat
    BY <1>1, <1>2, PageKept, QueryNumbers, PageNumbers DEF Base
<1>4. Reached' = Reached
    BY <1>2, <1>3 DEF Reached
<1>5. Plain'
    BY <1>1, <1>2, <1>3, <1>4 DEF PageInv, Plain
<1>6. Placed'
    BY <1>2, <1>3 DEF PageInv, Placed
<1>7. Collected' /\ Printing'
    BY <1>2 DEF Collected, Printing, Base, Queried
<1>8. ASSUME sorted PROVE Extracted'
    <2>1. /\ Smallest(table, heap, n) /\ outbuf = <<>> /\ printed = <<>>
          /\ Len(heap) = IF Sum > 0 /\ n > Sum THEN Sum ELSE n
        BY <1>2, <1>8 DEF PageInv, Collected
    <2>2. /\ limit >= 0 => Sum = limit + offset
          /\ limit < 0 => limit = -1 /\ offset = 0 /\ Sum <= 0
        BY SumIs DEF Base
    <2>3. PICK s \in Int : s = Len(heap)
        BY <1>1, <1>3, <2>1
    <2>4. numelems' = (IF Sum <= s THEN limit ELSE IF s > offset THEN s - offset ELSE 0)
        BY <1>2, <2>3
    <2>5. /\ numelems' = IF limit < 0 THEN -1 ELSE PageSize
          /\ limit < 0 \/ PageSize > 0 => s = PageStart + PageSize
        <3>1. CASE limit < 0
            <4>1. PageStart = 0 /\ PageSize = n
                BY <1>1, <3>1, PageNumbers DEF Base
            <4>2. s = n
                BY <1>1, <1>3, <2>1, <2>2, <2>3, <3>1
            <4>3. Sum <= s /\ limit = -1
                BY <1>1, <1>3, <2>2, <3>1, <4>2
            <4>4. numelems' = -1
                BY <2>4, <4>3
            <4> QED BY <1>1, <3>1, <4>1, <4>2, <4>4
        <3>2. CASE limit >= 0 /\ offset + limit <= n
            <4>1. PageStart = offset /\ PageSize = limit
                BY <1>1, <3>2, PageNumbers DEF Base
            <4>2. Sum = 0 \/ s = Sum
                BY <1>1, <1>3, <2>1, <2>2, <2>3, <3>2
            <4>3. numelems' = limit
                BY <1>1, <1>3, <2>1, <2>3, <2>4, <4>2
            <4> QED BY <1>3, <2>2, <3>2, <4>1, <4>2, <4>3
        <3>3. CASE limit >= 0 /\ offset + limit > n
            <4>1. PageStart + PageSize = n /\ PageSize = IF n > offset THEN n - offset ELSE 0
                BY <1>1, <3>3, PageNumbers DEF Base
            <4>2. s = n /\ Sum > n
                BY <1>1, <1>3, <2>1, <2>2, <2>3, <3>3
            <4>3. numelems' = PageSize
                BY <1>1, <1>3, <2>4, <4>1, <4>2
            <4> QED BY <1>1, <1>3, <3>3, <4>1, <4>2, <4>3
        <3> QED BY <1>1, <1>3, <3>1, <3>2, <3>3
    <2>6. Len(outbuf) = 0 /\ Distinct(outbuf) /\ RangeOf(outbuf) = {}
        BY <2>1, EmptyRows
    <2>7. -1 - Len(outbuf) = -1 /\ PageSize - Len(outbuf) = PageSize /\ s + Len(outbuf) = s /\ Len(outbuf) <= PageSize
        BY <1>3, <2>6
    <2> QED BY <1>1, <1>2, <1>3, <2>1, <2>3, <2>5, <2>6, <2>7 DEF Extracted
<1>9. ASSUME ~sorted PROVE Extracted'
    BY <1>2, <1>9 DEF Extracted
<1> QED BY <1>5, <1>6, <1>7, <1>8, <1>9 DEF PageInv
-----------------------------------------------------------------------------
(* The rows of the page are taken from the heap, and printed               *)

\* The rows of the heap are the table's.
LEMMA HeapOfTable ==
    ASSUME Base
    PROVE  IsHeap(RowType, heap) /\ RangeOf(heap) \subseteq RangeOf(table)
<1>1. PICK n \in Nat : n = Len(table) /\ current_line \in 0 .. n
    BY DEF Base, Tabled
<1>2. Seen(current_line) \subseteq RangeOf(table)
    BY <1>1 DEF Seen, RangeOf
<1> QED BY <1>2 DEF Base, Held

LEMMA ExtractStep ==
    ASSUME PagesMeant, Base, PageInv, ExtractRow, numelems # 0
    PROVE  PageInv'
<1>1. PICK n \in Nat : n = Len(table)
    BY DEF Base, Tabled
<1>2. PICK h, b : h = heap /\ b = outbuf
    OBVIOUS
<1>3. /\ pc = "extract" /\ pc' = pc /\ h # <<>> /\ heap' = Extract(h)
      /\ numelems' = numelems - 1 /\ outbuf' = Append(b, h[1])
      /\ current_line' = current_line /\ printed' = printed
      /\ table' = table /\ limit' = limit /\ offset' = offset /\ sorted' = sorted
    BY <1>2 DEF ExtractRow, Largest, query
<1>4. sorted
    BY <1>2, <1>3 DEF Base, Held
<1>5. /\ Sum' = Sum /\ PageStart' = PageStart /\ PageSize' = PageSize
      /\ limit \in Nat \cup {-1} /\ PageStart \in Nat /\ PageSize \in Nat
      /\ (limit < 0 => PageStart = 0)
    BY <1>1, <1>3, PageKept, QueryNumbers, PageNumbers DEF Base
<1>6. IsHeap(RowType, h) /\ RangeOf(h) \subseteq RangeOf(table) /\ h \in Seq(RowType) /\ HeapOrdered(h)
    BY <1>2, HeapOfTable DEF IsHeap
<1>7. PICK s \in Nat : s = Len(h)
    BY <1>6
<1>8. s >= 1
    BY <1>3, <1>6, <1>7
<1>9. PICK p \in Nat : p = Len(b)
    BY <1>2 DEF Base
<1>10. /\ Smallest(table, h, n) /\ printed = <<>> /\ b \in Seq(RowType)
       /\ Distinct(b) /\ RangeOf(b) \cap RangeOf(h) = {} /\ p <= PageSize
       /\ numelems = IF limit < 0 THEN -1 - p ELSE PageSize - p
       /\ limit < 0 \/ PageSize > 0 => s + p = PageStart + PageSize
    BY <1>1, <1>2, <1>3, <1>4, <1>7, <1>9 DEF Base, PageInv, Extracted
<1>11. p + 1 <= PageSize /\ s = PageStart + PageSize - (p + 1) + 1
    BY <1>5, <1>8, <1>10
<1>12. PICK top : top = h[1]
    OBVIOUS
<1>13. top \in RowType /\ top \in RangeOf(h) /\ \A x \in RangeOf(h) : Key(x) <= Key(top)
    BY <1>6, <1>7, <1>8, <1>12, RowsComparable, TopLargest DEF RangeOf
<1>14. PICK g, a : g = Extract(h) /\ a = Append(b, top)
    OBVIOUS
<1>15. g \in Seq(RowType) /\ Len(g) = s - 1 /\ RangeOf(g) = RangeOf(h) \ {top}
    BY <1>6, <1>7, <1>8, <1>12, <1>14, RowsComparable, ExtractHeap DEF IsHeap
<1>16. /\ Len(a) = p + 1 /\ RangeOf(a) = RangeOf(b) \cup {top} /\ Distinct(a)
       /\ a[p + 1] = top /\ \A k \in 1 .. p : a[k] = b[k]
    BY <1>9, <1>10, <1>13, <1>14, Appended, AppendedDistinct
<1>17. Smallest(table, g, n)
    <2> SUFFICES ASSUME NEW k \in 1 .. n, table[k] \notin RangeOf(g), NEW x \in RangeOf(g)
                 PROVE  Key(x) <= Key(table[k])
        BY DEF Smallest
    <2>1. CASE table[k] = top
        BY <1>13, <1>15, <2>1
    <2>2. CASE table[k] # top
        BY <1>10, <1>15, <2>2 DEF Smallest
    <2> QED BY <2>1, <2>2
<1>18. PlaceIn(table, top, s)
    BY <1>1, <1>6, <1>7, <1>8, <1>10, <1>12, RowsComparable, TopPlace DEF Base
<1>19. /\ heap' = g /\ outbuf' = a /\ printed' = <<>> /\ Len(table') = n
    BY <1>1, <1>3, <1>10, <1>12, <1>14
<1>20. Extracted'
    <2>1. numelems' = IF limit < 0 THEN -1 - (p + 1) ELSE PageSize - (p + 1)
        BY <1>3, <1>5, <1>10
    <2>2. (s - 1) + (p + 1) = PageStart + PageSize
        BY <1>5, <1>11
    <2>3. RangeOf(a) \cap RangeOf(g) = {}
        BY <1>10, <1>15, <1>16
    <2> QED BY <1>3, <1>5, <1>11, <1>15, <1>16, <1>17, <1>19, <2>1, <2>2, <2>3 DEF Extracted
<1>21. Placed'
    <2>1. RangeOf(a) \subseteq RangeOf(table) /\ RangeOf(printed) \subseteq RangeOf(table)
        BY <1>2, <1>6, <1>13, <1>16 DEF PageInv, Placed
    <2>2. ASSUME NEW k \in 1 .. p + 1 PROVE PlaceIn(table, a[k], PageStart + PageSize - k + 1)
        <3>1. CASE k = p + 1
            BY <1>11, <1>16, <1>18, <3>1
        <3>2. CASE k \in 1 .. p
            BY <1>2, <1>4, <1>9, <1>16, <3>2 DEF PageInv, Placed
        <3> QED BY <3>1, <3>2
    <2> QED BY <1>3, <1>5, <1>16, <1>19, <2>1, <2>2 DEF Placed
<1>22. Collected' /\ Printing' /\ Plain'
    BY <1>3, <1>4 DEF Collected, Printing, Plain
<1> QED BY <1>20, <1>21, <1>22 DEF PageInv

\* Those that are not asked for, and the end of the heap.
LEMMA ExtractedStep ==
    ASSUME PagesMeant, Base, PageInv, (ExtractRow /\ numelems = 0) \/ ExtractEnd
    PROVE  PageInv'
<1>1. PICK n \in Nat : n = Len(table)
    BY DEF Base, Tabled
<1>2. /\ pc = "extract" /\ pc' = "print"
      /\ outbuf' = outbuf /\ printed' = printed /\ (numelems = 0 \/ heap = <<>>)
      /\ table' = table /\ limit' = limit /\ offset' = offset /\ sorted' = sorted
    BY DEF ExtractRow, ExtractEnd, query
<1>3. sorted
    <2>1. ~Plain \/ sorted
        BY <1>2 DEF Plain
    <2> QED BY <2>1 DEF PageInv
<1>4. /\ Sum' = Sum /\ PageStart' = PageStart /\ PageSize' = PageSize
      /\ limit \in Nat \cup {-1} /\ PageStart \in Nat /\ PageSize \in Nat
      /\ (limit < 0 => PageStart = 0)
    BY <1>1, <1>2, PageKept, QueryNumbers, PageNumbers DEF Base
<1>5. PICK p \in Nat : p = Len(outbuf)
    BY DEF Base
<1>6. /\ printed = <<>> /\ Distinct(outbuf) /\ p <= PageSize
      /\ numelems = IF limit < 0 THEN -1 - p ELSE PageSize - p
      /\ limit < 0 \/ PageSize > 0 => Len(heap) + p = PageStart + PageSize
    BY <1>2, <1>3, <1>5 DEF PageInv, Extracted
<1>7. p = PageSize
    <2>1. CASE numelems = 0
        BY <1>4, <1>6, <2>1
    <2>2. CASE heap = <<>>
        <3>1. Len(heap) = 0
            BY <2>2
        <3> QED BY <1>4, <1>6, <3>1
    <2> QED BY <1>2, <2>1, <2>2
<1>8. Printing'
    BY <1>2, <1>4, <1>5, <1>6, <1>7, EmptyRows DEF Printing
<1>9. Placed'
    BY <1>2, <1>4 DEF PageInv, Placed
<1>10. Collected' /\ Extracted' /\ Plain'
    BY <1>2, <1>3 DEF Collected, Extracted, Plain
<1> QED BY <1>8, <1>9, <1>10 DEF PageInv

\* The row at the end of outbuf follows those that are printed.
LEMMA PrintStep ==
    ASSUME PagesMeant, Base, PageInv, PrintRow
    PROVE  PageInv'
<1>1. PICK n \in Nat : n = Len(table)
    BY DEF Base, Tabled
<1>2. PICK b, o : b = outbuf /\ o = printed
    OBVIOUS
<1>3. /\ pc = "print" /\ pc' = "print" /\ b # <<>>
      /\ outbuf' = SubSeq(b, 1, Len(b) - 1) /\ printed' = Append(o, b[Len(b)])
      /\ table' = table /\ limit' = limit /\ offset' = offset /\ sorted' = sorted
    BY <1>2 DEF PrintRow, query
<1>4. sorted
    BY <1>2, <1>3 DEF Base, Held
<1>5. /\ PageStart' = PageStart /\ PageSize' = PageSize /\ PageStart \in Nat /\ PageSize \in Nat
    BY <1>1, <1>3, PageKept, PageNumbers DEF Base
<1>6. b \in Seq(RowType) /\ o \in Seq(RowType)
    BY <1>2 DEF Base
<1>7. PICK q \in Nat, m \in Nat : q = Len(b) /\ m = Len(o)
    BY <1>6
<1>8. q >= 1
    BY <1>3, <1>6, <1>7
<1>9. /\ q + m = PageSize /\ Distinct(b) /\ Distinct(o) /\ RangeOf(b) \cap RangeOf(o) = {}
      /\ \A k \in 1 .. m : PlaceIn(table, o[k], PageStart + k)
    BY <1>2, <1>3, <1>4, <1>7 DEF PageInv, Printing
<1>10. /\ RangeOf(b) \cup RangeOf(o) \subseteq RangeOf(table)
       /\ \A k \in 1 .. q : PlaceIn(table, b[k], PageStart + PageSize - k + 1)
    BY <1>2, <1>4, <1>7 DEF PageInv, Placed
<1>11. PICK r, a, row : r = SubSeq(b, 1, Len(b) - 1) /\ a = Append(o, row) /\ row = b[q]
    OBVIOUS
<1>12. row \in RowType /\ row \in RangeOf(b)
    BY <1>6, <1>7, <1>8, <1>11 DEF RangeOf
<1>13. Len(r) = q - 1 /\ \A k \in 1 .. q - 1 : r[k] = b[k]
    BY <1>6, <1>7, <1>8, <1>11, Shortened
<1>14. /\ Len(a) = m + 1 /\ RangeOf(a) = RangeOf(o) \cup {row} /\ Distinct(a)
       /\ a[m + 1] = row /\ \A k \in 1 .. m : a[k] = o[k]
    BY <1>6, <1>7, <1>9, <1>11, <1>12, Appended, AppendedDistinct
<1>15. RangeOf(r) \subseteq RangeOf(b) /\ row \notin RangeOf(r) /\ Distinct(r)
    BY <1>7, <1>8, <1>9, <1>11, <1>13 DEF RangeOf, Distinct
<1>16. outbuf' = r /\ printed' = a
    BY <1>3, <1>7, <1>11
<1>17. Printing'
    <2>1. (q - 1) + (m + 1) = PageSize
        BY <1>5, <1>9
    <2>2. RangeOf(r) \cap RangeOf(a) = {}
        BY <1>9, <1>14, <1>15
    <2>3. ASSUME NEW k \in 1 .. m + 1 PROVE PlaceIn(table, a[k], PageStart + k)
        <3>1. CASE k = m + 1
            <4>1. PageStart + PageSize - q + 1 = PageStart + k
                BY <1>5, <1>9, <3>1
            <4>2. PlaceIn(table, b[q], PageStart + PageSize - q + 1)
                BY <1>8, <1>10
            <4> QED BY <1>11, <1>14, <3>1, <4>1, <4>2
        <3>2. CASE k \in 1 .. m
            BY <1>9, <1>14, <3>2
        <3> QED BY <3>1, <3>2
    <2> QED BY <1>3, <1>5, <1>13, <1>14, <1>15, <1>16, <2>1, <2>2, <2>3 DEF Printing
<1>18. Placed'
    <2>1. RangeOf(r) \cup RangeOf(a) \subseteq RangeOf(table)
        BY <1>10, <1>12, <1>14, <1>15
    <2>2. \A k \in 1 .. q - 1 : PlaceIn(table, r[k], PageStart + PageSize - k + 1)
        BY <1>10, <1>13
    <2> QED BY <1>3, <1>5, <1>13, <1>16, <2>1, <2>2 DEF Placed
<1>19. Collected' /\ Extracted' /\ Plain'
    BY <1>3, <1>4 DEF Collected, Extracted, Plain
<1> QED BY <1>17, <1>18, <1>19 DEF PageInv

LEMMA PrintEndStep ==
    ASSUME PagesMeant, Base, PageInv, PrintEnd
    PROVE  PageInv'
<1>1. /\ pc = "print" /\ pc' = "done" /\ outbuf = <<>>
      /\ outbuf' = outbuf /\ printed' = printed
      /\ table' = table /\ limit' = limit /\ offset' = offset /\ sorted' = sorted
    BY DEF PrintEnd, query
<1>2. PageStart' = PageStart /\ PageSize' = PageSize
    BY <1>1, PageKept
<1>3. sorted
    BY <1>1 DEF PageInv, Plain
<1>4. Printing'
    BY <1>1, <1>2 DEF PageInv, Printing
<1>5. Placed'
    BY <1>1, <1>2 DEF PageInv, Placed
<1>6. Collected' /\ Extracted' /\ Plain'
    BY <1>1, <1>3 DEF Collected, Extracted, Plain
<1> QED BY <1>4, <1>5, <1>6 DEF PageInv

LEMMA IdleStep ==
    ASSUME PageInv, UNCHANGED vars
    PROVE  PageInv'
<1>1. /\ table' = table /\ limit' = limit /\ offset' = offset /\ sorted' = sorted
      /\ current_line' = current_line /\ heap' = heap /\ numelems' = numelems
      /\ outbuf' = outbuf /\ printed' = printed /\ pc' = pc
    BY DEF vars, query
<1>2. Sum' = Sum /\ PageStart' = PageStart /\ PageSize' = PageSize
    BY <1>1, PageKept
<1>3. Seen(current_line)' = Seen(current_line) /\ Reached' = Reached
    BY <1>1, <1>2 DEF Seen, Reached
<1>4. Collected'
    BY <1>1, <1>2, <1>3 DEF PageInv, Collected
<1>5. Extracted'
    BY <1>1, <1>2 DEF PageInv, Extracted
<1>6. Printing' /\ Placed'
    BY <1>1, <1>2 DEF PageInv, Printing, Placed
<1>7. Plain'
    BY <1>1, <1>2, <1>3 DEF PageInv, Plain
<1> QED BY <1>4, <1>5, <1>6, <1>7 DEF PageInv

LEMMA PageStep == PagesMeant /\ Base /\ PageInv /\ [Next]_vars => PageInv'
BY CollectStep, BehindStep, PlainStep, FailStep, FinishStep, ExtractStep, ExtractedStep,
   PrintStep, PrintEndStep, IdleStep DEF Next
LEMMA PageIsPrinted ==
    ASSUME PagesMeant, Base, PageInv
    PROVE  AnswerIsPage
<1> SUFFICES ASSUME pc = "done"
             PROVE  /\ Len(printed) = PageSize /\ Cardinality(Lines(printed)) = PageSize
                    /\ \A k \in 1 .. PageSize :
                        IF sorted THEN SortedPlace(printed[k], PageStart + k)
                        ELSE printed[k] = table[PageStart + k]
    BY DEF AnswerIsPage
<1>1. PICK n \in Nat : n = Len(table)
    BY DEF Base, Tabled
<1>2. /\ limit \in Nat \cup {-1} /\ offset \in Nat /\ Sum \in Int
      /\ PageStart \in Nat /\ PageSize \in Nat
    BY <1>1, QueryNumbers, PageNumbers DEF Base
<1>3. PICK o : o = printed
    OBVIOUS
<1>4. o \in Seq(RowType) /\ RangeOf(o) \subseteq RangeOf(table) /\ Tabled
    BY <1>3 DEF Base, PageInv, Placed
<1>5. ASSUME Len(o) = PageSize, Distinct(o) PROVE Cardinality(Lines(o)) = PageSize
    BY <1>4, <1>5, LinesOf
<1>6. CASE sorted
    <2>1. outbuf = <<>> /\ Len(outbuf) + Len(o) = PageSize /\ Distinct(o)
          /\ \A k \in 1 .. Len(o) : PlaceIn(table, o[k], PageStart + k)
        BY <1>3, <1>6 DEF PageInv, Printing
    <2>2. Len(o) = PageSize
        <3>1. Len(outbuf) = 0 /\ Len(o) \in Nat
            BY <1>4, <2>1
        <3> QED BY <2>1, <3>1
    <2>3. \A k \in 1 .. PageSize : SortedPlace(o[k], PageStart + k)
        BY <2>1, <2>2 DEF SortedPlace, PlaceIn
    <2> QED BY <1>3, <1>5, <1>6, <2>1, <2>2, <2>3
<1>7. CASE ~sorted
    <2>1. PICK c \in Int : c = current_line /\ c \in 0 .. n
        BY <1>1 DEF Base
    <2>2. /\ Len(o) = (IF Reached > offset THEN Reached - offset ELSE 0)
          /\ \A k \in 1 .. Len(o) : o[k] = table[offset + k]
          /\ c = n \/ (limit >= 0 /\ c > Sum)
          /\ Reached = IF limit >= 0 /\ c > Sum THEN Sum ELSE c
        BY <1>1, <1>3, <1>7, <2>1 DEF PageInv, Plain, Reached
    <2>3. Len(o) = PageSize
        <3>1. CASE limit < 0
            <4>1. PageSize = n /\ offset = 0
                BY <1>1, <3>1, PageNumbers, SumIs DEF Base
            <4> QED BY <1>1, <1>2, <2>1, <2>2, <3>1, <4>1
        <3>2. CASE limit >= 0 /\ offset + limit <= n
            <4>1. PageSize = limit /\ Sum = limit + offset
                BY <1>1, <3>2, PageNumbers, SumIs DEF Base
            <4>2. Reached = Sum
                BY <1>1, <1>2, <2>1, <2>2, <3>2, <4>1
            <4> QED BY <1>2, <2>2, <3>2, <4>1, <4>2
        <3>3. CASE limit >= 0 /\ offset + limit > n
            <4>1. PageSize = (IF n > offset THEN n - offset ELSE 0) /\ Sum = limit + offset
                BY <1>1, <3>3, PageNumbers, SumIs DEF Base
            <4>2. Reached = n
                BY <1>1, <1>2, <2>1, <2>2, <3>3, <4>1
            <4> QED BY <2>2, <4>1, <4>2
        <3> QED BY <1>1, <1>2, <3>1, <3>2, <3>3
    <2>4. PageSize > 0 => PageStart = offset /\ offset + PageSize <= n
        BY <1>1, PageNumbers DEF Base
    <2>5. \A k \in 1 .. PageSize : o[k] = table[PageStart + k] /\ o[k] = table[offset + k] /\ offset + k \in 1 .. n
        BY <1>1, <1>2, <2>2, <2>3, <2>4
    <2>6. Distinct(o)
        <3>1. \A k \in 1 .. PageSize : o[k].line = offset + k
            BY <1>1, <1>4, <2>5 DEF Tabled
        <3> QED BY <1>2, <2>3, <3>1 DEF Distinct
    <2> QED BY <1>3, <1>5, <1>7, <2>3, <2>5, <2>6
<1> QED BY <1>6, <1>7

\* Every answer is the page that was asked for, of every table: for a query whose
\* _limit + _offset is the sum it says, and no Offset without a Limit, where the code
\* takes -1 + _offset for the size of its heap.
THEOREM PageCorrect == ASSUME PagesMeant PROVE Spec => []AnswerIsPage
<1>1. PagesMeant
    OBVIOUS
<1>2. Init => PageInv
    BY BaseInit, PageInit
<1>3. Base /\ PageInv /\ [Next]_vars => PageInv'
    BY <1>1, PageStep
<1>4. Base /\ PageInv => AnswerIsPage
    BY <1>1, PageIsPrinted
<1> QED BY <1>2, <1>3, <1>4, BaseHolds, PTL DEF Spec
================================================================================
