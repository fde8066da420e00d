----------------------------- MODULE Answer_proofs -----------------------------
(***************************************************************************)
(* A contact is told only what it may see, and the columns of a row agree, *)
(* whatever is asked.                                                      *)
(*                                                                         *)
(* Recursive functions (of the lists that are chosen, the headers and the  *)
(* heap) are solved and followed by a descent in the natural numbers, the  *)
(* first part.  Then come the lists of what is seen, the rows of the       *)
(* tables, the values of columns, the headers and the sorter, and the      *)
(* inductive invariant of what is told, VisibleInv, with a lemma for each  *)
(* step.  The second half is about the counts of lists: sums over finite   *)
(* sets, the sums of fresh aggregates, that what is known of a list stays, *)
(* and the inductive invariant AgreeInv with its steps.                    *)
(***************************************************************************)
EXTENDS Answer, FiniteSetTheorems, SequenceTheorems, WellFoundedInduction, TLAPS

-----------------------------------------------------------------------------
(* Recursions                                                              *)

\* A set of numbers has a least one.
LEMMA Least ==
    ASSUME NEW T, T \subseteq Nat, T # {}
    PROVE  \E n \in T : \A m \in T : n <= m
<1>1. \E n \in T : \A m \in T : ~(<<m, n>> \in OpToRel(<, Nat))
    BY NatLessThanWellFounded, WFMin
<1>2. PICK n \in T : \A m \in T : ~(m < n)
    BY <1>1 DEF OpToRel
<1>3. \A m \in T : m \in Nat /\ n \in Nat
    OBVIOUS
<1> QED BY <1>2, <1>3

\* A recursion goes on from each of its arguments D, but for those of Ends, to one of
\* a lower rank.
Descends(D, Ends, next, rank, N) ==
    /\ N \in Nat /\ rank \in [D -> 0 .. N]
    /\ \A d \in D \ Ends : next[d] \in D /\ rank[next[d]] < rank[d]

\* What holds at its ends, and wherever it holds further on, holds of all arguments.
LEMMA RankInduction ==
    ASSUME NEW D, NEW Ends, NEW next, NEW rank, NEW N, Descends(D, Ends, next, rank, N),
           NEW T, \A d \in D : d \in Ends \/ next[d] \in T => d \in T
    PROVE  \A d \in D : d \in T
<1> DEFINE Wrong == {rank[d] : d \in D \ T}
<1> SUFFICES ASSUME NEW d \in D, d \notin T PROVE FALSE
    OBVIOUS
<1>1. Wrong \subseteq Nat /\ Wrong # {}
    BY DEF Descends
<1>2. PICK n \in Wrong : \A m \in Wrong : n <= m
    BY <1>1, Least
<1>3. PICK c \in D \ T : n = rank[c]
    BY <1>2
<1>4. c \notin Ends /\ next[c] \notin T
    BY <1>3
<1>5. next[c] \in D /\ rank[next[c]] < rank[c] /\ rank[next[c]] \in Nat /\ rank[c] \in Nat
    BY <1>3, <1>4 DEF Descends
<1>6. rank[next[c]] \in Wrong
    BY <1>4, <1>5
<1>7. rank[c] <= rank[next[c]]
    BY <1>2, <1>3, <1>6
<1> QED BY <1>5, <1>7

\* What one step of the recursion is.
Recurs(f, d, Ends, next, base, step) ==
    f[d] = IF d \in Ends THEN base[d] ELSE step[d][f[next[d]]]

\* A recursion has a solution.
LEMMA RecursionExists ==
    ASSUME NEW D, NEW Ends, NEW next, NEW rank, NEW N, Descends(D, Ends, next, rank, N),
           NEW V, NEW base, NEW step,
           \A d \in D : IF d \in Ends THEN base[d] \in V ELSE step[d] \in [V -> V]
    PROVE  \E f \in [D -> V] : \A d \in D : Recurs(f, d, Ends, next, base, step)
<1> DEFINE Below(m) == {d \in D : rank[d] < m}
           Solved(m) == \E f \in [Below(m) -> V] :
                            \A d \in Below(m) : Recurs(f, d, Ends, next, base, step)
           Open == {m \in 0 .. N + 1 : ~Solved(m)}
<1>1. N \in Nat /\ \A d \in D : rank[d] \in 0 .. N
    BY DEF Descends
<1>2. Solved(0)
    <2>1. Below(0) = {}
        BY <1>1
    <2> HIDE DEF Below
    <2> DEFINE f == [d \in Below(0) |-> d]
    <2>2. f \in [Below(0) -> V]
        BY <2>1
    <2> QED BY <2>1, <2>2
<1>3. ASSUME NEW m \in 0 .. N, Solved(m)
      PROVE  Solved(m + 1)
    <2>1. PICK f \in [Below(m) -> V] : \A d \in Below(m) : Recurs(f, d, Ends, next, base, step)
        BY <1>3
    <2> DEFINE value(d) == IF d \in Ends THEN base[d] ELSE step[d][f[next[d]]]
               g == [d \in Below(m + 1) |-> value(d)]
    <2>2. \A d \in Below(m + 1) : d \in D /\ (d \notin Ends => next[d] \in Below(m))
        <3> TAKE d \in Below(m + 1)
        <3>1. d \in D /\ rank[d] \in Nat /\ m \in Nat /\ rank[d] < m + 1
            BY <1>1
        <3>2. d \notin Ends => next[d] \in D /\ rank[next[d]] < rank[d] /\ rank[next[d]] \in Nat
            BY <1>1, <3>1 DEF Descends
        <3> QED BY <3>1, <3>2
    <2>3. \A d \in Below(m + 1) : value(d) \in V
        BY <2>1, <2>2
    <2>4. \A d \in Below(m) : d \in Below(m + 1) /\ f[d] = value(d)
        <3>1. \A d \in Below(m) : d \in Below(m + 1)
            BY <1>1
        <3> QED BY <2>1, <3>1 DEF Recurs
    <2> HIDE DEF Below, value
    <2>5. g \in [Below(m + 1) -> V] /\ \A d \in Below(m) : g[d] = f[d]
        BY <2>3, <2>4
    <2>6. \A d \in Below(m + 1) : Recurs(g, d, Ends, next, base, step)
        BY <2>2, <2>5 DEF Recurs, value
    <2> QED BY <2>5, <2>6
<1>4. Solved(N + 1)
    <2> HIDE DEF Solved
    <2> SUFFICES ASSUME ~Solved(N + 1) PROVE FALSE
        OBVIOUS
    <2>1. Open \subseteq Nat /\ N + 1 \in Open
        BY <1>1
    <2>2. PICK n \in Open : \A m \in Open : n <= m
        BY <2>1, Least
    <2>3. n # 0 /\ n \in 0 .. N + 1 /\ ~Solved(n)
        BY <1>2, <2>2
    <2>4. n - 1 \in 0 .. N /\ n - 1 \in 0 .. N + 1 /\ n = (n - 1) + 1 /\ ~(n <= n - 1)
        BY <1>1, <2>3
    <2>5. Solved(n - 1)
        BY <2>2, <2>4
    <2> QED BY <1>3, <2>3, <2>4, <2>5
<1>5. Below(N + 1) = D
    BY <1>1
<1> HIDE DEF Below
<1> QED BY <1>4, <1>5

\* A recursion along the numbers from one to another.
LEMMA CountingInduction ==
    ASSUME NEW first \in Nat, NEW last \in Nat, NEW T,
           \A n \in first .. last : n = first \/ n - 1 \in T => n \in T
    PROVE  \A n \in first .. last : n \in T
<1> DEFINE D == first .. last
           next == [n \in D |-> n - 1]
           rank == [n \in D |-> n - first]
<1>1. \A n \in D : n - first \in 0 .. last
    OBVIOUS
<1>2. \A n \in D \ {first} : n - 1 \in D /\ (n - 1) - first < n - first
    OBVIOUS
<1>3. \A n \in D : next[n] = n - 1 /\ rank[n] = n - first
    OBVIOUS
<1>4. rank \in [D -> 0 .. last]
    BY <1>1
<1> HIDE DEF D, next, rank
<1>5. Descends(D, {first}, next, rank, last)
    BY <1>2, <1>3, <1>4 DEF Descends
<1>6. \A n \in D : n \in {first} \/ next[n] \in T => n \in T
    BY <1>3 DEF D
<1>7. \A n \in D : n \in T
    BY <1>5, <1>6, RankInduction
<1> QED BY <1>7 DEF D

Counts(f, first, last, base, step) ==
    \A n \in first .. last : f[n] = IF n = first THEN base ELSE step[n][f[n - 1]]

LEMMA CountingExists ==
    ASSUME NEW first \in Nat, NEW last \in Nat, NEW V, NEW base \in V,
           NEW step, \A n \in first .. last : n # first => step[n] \in [V -> V]
    PROVE  \E f \in [first .. last -> V] : Counts(f, first, last, base, step)
<1> DEFINE D == first .. last
           next == [n \in D |-> n - 1]
           rank == [n \in D |-> n - first]
           bases == [n \in D |-> base]
<1>1. \A n \in D : n - first \in 0 .. last
    OBVIOUS
<1>2. \A n \in D \ {first} : n - 1 \in D /\ (n - 1) - first < n - first
    OBVIOUS
<1>3. \A n \in D : next[n] = n - 1 /\ rank[n] = n - first /\ bases[n] = base
    OBVIOUS
<1>4. rank \in [D -> 0 .. last]
    BY <1>1
<1> HIDE DEF D, next, rank, bases
<1>5. Descends(D, {first}, next, rank, last)
    BY <1>2, <1>3, <1>4 DEF Descends
<1>6. \A n \in D : IF n \in {first} THEN bases[n] \in V ELSE step[n] \in [V -> V]
    BY <1>3 DEF D
<1>7. PICK f \in [D -> V] : \A n \in D : Recurs(f, n, {first}, next, bases, step)
    BY <1>5, <1>6, RecursionExists
<1>8. \A n \in D : f[n] = IF n = first THEN base ELSE step[n][f[n - 1]]
    BY <1>3, <1>7 DEF Recurs
<1> QED BY <1>8 DEF D, Counts

-----------------------------------------------------------------------------
(* Sequences                                                               *)

LEMMA AppendedSeq ==
    ASSUME NEW S, NEW s \in Seq(S), NEW e \in S
    PROVE  /\ Append(s, e) \in Seq(S) /\ Len(Append(s, e)) = Len(s) + 1
           /\ \A n \in 1 .. Len(s) : Append(s, e)[n] = s[n]
           /\ Append(s, e)[Len(s) + 1] = e
           /\ ToSet(Append(s, e)) = ToSet(s) \cup {e}
<1>1. PICK t : t = Append(s, e)
    OBVIOUS
<1>2. /\ t \in Seq(S) /\ Len(t) = Len(s) + 1 /\ Len(s) \in Nat
      /\ \A n \in 1 .. Len(s) : t[n] = s[n]
      /\ t[Len(s) + 1] = e
    BY <1>1
<1>3. DOMAIN t = (1 .. Len(s)) \cup {Len(s) + 1} /\ DOMAIN s = 1 .. Len(s)
    BY <1>2
<1>4. ToSet(t) = ToSet(s) \cup {e}
    BY <1>2, <1>3 DEF ToSet
<1> QED BY <1>1, <1>2, <1>4

\* The recursion of Chosen.
Chooses(list, passes, upto) ==
    upto = [n \in 0 .. Len(list) |->
                IF n = 0 THEN <<>>
                ELSE IF passes[n] THEN Append(upto[n - 1], list[n]) ELSE upto[n - 1]]

LEMMA ChoosesExists ==
    ASSUME NEW X, NEW list \in Seq(X), NEW passes
    PROVE  \E upto : Chooses(list, passes, upto)
<1> DEFINE V == Seq(X)
           grown(n, v) == IF passes[n] THEN Append(v, list[n]) ELSE v
           step == [n \in 1 .. Len(list) |-> [v \in V |-> grown(n, v)]]
<1>1. Len(list) \in Nat /\ \A n \in 1 .. Len(list) : list[n] \in X
    OBVIOUS
<1>2. \A n \in 1 .. Len(list) : \A v \in V : grown(n, v) \in V
    BY <1>1
<1>3. <<>> \in V
    OBVIOUS
<1> HIDE DEF grown, V
<1>4. \A n \in 1 .. Len(list) : step[n] \in [V -> V] /\ \A v \in V : step[n][v] = grown(n, v)
    BY <1>2
<1> HIDE DEF step
<1>a. \A n \in 0 .. Len(list) : n # 0 => n \in 1 .. Len(list)
    BY <1>1
<1>b. \A n \in 0 .. Len(list) : n # 0 => step[n] \in [V -> V]
    BY <1>4, <1>a
<1>5. PICK f \in [0 .. Len(list) -> V] : Counts(f, 0, Len(list), <<>>, step)
    BY <1>1, <1>3, <1>b, CountingExists
<1>6. \A n \in 0 .. Len(list) : f[n] = IF n = 0 THEN <<>> ELSE grown(n, f[n - 1])
    <2> TAKE n \in 0 .. Len(list)
    <2>1. CASE n = 0
        BY <1>5, <2>1 DEF Counts
    <2>2. CASE n # 0
        <3>1. n - 1 \in 0 .. Len(list) /\ n \in 1 .. Len(list)
            BY <1>1, <2>2
        <3>2. f[n - 1] \in V
            BY <1>5, <3>1
        <3> QED BY <1>4, <1>5, <2>2, <3>1, <3>2 DEF Counts
    <2> QED BY <2>1, <2>2
<1>7. f = [n \in 0 .. Len(list) |-> f[n]]
    BY <1>5
<1>8. Chooses(list, passes, f)
    BY <1>6, <1>7 DEF Chooses, grown
<1> QED BY <1>8

\* What is chosen of a list is as many as are chosen of its objects, if no object is
\* there twice.
LEMMA ChosenIs ==
    ASSUME NEW X, NEW list \in Seq(X), NEW passes
    PROVE  /\ Chosen(list, passes) \in Seq(X)
           /\ ToSet(Chosen(list, passes)) = {list[n] : n \in {m \in 1 .. Len(list) : passes[m]}}
           /\ IsInjective(list) =>
                Cardinality(ToSet(Chosen(list, passes))) = Len(Chosen(list, passes))
<1> DEFINE upto == CHOOSE f : Chooses(list, passes, f)
           Of(n) == {list[i] : i \in {m \in 1 .. n : passes[m]}}
           Right(n) == /\ upto[n] \in Seq(X) /\ ToSet(upto[n]) = Of(n)
                       /\ IsFiniteSet(Of(n))
                       /\ IsInjective(list) => Cardinality(Of(n)) = Len(upto[n])
           T == {n \in 0 .. Len(list) : Right(n)}
<1>1. Chooses(list, passes, upto)
    BY ChoosesExists
<1>2. Chosen(list, passes) = upto[Len(list)]
    BY DEF Chosen, Chooses
<1> HIDE DEF upto
<1>3. \A n \in 0 .. Len(list) :
            upto[n] = IF n = 0 THEN <<>>
                      ELSE IF passes[n] THEN Append(upto[n - 1], list[n]) ELSE upto[n - 1]
    BY <1>1 DEF Chooses
<1>4. Len(list) \in Nat /\ \A n \in 1 .. Len(list) : list[n] \in X
    OBVIOUS
<1>5. Right(0)
    <2>1. upto[0] = <<>> /\ Of(0) = {}
        BY <1>3, <1>4
    <2> HIDE DEF Of
    <2>2. ToSet(<<>>) = {} /\ Len(<<>>) = 0 /\ <<>> \in Seq(X)
        BY DEF ToSet
    <2>3. IsFiniteSet({}) /\ Cardinality({}) = 0
        BY FS_EmptySet
    <2> QED BY <2>1, <2>2, <2>3
<1>6. ASSUME NEW n \in 1 .. Len(list), Right(n - 1)
      PROVE  Right(n)
    <2>0. n \in Nat /\ n - 1 \in 0 .. Len(list) /\ n \in 0 .. Len(list) /\ n # 0
        BY <1>4
    <2>1. 1 .. n = (1 .. n - 1) \cup {n} /\ n \notin 1 .. n - 1
        BY <2>0
    <2>2. CASE ~passes[n]
        <3>1. Of(n) = Of(n - 1)
            BY <2>1, <2>2
        <3>2. upto[n] = upto[n - 1]
            BY <1>3, <2>0, <2>2
        <3> HIDE DEF Of
        <3> QED BY <1>6, <3>1, <3>2
    <2>3. CASE passes[n]
        <3>1. Of(n) = Of(n - 1) \cup {list[n]}
            BY <2>1, <2>3
        <3>2. upto[n] = Append(upto[n - 1], list[n]) /\ list[n] \in X
            BY <1>3, <1>4, <2>0, <2>3
        <3>3. IsInjective(list) => list[n] \notin Of(n - 1)
            <4>1. \A i \in 1 .. n - 1 : i \in DOMAIN list /\ n \in DOMAIN list /\ i # n
                BY <1>4, <2>0
            <4> QED BY <4>1 DEF IsInjective
        <3> HIDE DEF Of
        <3>4. PICK prior, more, fewer, all :
                    prior = upto[n - 1] /\ more = upto[n] /\ fewer = Of(n - 1) /\ all = Of(n)
            OBVIOUS
        <3>5. prior \in Seq(X) /\ ToSet(prior) = fewer /\ IsFiniteSet(fewer) /\ all = fewer \cup {list[n]}
            BY <1>6, <3>1, <3>4
        <3>6. more = Append(prior, list[n]) /\ list[n] \in X
            BY <3>2, <3>4
        <3>7. more \in Seq(X) /\ Len(more) = Len(prior) + 1 /\ ToSet(more) = all
            BY <3>5, <3>6, AppendedSeq
        <3>8. /\ IsFiniteSet(all)
              /\ Cardinality(all) = IF list[n] \in fewer THEN Cardinality(fewer) ELSE Cardinality(fewer) + 1
            BY <3>5, FS_AddElement
        <3>9. IsInjective(list) => Cardinality(fewer) = Len(prior) /\ list[n] \notin fewer
            BY <1>6, <3>3, <3>4
        <3>10. IsInjective(list) => Cardinality(all) = Len(more)
            BY <3>7, <3>8, <3>9
        <3> QED BY <3>4, <3>7, <3>8, <3>10
    <2> QED BY <2>2, <2>3
<1>7. \A n \in 0 .. Len(list) : n = 0 \/ n - 1 \in T => n \in T
    <2> TAKE n \in 0 .. Len(list)
    <2> HAVE n = 0 \/ n - 1 \in T
    <2> HIDE DEF Right
    <2>1. CASE n = 0
        BY <1>5, <2>1
    <2>2. CASE n # 0
        <3>1. n \in 1 .. Len(list) /\ Right(n - 1)
            BY <1>4, <2>2
        <3> QED BY <1>6, <3>1
    <2> QED BY <2>1, <2>2
<1> HIDE DEF Right
<1>8. \A n \in 0 .. Len(list) : n \in T
    BY <1>4, <1>7, CountingInduction
<1>9. Right(Len(list))
    BY <1>4, <1>8
<1> QED BY <1>2, <1>9 DEF Right

-----------------------------------------------------------------------------
(* What is seen of a list                                                  *)

ServicesSeen(a, user, services) == {s \in ToSet(services) : SeesService(a, user, s)}
HostsSeen(user, hosts) == {h \in ToSet(hosts) : SeesHost(user, h)}

LEMMA SeenServicesAre ==
    ASSUME NEW X, NEW services \in ListsOf(X), NEW a, NEW user
    PROVE  /\ SeenServices(a, user, services) \in Seq(X)
           /\ ToSet(SeenServices(a, user, services)) = ServicesSeen(a, user, services)
           /\ Len(SeenServices(a, user, services)) = Cardinality(ServicesSeen(a, user, services))
<1> DEFINE passes == [n \in DOMAIN services |-> SeesService(a, user, services[n])]
<1>1. services \in Seq(X) /\ IsInjective(services) /\ DOMAIN services = 1 .. Len(services)
    BY DEF ListsOf
<1>2. \A n \in 1 .. Len(services) : passes[n] <=> SeesService(a, user, services[n])
    BY <1>1
<1>3. SeenServices(a, user, services) = Chosen(services, passes)
    BY DEF SeenServices
<1> HIDE DEF passes
<1>4. ServicesSeen(a, user, services) = {services[n] : n \in {m \in 1 .. Len(services) : passes[m]}}
    BY <1>1, <1>2 DEF ServicesSeen, ToSet
<1>5. /\ Chosen(services, passes) \in Seq(X)
      /\ ToSet(Chosen(services, passes)) = {services[n] : n \in {m \in 1 .. Len(services) : passes[m]}}
      /\ Cardinality(ToSet(Chosen(services, passes))) = Len(Chosen(services, passes))
    BY <1>1, ChosenIs
<1> QED BY <1>3, <1>4, <1>5

LEMMA SeenHostsAre ==
    ASSUME NEW X, NEW hosts \in ListsOf(X), NEW user
    PROVE  /\ SeenHosts(user, hosts) \in Seq(X)
           /\ ToSet(SeenHosts(user, hosts)) = HostsSeen(user, hosts)
           /\ Len(SeenHosts(user, hosts)) = Cardinality(HostsSeen(user, hosts))
<1> DEFINE passes == [n \in DOMAIN hosts |-> SeesHost(user, hosts[n])]
<1>1. hosts \in Seq(X) /\ IsInjective(hosts) /\ DOMAIN hosts = 1 .. Len(hosts)
    BY DEF ListsOf
<1>2. \A n \in 1 .. Len(hosts) : passes[n] <=> SeesHost(user, hosts[n])
    BY <1>1
<1>3. SeenHosts(user, hosts) = Chosen(hosts, passes)
    BY DEF SeenHosts
<1> HIDE DEF passes
<1>4. HostsSeen(user, hosts) = {hosts[n] : n \in {m \in 1 .. Len(hosts) : passes[m]}}
    BY <1>1, <1>2 DEF HostsSeen, ToSet
<1>5. /\ Chosen(hosts, passes) \in Seq(X)
      /\ ToSet(Chosen(hosts, passes)) = {hosts[n] : n \in {m \in 1 .. Len(hosts) : passes[m]}}
      /\ Cardinality(ToSet(Chosen(hosts, passes))) = Len(Chosen(hosts, passes))
    BY <1>1, ChosenIs
<1> QED BY <1>3, <1>4, <1>5

\* What is counted of a list is a part of it.
LEMMA PartOf ==
    ASSUME NEW X, NEW seen \in Seq(X), NEW part, part \subseteq DOMAIN seen
    PROVE  Cardinality(part) \in 0 .. Len(seen)
<1>1. Len(seen) \in Nat /\ DOMAIN seen = 1 .. Len(seen)
    OBVIOUS
<1>a. PICK size \in Nat : size = Len(seen)
    BY <1>1
<1>2. IsFiniteSet(1 .. size) /\ Cardinality(1 .. size) = size
    BY FS_Interval
<1>3. IsFiniteSet(part) /\ Cardinality(part) <= Len(seen)
    BY <1>1, <1>a, <1>2, FS_Subset
<1>4. Cardinality(part) \in Nat
    BY <1>3, FS_CardinalityType
<1> QED BY <1>1, <1>3, <1>4

\* The recursions of Worst, and of a sum: for no object they end at once.
WorstIter(IsWorse(_, _), seq, iter) ==
    iter = [s \in SUBSET DOMAIN seq |->
                IF s = {} THEN 0
                ELSE LET x == Max(s) IN
                     IF IsWorse(seq[x], iter[s \ {x}]) THEN seq[x] ELSE iter[s \ {x}]]
SumIter(seq, iter) ==
    iter = [s \in SUBSET DOMAIN seq |->
                IF s = {} THEN 0 ELSE LET x == Max(s) IN iter[s \ {x}] + seq[x]]

LEMMA WorstOfNone ==
    /\ Worst(SvcStateIsWorse, <<>>) = 0
    /\ Worst(HstStateIsWorse, <<>>) = 0
    /\ FoldLeft(LAMBDA sum, n : sum + n, 0, <<>>) = 0
<1> DEFINE zero == [s \in SUBSET DOMAIN <<>> |-> 0]
           Ends(iter) == iter[DOMAIN <<>>] = 0
           services == CHOOSE iter : WorstIter(SvcStateIsWorse, <<>>, iter)
           hosts == CHOOSE iter : WorstIter(HstStateIsWorse, <<>>, iter)
           sums == CHOOSE iter : SumIter(<<>>, iter)
<1>0. SUBSET DOMAIN <<>> = {{}} /\ DOMAIN <<>> = {}
    OBVIOUS
<1>1. WorstIter(SvcStateIsWorse, <<>>, zero)
    BY <1>0 DEF WorstIter
<1>2. WorstIter(HstStateIsWorse, <<>>, zero)
    BY <1>0 DEF WorstIter
<1>3. SumIter(<<>>, zero)
    BY <1>0 DEF SumIter
<1> HIDE DEF zero
<1>4. WorstIter(SvcStateIsWorse, <<>>, services)
    BY <1>1, Zenon
<1>5. WorstIter(HstStateIsWorse, <<>>, hosts)
    BY <1>2, Zenon
<1>6. SumIter(<<>>, sums)
    BY <1>3, Zenon
<1>7. Worst(SvcStateIsWorse, <<>>) = services[DOMAIN <<>>]
    BY DEF Worst, FoldLeft, MapThenFoldSet, WorstIter
<1>8. Worst(HstStateIsWorse, <<>>) = hosts[DOMAIN <<>>]
    BY DEF Worst, FoldLeft, MapThenFoldSet, WorstIter
<1>9. FoldLeft(LAMBDA sum, n : sum + n, 0, <<>>) = sums[DOMAIN <<>>]
    BY DEF FoldLeft, MapThenFoldSet, SumIter
<1> HIDE DEF services, hosts, sums
<1>10. services[DOMAIN <<>>] = 0
    BY <1>0, <1>4 DEF WorstIter
<1>11. hosts[DOMAIN <<>>] = 0
    BY <1>0, <1>5 DEF WorstIter
<1>12. sums[DOMAIN <<>>] = 0
    BY <1>0, <1>6 DEF SumIter
<1> QED BY <1>7, <1>8, <1>9, <1>10, <1>11, <1>12

\* Aggregates tell the number of what is seen, and no larger one.
ServicesFit(a, number) ==
    /\ a.num = number /\ a.pending \in 0 .. number
    /\ \A n \in 0 .. 3 : a.soft[n] \in 0 .. number /\ a.hard[n] \in 0 .. number
    /\ number = 0 => a.worst_soft = 0 /\ a.worst_hard = 0
HostsFit(a, number) ==
    /\ a.num = number /\ a.pending \in 0 .. number
    /\ \A n \in 0 .. 2 : a.state[n] \in 0 .. number
    /\ number = 0 => a.worst = 0

LEMMA ServiceAggregatesFit ==
    ASSUME NEW X, NEW services \in ListsOf(X), NEW a, NEW user, NEW states
    PROVE  ServicesFit(ServiceAggregates(a, user, states, services),
                       Cardinality(ServicesSeen(a, user, services)))
<1>1. PICK seen : seen = SeenServices(a, user, services)
    OBVIOUS
<1>2. seen \in Seq(X) /\ Len(seen) = Cardinality(ServicesSeen(a, user, services)) /\ Len(seen) \in Nat
    BY <1>1, SeenServicesAre
<1>3. PICK v : v = ServiceAggregates(a, user, states, services)
    OBVIOUS
<1> DEFINE pending == {n \in DOMAIN seen : ~states[seen[n]].checked}
           soft(i) == {n \in DOMAIN seen : states[seen[n]].checked /\ states[seen[n]].current = i}
           hard(i) == {n \in DOMAIN seen : states[seen[n]].checked /\ states[seen[n]].hard = i}
<1>4. /\ v.num = Len(seen) /\ v.pending = Cardinality(pending)
      /\ v.soft = [i \in 0 .. 3 |-> Cardinality(soft(i))]
      /\ v.hard = [i \in 0 .. 3 |-> Cardinality(hard(i))]
      /\ v.worst_soft = Worst(SvcStateIsWorse, [n \in DOMAIN seen |-> states[seen[n]].current])
      /\ v.worst_hard = Worst(SvcStateIsWorse, [n \in DOMAIN seen |-> states[seen[n]].hard])
    BY <1>1, <1>3 DEF ServiceAggregates, Count, Each
<1>5. v.pending \in 0 .. Len(seen)
    BY <1>2, <1>4, PartOf
<1>6. ASSUME NEW i \in 0 .. 3
      PROVE  v.soft[i] \in 0 .. Len(seen) /\ v.hard[i] \in 0 .. Len(seen)
    <2>1. soft(i) \subseteq DOMAIN seen /\ hard(i) \subseteq DOMAIN seen
        OBVIOUS
    <2>2. v.soft[i] = Cardinality(soft(i)) /\ v.hard[i] = Cardinality(hard(i))
        BY <1>4
    <2> HIDE DEF soft, hard
    <2> QED BY <1>2, <2>1, <2>2, PartOf
<1>7. Len(seen) = 0 => v.worst_soft = 0 /\ v.worst_hard = 0
    <2> SUFFICES ASSUME Len(seen) = 0 PROVE v.worst_soft = 0 /\ v.worst_hard = 0
        OBVIOUS
    <2>1. seen = <<>>
        BY <1>2
    <2>2. /\ [n \in DOMAIN seen |-> states[seen[n]].current] = <<>>
          /\ [n \in DOMAIN seen |-> states[seen[n]].hard] = <<>>
        BY <2>1
    <2> QED BY <1>4, <2>2, WorstOfNone
<1> QED BY <1>2, <1>3, <1>4, <1>5, <1>6, <1>7 DEF ServicesFit

LEMMA HostAggregatesFit ==
    ASSUME NEW X, NEW hosts \in ListsOf(X), NEW user, NEW states
    PROVE  HostsFit(HostAggregates(user, states, hosts), Cardinality(HostsSeen(user, hosts)))
<1>1. PICK seen : seen = SeenHosts(user, hosts)
    OBVIOUS
<1>2. seen \in Seq(X) /\ Len(seen) = Cardinality(HostsSeen(user, hosts)) /\ Len(seen) \in Nat
    BY <1>1, SeenHostsAre
<1>3. PICK v : v = HostAggregates(user, states, hosts)
    OBVIOUS
<1> DEFINE pending == {n \in DOMAIN seen : ~states[seen[n]].checked}
           state(i) == {n \in DOMAIN seen : states[seen[n]].checked /\ states[seen[n]].current = i}
<1>4. /\ v.num = Len(seen) /\ v.pending = Cardinality(pending)
      /\ v.state = [i \in 0 .. 2 |-> Cardinality(state(i))]
      /\ v.worst = Worst(HstStateIsWorse, [n \in DOMAIN seen |-> states[seen[n]].current])
    BY <1>1, <1>3 DEF HostAggregates, Count, Each
<1>5. v.pending \in 0 .. Len(seen)
    BY <1>2, <1>4, PartOf
<1>6. ASSUME NEW i \in 0 .. 2
      PROVE  v.state[i] \in 0 .. Len(seen)
    <2>1. state(i) \subseteq DOMAIN seen
        OBVIOUS
    <2>2. v.state[i] = Cardinality(state(i))
        BY <1>4
    <2> HIDE DEF state
    <2> QED BY <1>2, <2>1, <2>2, PartOf
<1>7. Len(seen) = 0 => v.worst = 0
    <2> SUFFICES ASSUME Len(seen) = 0 PROVE v.worst = 0
        OBVIOUS
    <2>1. seen = <<>>
        BY <1>2
    <2>2. [n \in DOMAIN seen |-> states[seen[n]].current] = <<>>
        BY <2>1
    <2> QED BY <1>4, <2>2, WorstOfNone
<1> QED BY <1>2, <1>3, <1>4, <1>5, <1>6, <1>7 DEF HostsFit

-----------------------------------------------------------------------------
(* The rows of the tables                                                  *)

RowsOf(table) ==
    CASE table = "hosts"               -> {HostRow(NoObject, h) : h \in DOMAIN HostContacts}
      [] table = "hostsbygroup"        -> {HostRow(g, h) : g \in DOMAIN Hostgroups, h \in DOMAIN HostContacts}
      [] table = "services"            -> {ServiceRow(NoObject, s) : s \in DOMAIN HostOf}
      [] table = "servicesbygroup"     -> {ServiceRow(g, s) : g \in DOMAIN Servicegroups, s \in DOMAIN HostOf}
      [] table = "servicesbyhostgroup" -> {ServiceRow(g, s) : g \in DOMAIN Hostgroups, s \in DOMAIN HostOf}
      [] table = "hostgroups"          -> {Row(g, NoObject, NoObject) : g \in DOMAIN Hostgroups}
      [] table = "servicegroups"       -> {Row(g, NoObject, NoObject) : g \in DOMAIN Servicegroups}

\* What a row is, whatever its table: of a host or not, of a service or not, of a group
\* of the table's kind or of none.
RowFits(table, r) ==
    /\ IF table \in {"hostgroups", "servicegroups"} THEN r.host = NoObject
       ELSE r.host \in DOMAIN HostContacts /\ r.host # NoObject
    /\ IF table \in ServiceTables THEN r.service \in DOMAIN HostOf /\ r.service # NoObject
       ELSE r.service = NoObject
    /\ table \in HostgroupTables => r.group \in DOMAIN Hostgroups
    /\ table \in ServicegroupTables => r.group \in DOMAIN Servicegroups /\ r.group \notin DOMAIN Hostgroups

LEMMA RowsFit ==
    ASSUME NEW table \in Tables, NEW r \in RowsOf(table)
    PROVE  RowFits(table, r)
<1>1. CASE table = "hosts"
    <2>1. PICK h \in DOMAIN HostContacts : r = HostRow(NoObject, h)
        BY <1>1 DEF RowsOf
    <2> QED BY <1>1, <2>1, ObjectsAssumption
            DEF RowFits, HostRow, Row, ServiceTables, HostgroupTables, ServicegroupTables
<1>2. CASE table = "hostsbygroup"
    <2>1. PICK g \in DOMAIN Hostgroups, h \in DOMAIN HostContacts : r = HostRow(g, h)
        BY <1>2 DEF RowsOf
    <2> QED BY <1>2, <2>1, ObjectsAssumption
            DEF RowFits, HostRow, Row, ServiceTables, HostgroupTables, ServicegroupTables
<1>3. CASE table = "services"
    <2>1. PICK s \in DOMAIN HostOf : r = ServiceRow(NoObject, s)
        BY <1>3 DEF RowsOf
    <2>2. r.host = HostOf[s] /\ r.service = s /\ HostOf[s] \in DOMAIN HostContacts
        BY <2>1, VisibilityAssumption DEF ServiceRow, Row
    <2> QED BY <1>3, <2>1, <2>2, ObjectsAssumption
            DEF RowFits, ServiceTables, HostgroupTables, ServicegroupTables
<1>4. CASE table = "servicesbygroup"
    <2>1. PICK g \in DOMAIN Servicegroups, s \in DOMAIN HostOf : r = ServiceRow(g, s)
        BY <1>4 DEF RowsOf
    <2>2. r.group = g /\ r.host = HostOf[s] /\ r.service = s /\ HostOf[s] \in DOMAIN HostContacts
        BY <2>1, VisibilityAssumption DEF ServiceRow, Row
    <2>3. g \notin DOMAIN Hostgroups
        BY ObjectsAssumption
    <2> QED BY <1>4, <2>1, <2>2, <2>3, ObjectsAssumption
            DEF RowFits, ServiceTables, HostgroupTables, ServicegroupTables
<1>5. CASE table = "servicesbyhostgroup"
    <2>1. PICK g \in DOMAIN Hostgroups, s \in DOMAIN HostOf : r = ServiceRow(g, s)
        BY <1>5 DEF RowsOf
    <2>2. r.group = g /\ r.host = HostOf[s] /\ r.service = s /\ HostOf[s] \in DOMAIN HostContacts
        BY <2>1, VisibilityAssumption DEF ServiceRow, Row
    <2> QED BY <1>5, <2>1, <2>2, ObjectsAssumption
            DEF RowFits, ServiceTables, HostgroupTables, ServicegroupTables
<1>6. CASE table = "hostgroups"
    <2>1. PICK g \in DOMAIN Hostgroups : r = Row(g, NoObject, NoObject)
        BY <1>6 DEF RowsOf
    <2> QED BY <1>6, <2>1 DEF RowFits, Row, ServiceTables, HostgroupTables, ServicegroupTables
<1>7. CASE table = "servicegroups"
    <2>1. PICK g \in DOMAIN Servicegroups : r = Row(g, NoObject, NoObject)
        BY <1>7 DEF RowsOf
    <2>2. g \notin DOMAIN Hostgroups
        BY ObjectsAssumption
    <2> QED BY <1>7, <2>1, <2>2 DEF RowFits, Row, ServiceTables, HostgroupTables, ServicegroupTables
<1> QED BY <1>1, <1>2, <1>3, <1>4, <1>5, <1>6, <1>7 DEF Tables, HostTables, ServiceTables

\* What the core says of the lists.
LEMMA CoreLists ==
    /\ \A g \in DOMAIN Hostgroups : Hostgroups[g] \in ListsOf(DOMAIN HostContacts)
    /\ \A g \in DOMAIN Hostgroups : Hostgroups[g] \in Seq(DOMAIN HostContacts)
    /\ \A g \in DOMAIN Servicegroups : Servicegroups[g] \in ListsOf(DOMAIN HostOf)
    /\ \A g \in DOMAIN Servicegroups : Servicegroups[g] \in Seq(DOMAIN HostOf)
    /\ \A h \in DOMAIN HostContacts : ServicesOf[h] \in ListsOf(DOMAIN HostOf)
    /\ \A h \in DOMAIN HostContacts : ServicesOf[h] \in Seq(DOMAIN HostOf)
    /\ HostList \in Seq(DOMAIN HostContacts) /\ ServiceList \in Seq(DOMAIN HostOf)
    /\ HostgroupList \in Seq(DOMAIN Hostgroups) /\ ServicegroupList \in Seq(DOMAIN Servicegroups)
BY ObjectsAssumption DEF ListsOf

\* A row of each member of a list.
LEMMA MappedSeq ==
    ASSUME NEW X, NEW Y, NEW list \in Seq(X), NEW image,
           DOMAIN image = DOMAIN list, image = [n \in DOMAIN list |-> image[n]],
           \A n \in 1 .. Len(list) : image[n] \in Y
    PROVE  image \in Seq(Y)
<1>1. Len(list) \in Nat /\ DOMAIN list = 1 .. Len(list)
    OBVIOUS
<1>2. PICK m \in Nat : m = Len(list)
    BY <1>1
<1>3. image \in [1 .. m -> Y]
    BY <1>1, <1>2
<1> QED BY <1>3

\* The recursion of FlattenSeq.
Flattens(seqs, flatten) ==
    flatten = [i \in 1 .. Len(seqs) |-> IF i = 1 THEN seqs[i] ELSE flatten[i - 1] \o seqs[i]]

LEMMA FlattenIs ==
    ASSUME NEW X, NEW seqs \in Seq(Seq(X))
    PROVE  FlattenSeq(seqs) \in Seq(X)
<1>1. Len(seqs) \in Nat /\ \A n \in 1 .. Len(seqs) : seqs[n] \in Seq(X)
    OBVIOUS
<1>2. CASE Len(seqs) = 0
    <2>1. FlattenSeq(seqs) = seqs /\ seqs = <<>>
        BY <1>2 DEF FlattenSeq
    <2> QED BY <2>1
<1>3. CASE Len(seqs) # 0
    <2>0. 1 \in 1 .. Len(seqs) /\ Len(seqs) \in 1 .. Len(seqs)
        BY <1>1, <1>3
    <2> DEFINE V == Seq(X)
               grown(n, v) == v \o seqs[n]
               step == [n \in 1 .. Len(seqs) |-> [v \in V |-> grown(n, v)]]
               flatten == CHOOSE f : Flattens(seqs, f)
               T == {n \in 1 .. Len(seqs) : flatten[n] \in V}
    <2>1. \A n \in 1 .. Len(seqs) : \A v \in V : grown(n, v) \in V
        BY <1>1
    <2>2. seqs[1] \in V
        BY <1>1, <2>0
    <2> HIDE DEF grown, V
    <2>3. \A n \in 1 .. Len(seqs) : step[n] \in [V -> V] /\ \A v \in V : step[n][v] = grown(n, v)
        BY <2>1
    <2> HIDE DEF step
    <2>4. \A n \in 1 .. Len(seqs) : n # 1 => step[n] \in [V -> V]
        BY <2>3
    <2>5. PICK f \in [1 .. Len(seqs) -> V] : Counts(f, 1, Len(seqs), seqs[1], step)
        BY <1>1, <2>2, <2>4, CountingExists
    <2>6. \A n \in 1 .. Len(seqs) : f[n] = IF n = 1 THEN seqs[n] ELSE grown(n, f[n - 1])
        <3> TAKE n \in 1 .. Len(seqs)
        <3>1. CASE n = 1
            BY <2>5, <3>1 DEF Counts
        <3>2. CASE n # 1
            <4>1. n - 1 \in 1 .. Len(seqs)
                BY <1>1, <3>2
            <4>2. f[n - 1] \in V
                BY <2>5, <4>1
            <4> QED BY <2>3, <2>5, <3>2, <4>1, <4>2 DEF Counts
        <3> QED BY <3>1, <3>2
    <2>7. f = [n \in 1 .. Len(seqs) |-> f[n]]
        BY <2>5
    <2>8. Flattens(seqs, f)
        BY <2>6, <2>7 DEF Flattens, grown
    <2>9. Flattens(seqs, flatten)
        BY <2>8, Zenon
    <2>10. FlattenSeq(seqs) = flatten[Len(seqs)]
        BY <1>3 DEF FlattenSeq, Flattens
    <2> HIDE DEF flatten
    <2>11. \A n \in 1 .. Len(seqs) : n = 1 \/ n - 1 \in T => n \in T
        <3> TAKE n \in 1 .. Len(seqs)
        <3>1. flatten[n] = IF n = 1 THEN seqs[n] ELSE grown(n, flatten[n - 1])
            BY <2>9 DEF Flattens, grown
        <3> QED BY <2>1, <2>2, <3>1
    <2>12. \A n \in 1 .. Len(seqs) : n \in T
        BY <1>1, <2>11, CountingInduction
    <2>13. flatten[Len(seqs)] \in V
        BY <2>0, <2>12
    <2> QED BY <2>10, <2>13 DEF V
<1> QED BY <1>2, <1>3

LEMMA HostRowsAre ==
    ASSUME NEW g, NEW hosts \in Seq(DOMAIN HostContacts)
    PROVE  HostRows(g, hosts) \in Seq({HostRow(g, h) : h \in DOMAIN HostContacts})
<1>1. \A n \in 1 .. Len(hosts) : HostRows(g, hosts)[n] \in {HostRow(g, h) : h \in DOMAIN HostContacts}
    BY DEF HostRows
<1>2. /\ DOMAIN HostRows(g, hosts) = DOMAIN hosts
      /\ HostRows(g, hosts) = [n \in DOMAIN hosts |-> HostRows(g, hosts)[n]]
    BY DEF HostRows
<1> QED BY <1>1, <1>2, MappedSeq

LEMMA ServiceRowsAre ==
    ASSUME NEW g, NEW services \in Seq(DOMAIN HostOf)
    PROVE  ServiceRows(g, services) \in Seq({ServiceRow(g, s) : s \in DOMAIN HostOf})
<1>1. \A n \in 1 .. Len(services) :
            ServiceRows(g, services)[n] \in {ServiceRow(g, s) : s \in DOMAIN HostOf}
    BY DEF ServiceRows
<1>2. /\ DOMAIN ServiceRows(g, services) = DOMAIN services
      /\ ServiceRows(g, services) = [n \in DOMAIN services |-> ServiceRows(g, services)[n]]
    BY DEF ServiceRows
<1> QED BY <1>1, <1>2, MappedSeq

\* Rows of a table are rows of that table, however it is walked.
LEMMA HostRowLists ==
    ASSUME NEW index, IndexFits("hosts", index)
    PROVE  HostLists(index) \in Seq(Seq(RowsOf("hosts")))
<1> DEFINE list == IF index = <<>> THEN HostList ELSE Hostgroups[index[2]]
<1>1. list \in Seq(DOMAIN HostContacts)
    <2>1. index = <<>> \/ index[2] \in DOMAIN Hostgroups
        BY DEF IndexFits
    <2> QED BY <2>1, CoreLists
<1>2. HostLists(index) = <<HostRows(NoObject, list)>>
    BY DEF HostLists
<1> HIDE DEF list
<1>3. RowsOf("hosts") = {HostRow(NoObject, h) : h \in DOMAIN HostContacts}
    BY DEF RowsOf
<1>4. HostRows(NoObject, list) \in Seq(RowsOf("hosts"))
    BY <1>1, <1>3, HostRowsAre
<1> QED BY <1>2, <1>4

LEMMA HostByGroupRowLists == HostByGroupLists \in Seq(Seq(RowsOf("hostsbygroup")))
<1> DEFINE lists == HostByGroupLists
<1>1. lists = [n \in DOMAIN HostgroupList |-> HostRows(HostgroupList[n], Hostgroups[HostgroupList[n]])]
    BY DEF HostByGroupLists, Each
<1> HIDE DEF lists
<1>2. ASSUME NEW n \in 1 .. Len(HostgroupList)
      PROVE  lists[n] \in Seq(RowsOf("hostsbygroup"))
    <2>1. PICK g \in DOMAIN Hostgroups : g = HostgroupList[n]
        BY CoreLists
    <2>2. lists[n] = HostRows(g, Hostgroups[g])
        BY <1>1, <2>1, CoreLists
    <2>3. lists[n] \in Seq({HostRow(g, h) : h \in DOMAIN HostContacts})
        BY <2>2, CoreLists, HostRowsAre
    <2>4. {HostRow(g, h) : h \in DOMAIN HostContacts} \subseteq RowsOf("hostsbygroup")
        BY DEF RowsOf
    <2> QED BY <2>3, <2>4
<1>3. DOMAIN lists = DOMAIN HostgroupList /\ lists = [n \in DOMAIN HostgroupList |-> lists[n]]
    BY <1>1
<1>4. lists \in Seq(Seq(RowsOf("hostsbygroup")))
    BY <1>2, <1>3, CoreLists, MappedSeq
<1> QED BY <1>4 DEF lists

\* The services of each host of a group.
LEMMA ServicesOfHosts ==
    ASSUME NEW g, NEW hosts \in Seq(DOMAIN HostContacts)
    PROVE  Each(hosts, LAMBDA h : ServiceRows(g, ServicesOf[h]))
                \in Seq(Seq({ServiceRow(g, s) : s \in DOMAIN HostOf}))
<1> DEFINE rows == {ServiceRow(g, s) : s \in DOMAIN HostOf}
           lists == [n \in DOMAIN hosts |-> ServiceRows(g, ServicesOf[hosts[n]])]
<1>1. Each(hosts, LAMBDA h : ServiceRows(g, ServicesOf[h])) = lists
    BY DEF Each
<1>2. ASSUME NEW n \in 1 .. Len(hosts)
      PROVE  lists[n] \in Seq(rows)
    <2>1. PICK h \in DOMAIN HostContacts : h = hosts[n]
        OBVIOUS
    <2>2. lists[n] = ServiceRows(g, ServicesOf[h])
        BY <2>1
    <2> QED BY <2>2, CoreLists, ServiceRowsAre
<1>3. DOMAIN lists = DOMAIN hosts /\ lists = [n \in DOMAIN hosts |-> lists[n]]
    OBVIOUS
<1> HIDE DEF lists, rows
<1>4. lists \in Seq(Seq(rows))
    BY <1>2, <1>3, MappedSeq
<1> QED BY <1>1, <1>4 DEF rows

LEMMA ServiceRowLists ==
    ASSUME NEW index, IndexFits("services", index)
    PROVE  ServiceLists(index) \in Seq(Seq(RowsOf("services")))
<1> DEFINE rows == {ServiceRow(NoObject, s) : s \in DOMAIN HostOf}
<1>1. RowsOf("services") = rows
    BY DEF RowsOf
<1>2. \A services \in Seq(DOMAIN HostOf) : ServiceRows(NoObject, services) \in Seq(rows)
    BY ServiceRowsAre
<1>3. \A hosts \in Seq(DOMAIN HostContacts) :
            Each(hosts, LAMBDA h : ServiceRows(NoObject, ServicesOf[h])) \in Seq(Seq(rows))
    BY ServicesOfHosts
<1> HIDE DEF rows
<1>4. CASE index = <<>>
    <2>1. ServiceLists(index) = <<ServiceRows(NoObject, ServiceList)>>
        BY <1>4 DEF ServiceLists
    <2> QED BY <1>1, <1>2, <2>1, CoreLists
<1>5. CASE index # <<>> /\ index[1] = "host_name"
    <2>1. ServiceLists(index) = IF index[2] \notin DOMAIN ServicesOf THEN <<>>
                                ELSE <<ServiceRows(NoObject, ServicesOf[index[2]])>>
        BY <1>5 DEF ServiceLists
    <2>2. DOMAIN ServicesOf = DOMAIN HostContacts
        BY ObjectsAssumption
    <2>3. CASE index[2] \in DOMAIN ServicesOf
        <3>1. ServicesOf[index[2]] \in Seq(DOMAIN HostOf)
            BY <2>2, <2>3, CoreLists
        <3> QED BY <1>1, <1>2, <2>1, <2>3, <3>1
    <2>4. CASE index[2] \notin DOMAIN ServicesOf
        BY <2>1, <2>4
    <2> QED BY <2>3, <2>4
<1>6. CASE index \in {"groups"} \X DOMAIN Servicegroups
    <2>1. index # <<>> /\ index[1] = "groups" /\ index[2] \in DOMAIN Servicegroups
        BY <1>6
    <2>2. ServiceLists(index) = <<ServiceRows(NoObject, Servicegroups[index[2]])>>
        BY <2>1 DEF ServiceLists
    <2> QED BY <1>1, <1>2, <2>1, <2>2, CoreLists
<1>7. CASE index \in {"host_groups"} \X DOMAIN Hostgroups
    <2>1. index # <<>> /\ index[1] = "host_groups" /\ index[2] \in DOMAIN Hostgroups
        BY <1>7
    <2>2. ServiceLists(index) = Each(Hostgroups[index[2]], LAMBDA h : ServiceRows(NoObject, ServicesOf[h]))
        BY <2>1 DEF ServiceLists
    <2> QED BY <1>1, <1>3, <2>1, <2>2, CoreLists
<1> QED BY <1>4, <1>5, <1>6, <1>7 DEF IndexFits

LEMMA ServiceByGroupRowLists == ServiceByGroupLists \in Seq(Seq(RowsOf("servicesbygroup")))
<1> DEFINE lists == ServiceByGroupLists
<1>1. lists = [n \in DOMAIN ServicegroupList |->
                    ServiceRows(ServicegroupList[n], Servicegroups[ServicegroupList[n]])]
    BY DEF ServiceByGroupLists, Each
<1> HIDE DEF lists
<1>2. ASSUME NEW n \in 1 .. Len(ServicegroupList)
      PROVE  lists[n] \in Seq(RowsOf("servicesbygroup"))
    <2>1. PICK g \in DOMAIN Servicegroups : g = ServicegroupList[n]
        BY CoreLists
    <2>2. lists[n] = ServiceRows(g, Servicegroups[g])
        BY <1>1, <2>1, CoreLists
    <2>3. lists[n] \in Seq({ServiceRow(g, s) : s \in DOMAIN HostOf})
        BY <2>2, CoreLists, ServiceRowsAre
    <2>4. {ServiceRow(g, s) : s \in DOMAIN HostOf} \subseteq RowsOf("servicesbygroup")
        BY DEF RowsOf
    <2> QED BY <2>3, <2>4
<1>3. DOMAIN lists = DOMAIN ServicegroupList /\ lists = [n \in DOMAIN ServicegroupList |-> lists[n]]
    BY <1>1
<1>4. lists \in Seq(Seq(RowsOf("servicesbygroup")))
    BY <1>2, <1>3, CoreLists, MappedSeq
<1> QED BY <1>4 DEF lists

LEMMA ServiceByHostgroupRowLists ==
    ServiceByHostgroupLists \in Seq(Seq(RowsOf("servicesbyhostgroup")))
<1> DEFINE of(g) == Each(Hostgroups[g], LAMBDA h : ServiceRows(g, ServicesOf[h]))
           lists == [n \in DOMAIN HostgroupList |-> of(HostgroupList[n])]
           rows == RowsOf("servicesbyhostgroup")
<1>1. ServiceByHostgroupLists = FlattenSeq(lists)
    BY DEF ServiceByHostgroupLists, Each
<1>2. ASSUME NEW g \in DOMAIN Hostgroups
      PROVE  of(g) \in Seq(Seq(rows))
    <2>1. of(g) \in Seq(Seq({ServiceRow(g, s) : s \in DOMAIN HostOf}))
        BY CoreLists, ServicesOfHosts
    <2>2. {ServiceRow(g, s) : s \in DOMAIN HostOf} \subseteq rows
        BY DEF RowsOf
    <2> HIDE DEF of, rows
    <2> QED BY <2>1, <2>2
<1> HIDE DEF of, rows
<1>3. ASSUME NEW n \in 1 .. Len(HostgroupList)
      PROVE  lists[n] \in Seq(Seq(rows))
    <2>1. PICK g \in DOMAIN Hostgroups : g = HostgroupList[n]
        BY CoreLists
    <2>2. lists[n] = of(g)
        BY <2>1, CoreLists
    <2> QED BY <1>2, <2>2
<1>4. DOMAIN lists = DOMAIN HostgroupList /\ lists = [n \in DOMAIN HostgroupList |-> lists[n]]
    OBVIOUS
<1> HIDE DEF lists
<1>5. lists \in Seq(Seq(Seq(rows)))
    BY <1>3, <1>4, CoreLists, MappedSeq
<1> QED BY <1>1, <1>5, FlattenIs DEF rows

LEMMA GroupRowLists ==
    /\ HostgroupLists \in Seq(Seq(RowsOf("hostgroups")))
    /\ ServicegroupLists \in Seq(Seq(RowsOf("servicegroups")))
<1>1. ASSUME NEW X, NEW list \in Seq(X), NEW rows, rows = {Row(g, NoObject, NoObject) : g \in X}
      PROVE  Each(list, LAMBDA g : Row(g, NoObject, NoObject)) \in Seq(rows)
    <2> DEFINE image == [n \in DOMAIN list |-> Row(list[n], NoObject, NoObject)]
    <2>1. Each(list, LAMBDA g : Row(g, NoObject, NoObject)) = image
        BY DEF Each
    <2>2. \A n \in 1 .. Len(list) : image[n] \in rows
        BY <1>1
    <2>3. DOMAIN image = DOMAIN list /\ image = [n \in DOMAIN list |-> image[n]]
        OBVIOUS
    <2> HIDE DEF image
    <2> QED BY <2>1, <2>2, <2>3, MappedSeq
<1>2. /\ RowsOf("hostgroups") = {Row(g, NoObject, NoObject) : g \in DOMAIN Hostgroups}
      /\ RowsOf("servicegroups") = {Row(g, NoObject, NoObject) : g \in DOMAIN Servicegroups}
    BY DEF RowsOf
<1>3. Each(HostgroupList, LAMBDA g : Row(g, NoObject, NoObject)) \in Seq(RowsOf("hostgroups"))
    BY <1>1, <1>2, CoreLists
<1>4. Each(ServicegroupList, LAMBDA g : Row(g, NoObject, NoObject)) \in Seq(RowsOf("servicegroups"))
    BY <1>1, <1>2, CoreLists
<1> QED BY <1>3, <1>4 DEF HostgroupLists, ServicegroupLists

LEMMA RowListsAre ==
    ASSUME NEW r \in Requests
    PROVE  RowLists(r) \in Seq(Seq(RowsOf(r.table)))
<1>1. r.table \in Tables /\ IndexFits(r.table, r.index)
    BY RequestsAssumption
<1>2. CASE r.table = "hosts"
    BY <1>1, <1>2, HostRowLists DEF RowLists
<1>3. CASE r.table = "hostsbygroup"
    BY <1>3, HostByGroupRowLists DEF RowLists
<1>4. CASE r.table = "services"
    BY <1>1, <1>4, ServiceRowLists DEF RowLists
<1>5. CASE r.table = "servicesbygroup"
    BY <1>5, ServiceByGroupRowLists DEF RowLists
<1>6. CASE r.table = "servicesbyhostgroup"
    BY <1>6, ServiceByHostgroupRowLists DEF RowLists
<1>7. CASE r.table = "hostgroups"
    BY <1>7, GroupRowLists DEF RowLists
<1>8. CASE r.table = "servicegroups"
    BY <1>8, GroupRowLists DEF RowLists
<1> QED BY <1>1, <1>2, <1>3, <1>4, <1>5, <1>6, <1>7, <1>8 DEF Tables, HostTables, ServiceTables

-----------------------------------------------------------------------------
(* Authorization                                                           *)

\* What a contact sees of a list is what it may see.
LEMMA VisibleIs ==
    ASSUME auth \in Auths
    PROVE  /\ \A s : SeesService(auth, query.user, s) <=> MaySee(s)
           /\ \A h : SeesHost(query.user, h) <=> (query.user = NoUser \/ query.user \in HostContacts[h])
           /\ \A g : VisibleHosts(g) = HostsSeen(query.user, Hostgroups[g])
           /\ \A list : VisibleServices(list) = ServicesSeen(auth, query.user, Members(list))
<1>1. auth.service \in {"loose", "strict"}
    BY DEF Auths, Levels
<1>2. \A s : SeesService(auth, query.user, s) <=> MaySee(s)
    BY <1>1 DEF SeesService, MaySee
<1>3. \A h : SeesHost(query.user, h) <=> (query.user = NoUser \/ query.user \in HostContacts[h])
    BY DEF SeesHost
<1>4. \A g : VisibleHosts(g) = HostsSeen(query.user, Hostgroups[g])
    BY <1>3 DEF VisibleHosts, HostsSeen
<1>5. \A list : VisibleServices(list) = ServicesSeen(auth, query.user, Members(list))
    BY <1>2 DEF VisibleServices, ServicesSeen
<1> QED BY <1>2, <1>3, <1>4, <1>5

\* With strict authorization of groups all members are seen, otherwise one is.
LEMMA GroupSeen ==
    ASSUME auth \in Auths, NEW X, NEW list \in Seq(X), NEW seen,
           DOMAIN seen = DOMAIN list, SeesGroup(auth, seen),
           seen = [n \in DOMAIN list |-> seen[n]],
           NEW visible, visible = {list[n] : n \in {m \in DOMAIN list : seen[m]}}
    PROVE  visible # {} /\ (auth.group = "strict" => visible = ToSet(list))
<1>1. auth.group \in {"loose", "strict"}
    BY DEF Auths, Levels
<1>2. DOMAIN list = 1 .. Len(list) /\ Len(list) \in Nat
    OBVIOUS
<1>3. DOMAIN list # {}
    <2>1. SUFFICES ASSUME DOMAIN list = {} PROVE FALSE
        OBVIOUS
    <2>2. seen = <<>>
        BY <2>1
    <2> QED BY <2>2 DEF SeesGroup
<1>4. CASE auth.group = "loose"
    BY <1>4 DEF SeesGroup
<1>5. CASE auth.group = "strict"
    <2>1. \A n \in DOMAIN list : seen[n]
        BY <1>5 DEF SeesGroup
    <2>2. {m \in DOMAIN list : seen[m]} = DOMAIN list
        BY <2>1
    <2> QED BY <1>3, <2>2 DEF ToSet
<1> QED BY <1>1, <1>4, <1>5

\* A row that the table lets the contact have is one that it may see.
LEMMA AuthorizedRow ==
    ASSUME auth \in Auths, request \in Requests, NEW r \in RowsOf(request.table), IsAuthorized(r)
    PROVE  MaySeeRow(r)
<1>1. request.table \in Tables /\ RowFits(request.table, r)
    BY RequestsAssumption, RowsFit
<1>2. CASE request.table = "hostgroups"
    <2>1. r.host = NoObject /\ r.group \in DOMAIN Hostgroups
        BY <1>1, <1>2 DEF RowFits, HostgroupTables
    <2>2. SeesHostgroup(auth, query.user, r.group)
        BY <1>2 DEF IsAuthorized, HostTables, ServiceTables
    <2>3. CASE query.user = NoUser
        BY <2>1, <2>3 DEF MaySeeRow, MaySeeMembers
    <2>4. CASE query.user # NoUser
        <3>1. PICK list \in Seq(DOMAIN HostContacts) : list = Hostgroups[r.group]
            BY <2>1, CoreLists
        <3>2. PICK seen : seen = [n \in DOMAIN list |-> SeesHost(query.user, list[n])]
            OBVIOUS
        <3>3. SeesGroup(auth, seen)
            BY <2>2, <2>4, <3>1, <3>2 DEF SeesHostgroup
        <3>4. DOMAIN seen = DOMAIN list /\ seen = [n \in DOMAIN list |-> seen[n]]
            BY <3>2
        <3>5. VisibleHosts(r.group) = {list[n] : n \in {m \in DOMAIN list : seen[m]}}
            BY <3>1, <3>2, VisibleIs DEF HostsSeen, ToSet
        <3>6. VisibleHosts(r.group) # {} /\ (auth.group = "strict" => VisibleHosts(r.group) = ToSet(list))
            BY <3>3, <3>4, <3>5, GroupSeen
        <3> QED BY <2>1, <3>1, <3>6 DEF MaySeeRow, MaySeeMembers
    <2> QED BY <2>3, <2>4
<1>3. CASE request.table = "servicegroups"
    <2>1. r.host = NoObject /\ r.group \in DOMAIN Servicegroups /\ r.group \notin DOMAIN Hostgroups
        BY <1>1, <1>3 DEF RowFits, ServicegroupTables
    <2>2. SeesServicegroup(auth, query.user, r.group)
        BY <1>3 DEF IsAuthorized, HostTables, ServiceTables
    <2>3. CASE query.user = NoUser
        BY <2>1, <2>3 DEF MaySeeRow, MaySeeMembers
    <2>4. CASE query.user # NoUser
        <3>1. PICK list \in Seq(DOMAIN HostOf) : list = Servicegroups[r.group]
            BY <2>1, CoreLists
        <3>2. PICK seen : seen = [n \in DOMAIN list |-> SeesService(auth, query.user, list[n])]
            OBVIOUS
        <3>3. SeesGroup(auth, seen)
            BY <2>2, <2>4, <3>1, <3>2 DEF SeesServicegroup
        <3>4. DOMAIN seen = DOMAIN list /\ seen = [n \in DOMAIN list |-> seen[n]]
            BY <3>2
        <3>5. PICK visible : visible = VisibleServices(<<"servicegroup", r.group>>)
            OBVIOUS
        <3>6. Members(<<"servicegroup", r.group>>) = list
            BY <3>1 DEF Members
        <3>7. visible = {list[n] : n \in {m \in DOMAIN list : seen[m]}}
            BY <3>2, <3>5, <3>6, VisibleIs DEF ServicesSeen, ToSet
        <3>8. visible # {} /\ (auth.group = "strict" => visible = ToSet(list))
            BY <3>3, <3>4, <3>7, GroupSeen
        <3> QED BY <2>1, <3>1, <3>5, <3>8 DEF MaySeeRow, MaySeeMembers
    <2> QED BY <2>3, <2>4
<1>4. CASE request.table \notin {"hostgroups", "servicegroups"}
    <2>1. r.host # NoObject
        BY <1>1, <1>4 DEF RowFits
    <2>2. CASE request.table \in HostTables
        <3>1. request.table \notin ServiceTables
            BY <2>2 DEF HostTables, ServiceTables
        <3>2. SeesHost(query.user, r.host)
            BY <1>4, <2>2, <3>1 DEF IsAuthorized
        <3>3. r.service = NoObject
            BY <1>1, <3>1 DEF RowFits
        <3> QED BY <2>1, <3>2, <3>3, VisibleIs DEF MaySeeRow
    <2>3. CASE request.table \in ServiceTables
        <3>1. request.table \notin HostTables
            BY <2>3 DEF HostTables, ServiceTables
        <3>2. SeesService(auth, query.user, r.service)
            BY <1>4, <2>3, <3>1 DEF IsAuthorized
        <3>3. r.service # NoObject
            BY <1>1, <2>3 DEF RowFits
        <3> QED BY <2>1, <3>2, <3>3, VisibleIs DEF MaySeeRow
    <2> QED BY <1>1, <1>4, <2>2, <2>3 DEF Tables
<1> QED BY <1>2, <1>3, <1>4

-----------------------------------------------------------------------------
(* What the columns tell                                                   *)

\* What the query knows of a list is what may be known of it.
AggregateFits(list, a) ==
    IF list[1] = "hostgroup" THEN HostsFit(a, Cardinality(VisibleHosts(list[2])))
    ELSE ServicesFit(a, Cardinality(VisibleServices(list)))
AggregatesFit(known) == \A list \in DOMAIN known : AggregateFits(list, known[list])

\* The lists that a column may ask for.
ServiceListFits(list) ==
    \/ \E h \in DOMAIN HostContacts : list = <<"host", h>>
    \/ \E g \in DOMAIN Servicegroups : list = <<"servicegroup", g>>

LEMMA MembersAre ==
    ASSUME NEW list, ServiceListFits(list)
    PROVE  Members(list) \in ListsOf(DOMAIN HostOf) /\ list[1] # "hostgroup"
<1>1. CASE \E h \in DOMAIN HostContacts : list = <<"host", h>>
    <2>1. PICK h \in DOMAIN HostContacts : list = <<"host", h>>
        BY <1>1
    <2>2. Members(list) = ServicesOf[h]
        BY <2>1 DEF Members
    <2> QED BY <2>1, <2>2, CoreLists
<1>2. CASE \E g \in DOMAIN Servicegroups : list = <<"servicegroup", g>>
    <2>1. PICK g \in DOMAIN Servicegroups : list = <<"servicegroup", g>>
        BY <1>2
    <2>2. Members(list) = Servicegroups[g]
        BY <2>1 DEF Members
    <2> QED BY <2>1, <2>2, CoreLists
<1> QED BY <1>1, <1>2 DEF ServiceListFits

\* Numbers of what may be seen.
LEMMA NumbersVisible ==
    ASSUME auth \in Auths
    PROVE  /\ \A list : ServiceListFits(list) => Cardinality(VisibleServices(list)) \in Nat
           /\ \A g \in DOMAIN Hostgroups : Cardinality(VisibleHosts(g)) \in Nat
<1>1. ASSUME NEW list, ServiceListFits(list)
      PROVE  Cardinality(VisibleServices(list)) \in Nat
    <2>1. PICK services \in ListsOf(DOMAIN HostOf) : services = Members(list)
        BY <1>1, MembersAre
    <2>2. PICK seen : seen = SeenServices(auth, query.user, services)
        OBVIOUS
    <2>3. seen \in Seq(DOMAIN HostOf) /\ Len(seen) = Cardinality(ServicesSeen(auth, query.user, services))
        BY <2>2, SeenServicesAre
    <2> QED BY <2>1, <2>3, VisibleIs
<1>2. ASSUME NEW g \in DOMAIN Hostgroups
      PROVE  Cardinality(VisibleHosts(g)) \in Nat
    <2>1. PICK hosts \in ListsOf(DOMAIN HostContacts) : hosts = Hostgroups[g]
        BY CoreLists
    <2>2. PICK seen : seen = SeenHosts(query.user, hosts)
        OBVIOUS
    <2>3. seen \in Seq(DOMAIN HostContacts) /\ Len(seen) = Cardinality(HostsSeen(query.user, hosts))
        BY <2>2, SeenHostsAre
    <2> QED BY <2>1, <2>3, VisibleIs
<1> QED BY <1>1, <1>2

LEMMA ServicesKnown ==
    ASSUME auth \in Auths, NEW list, ServiceListFits(list)
    PROVE  AggregateFits(list, ServiceAggregates(auth, query.user, service, Members(list)))
<1>1. PICK services \in ListsOf(DOMAIN HostOf) : services = Members(list) /\ list[1] # "hostgroup"
    BY MembersAre
<1>2. ServicesFit(ServiceAggregates(auth, query.user, service, services),
                  Cardinality(ServicesSeen(auth, query.user, services)))
    BY ServiceAggregatesFit
<1>3. VisibleServices(list) = ServicesSeen(auth, query.user, services)
    BY <1>1, VisibleIs
<1> QED BY <1>1, <1>2, <1>3 DEF AggregateFits

LEMMA HostsKnown ==
    ASSUME auth \in Auths, NEW g \in DOMAIN Hostgroups
    PROVE  AggregateFits(<<"hostgroup", g>>, HostAggregates(query.user, host, Hostgroups[g]))
<1>1. PICK hosts \in ListsOf(DOMAIN HostContacts) : hosts = Hostgroups[g]
    BY CoreLists
<1>2. HostsFit(HostAggregates(query.user, host, hosts), Cardinality(HostsSeen(query.user, hosts)))
    BY HostAggregatesFit
<1>3. VisibleHosts(g) = HostsSeen(query.user, hosts)
    BY <1>1, VisibleIs
<1> QED BY <1>1, <1>2, <1>3 DEF AggregateFits

\* What is learnt of a list is added to what is known, and never replaces it.
LEMMA KnownFits ==
    ASSUME NEW known, AggregatesFit(known), NEW list, NEW now, AggregateFits(list, now)
    PROVE  AggregatesFit(Known(known, list, now)) /\ list \in DOMAIN Known(known, list, now)
<1>1. PICK after : after = Known(known, list, now)
    OBVIOUS
<1>2. after = [l \in DOMAIN known \cup {list} |-> IF l \in DOMAIN known THEN known[l] ELSE now]
    BY <1>1 DEF Known, Knowing
<1>3. \A l \in DOMAIN after : AggregateFits(l, after[l])
    BY <1>2 DEF AggregatesFit
<1> QED BY <1>1, <1>2, <1>3 DEF AggregatesFit

LEMMA LearntFits ==
    ASSUME auth \in Auths, request \in Requests, NEW r \in RowsOf(request.table),
           NEW c, ColumnFits(request.table, c), AggregatesFit(aggregates)
    PROVE  /\ AggregatesFit(Learnt(c, r))
           /\ c.kind = "services" => /\ ListOf(c, r) \in DOMAIN Learnt(c, r)
                                     /\ ServiceListFits(ListOf(c, r))
           /\ c.kind = "hostgroup" => r.group \in DOMAIN Hostgroups
           /\ c.kind = "hostgroup" /\ c.type \in HostTypes =>
                <<"hostgroup", r.group>> \in DOMAIN Learnt(c, r)
<1>1. request.table \in Tables /\ RowFits(request.table, r)
    BY RequestsAssumption, RowsFit
<1>2. CASE c.kind = "services"
    <2>1. ServiceListFits(ListOf(c, r))
        <3>1. CASE c.of = "host"
            <4>1. request.table \in HostTables \cup ServiceTables
                BY <1>2, <3>1 DEF ColumnFits
            <4>2. r.host \in DOMAIN HostContacts
                BY <1>1, <4>1 DEF RowFits, HostTables, ServiceTables
            <4> QED BY <3>1, <4>2 DEF ListOf, ServiceListFits
        <3>2. CASE c.of # "host"
            <4>1. request.table \in ServicegroupTables
                BY <1>2, <3>2 DEF ColumnFits
            <4>2. r.group \in DOMAIN Servicegroups
                BY <1>1, <4>1 DEF RowFits
            <4> QED BY <3>2, <4>2 DEF ListOf, ServiceListFits
        <3> QED BY <3>1, <3>2
    <2>2. PICK list : list = ListOf(c, r)
        OBVIOUS
    <2>3. PICK now : now = ServiceAggregates(auth, query.user, service, Members(list))
        OBVIOUS
    <2>4. Learnt(c, r) = Known(aggregates, list, now)
        BY <1>2, <2>2, <2>3 DEF Learnt, KnowServices
    <2>5. AggregateFits(list, now)
        BY <2>1, <2>2, <2>3, ServicesKnown
    <2>6. AggregatesFit(Known(aggregates, list, now)) /\ list \in DOMAIN Known(aggregates, list, now)
        BY <2>5, KnownFits
    <2> QED BY <1>2, <2>1, <2>2, <2>4, <2>6
<1>3. CASE c.kind = "hostgroup" /\ c.type \in HostTypes
    <2>1. r.group \in DOMAIN Hostgroups
        BY <1>1, <1>3 DEF ColumnFits, RowFits
    <2>2. PICK list : list = <<"hostgroup", r.group>>
        OBVIOUS
    <2>3. PICK now : now = HostAggregates(query.user, host, Hostgroups[r.group])
        OBVIOUS
    <2>4. c.type \notin SoftTypes
        BY <1>3 DEF HostTypes, SoftTypes, HLSC_NUM_HST, HLSC_NUM_HST_PENDING, HLSC_WORST_HST_STATE, HLSC_NUM_HST_UP
    <2>5. Learnt(c, r) = Known(aggregates, list, now)
        BY <1>3, <2>2, <2>3, <2>4 DEF Learnt
    <2>6. AggregateFits(list, now)
        BY <2>1, <2>2, <2>3, HostsKnown
    <2>7. AggregatesFit(Known(aggregates, list, now)) /\ list \in DOMAIN Known(aggregates, list, now)
        BY <2>6, KnownFits
    <2> QED BY <1>3, <2>1, <2>2, <2>5, <2>7
<1>4. CASE c.kind = "hostgroup" /\ c.type \notin HostTypes /\ c.type \in SoftTypes
    <2>1. PICK g \in DOMAIN Hostgroups : g = r.group
        BY <1>1, <1>4 DEF ColumnFits, RowFits
    <2>2. PICK seen : seen = SeenHosts(query.user, Hostgroups[g])
        OBVIOUS
    <2>3. ToSet(seen) \subseteq DOMAIN HostContacts
        <3>1. PICK hosts \in ListsOf(DOMAIN HostContacts) : hosts = Hostgroups[g]
            BY CoreLists
        <3>2. seen \in Seq(DOMAIN HostContacts)
            BY <2>2, <3>1, SeenHostsAre
        <3> QED BY <3>2 DEF ToSet
    <2>4. PICK lists : lists = {<<"host", h>> : h \in ToSet(seen)}
        OBVIOUS
    <2>6. PICK after : after = Learnt(c, r)
        OBVIOUS
    <2>7. after = [list \in DOMAIN aggregates \cup lists |->
                    IF list \in DOMAIN aggregates THEN aggregates[list]
                    ELSE ServiceAggregates(auth, query.user, service, Members(list))]
        BY <1>4, <2>1, <2>2, <2>4, <2>6 DEF Learnt, Knowing
    <2>8. ASSUME NEW list \in lists
          PROVE  AggregateFits(list, ServiceAggregates(auth, query.user, service, Members(list)))
        <3>1. ServiceListFits(list)
            BY <2>3, <2>4 DEF ServiceListFits
        <3> QED BY <3>1, ServicesKnown
    <2>11. AggregatesFit(after)
        BY <2>7, <2>8 DEF AggregatesFit
    <2> QED BY <1>4, <2>1, <2>6, <2>11
<1>5. CASE c.kind = "hostgroup" /\ c.type \notin HostTypes /\ c.type \notin SoftTypes
    <2>1. r.group \in DOMAIN Hostgroups
        BY <1>1, <1>5 DEF ColumnFits, RowFits
    <2>2. Learnt(c, r) = aggregates
        BY <1>5 DEF Learnt
    <2> QED BY <1>5, <2>1, <2>2
<1>6. CASE c.kind \notin {"services", "hostgroup"}
    <2>1. Learnt(c, r) = aggregates
        BY <1>6 DEF Learnt
    <2> QED BY <1>6, <2>1
<1> QED BY <1>2, <1>3, <1>4, <1>5, <1>6

\* A count or the worst state of services, from what is known of them.
LEMMA ServiceValueTells ==
    ASSUME NEW a, NEW number \in Nat, ServicesFit(a, number), NEW type
    PROVE  /\ type = SLSC_NUM => ServiceValue(a, type) = number
           /\ type \in 0 .. SLSC_NUM_PENDING => ServiceValue(a, type) <= number
           /\ number = 0 => ServiceValue(a, type) = 0
<1> USE DEF SLSC_NUM, SLSC_NUM_PENDING, SLSC_WORST_STATE
<1>1. type = SLSC_NUM => ServiceValue(a, type) = number
    BY DEF ServiceValue, ServicesFit
<1>2. type = SLSC_NUM_PENDING => ServiceValue(a, type) \in 0 .. number
    BY DEF ServiceValue, ServicesFit
<1>3. type \in 0 .. 3 => ServiceValue(a, type) \in 0 .. number
    BY DEF ServiceValue, ServicesFit
<1>4. ASSUME number = 0
      PROVE  ServiceValue(a, type) = 0
    <2>1. /\ a.num = 0 /\ a.pending = 0 /\ a.worst_soft = 0 /\ a.worst_hard = 0
          /\ \A n \in 0 .. 3 : a.soft[n] = 0 /\ a.hard[n] = 0
        <3>1. a.num = 0 /\ a.pending = 0 /\ a.worst_soft = 0 /\ a.worst_hard = 0
            BY <1>4 DEF ServicesFit
        <3>2. \A n \in 0 .. 3 : a.soft[n] \in 0 .. 0 /\ a.hard[n] \in 0 .. 0
            BY <1>4 DEF ServicesFit
        <3> QED BY <3>1, <3>2
    <2>2. PICK hard : hard = (type >= 60)
        OBVIOUS
    <2>3. PICK lt : lt = IF hard THEN type - HARD ELSE type
        OBVIOUS
    <2>4. PICK worst : worst = IF hard THEN a.worst_hard ELSE a.worst_soft
        OBVIOUS
    <2>5. PICK count : count = IF hard THEN a.hard[lt] ELSE a.soft[lt]
        OBVIOUS
    <2>6. ServiceValue(a, type) =
            CASE lt = SLSC_NUM         -> a.num
              [] lt = SLSC_NUM_PENDING -> a.pending
              [] lt = SLSC_WORST_STATE -> worst
              [] lt \in 0 .. 3         -> count
              [] OTHER                 -> 0
        BY <2>2, <2>3, <2>4, <2>5 DEF ServiceValue
    <2>7. worst = 0 /\ (lt \in 0 .. 3 => count = 0)
        BY <2>1, <2>4, <2>5
    <2> QED BY <2>1, <2>6, <2>7
<1>5. \A value \in 0 .. number : value <= number
    OBVIOUS
<1>6. type \in 0 .. SLSC_NUM_PENDING => type = SLSC_NUM_PENDING \/ type \in 0 .. 3
    OBVIOUS
<1> QED BY <1>1, <1>2, <1>3, <1>4, <1>5, <1>6

LEMMA HostValueTells ==
    ASSUME NEW a, NEW number \in Nat, HostsFit(a, number), NEW type \in HostTypes
    PROVE  /\ type = HLSC_NUM_HST => HostValue(a, type) = number
           /\ number = 0 => HostValue(a, type) = 0
<1> USE DEF HLSC_NUM_HST, HLSC_NUM_HST_PENDING, HLSC_WORST_HST_STATE, HLSC_NUM_HST_UP
<1>1. type = HLSC_NUM_HST => HostValue(a, type) = number
    BY DEF HostValue, HostsFit
<1>2. ASSUME number = 0
      PROVE  HostValue(a, type) = 0
    <2>1. a.num = 0 /\ a.pending = 0 /\ a.worst = 0
        BY <1>2 DEF HostsFit
    <2>2. \A n \in 0 .. 2 : a.state[n] \in 0 .. 0
        BY <1>2 DEF HostsFit
    <2>3. CASE type \in {HLSC_NUM_HST, HLSC_NUM_HST_PENDING, HLSC_WORST_HST_STATE}
        BY <2>1, <2>3 DEF HostValue
    <2>4. CASE type \notin {HLSC_NUM_HST, HLSC_NUM_HST_PENDING, HLSC_WORST_HST_STATE}
        <3>1. PICK n \in 0 .. 2 : type = HLSC_NUM_HST_UP + n
            BY <2>4 DEF HostTypes
        <3>2. HostValue(a, type) = a.state[type - HLSC_NUM_HST_UP]
            BY <2>4 DEF HostValue
        <3>3. type - HLSC_NUM_HST_UP = n
            BY <3>1
        <3> QED BY <2>2, <3>2, <3>3
    <2> QED BY <2>3, <2>4
<1> QED BY <1>1, <1>2

\* Of no host that is seen, a column of its services says nothing.
LEMMA GroupValueTells ==
    ASSUME NEW hosts \in ListsOf(DOMAIN HostContacts), NEW user, NEW type, NEW known,
           Cardinality(HostsSeen(user, hosts)) = 0
    PROVE  GroupValue(user, hosts, type, known) = 0
<1>1. PICK seen : seen = SeenHosts(user, hosts)
    OBVIOUS
<1>2. seen \in Seq(DOMAIN HostContacts) /\ Len(seen) = 0
    BY <1>1, SeenHostsAre
<1>3. seen = <<>>
    BY <1>2
<1>4. PICK told : told = [n \in DOMAIN seen |-> ServiceValue(known[<<"host", seen[n]>>], type)]
    OBVIOUS
<1>5. told = <<>>
    BY <1>3, <1>4
<1>6. PICK worst, total : /\ worst = Worst(SvcStateIsWorse, told)
                          /\ total = FoldLeft(LAMBDA sum, n : sum + n, 0, told)
    OBVIOUS
<1>7. worst = 0 /\ total = 0
    BY <1>5, <1>6, WorstOfNone
<1>8. GroupValue(user, hosts, type, known) = CASE type \notin SoftTypes   -> 0
                                              [] type = SLSC_WORST_STATE -> worst
                                              [] OTHER                   -> total
    BY <1>1, <1>4, <1>6 DEF GroupValue, Each
<1>9. SLSC_WORST_STATE \in SoftTypes
    BY DEF SoftTypes, SLSC_WORST_STATE
<1> QED BY <1>7, <1>8, <1>9

\* A column's value in a row tells only what is visible.
LEMMA ValueTells ==
    ASSUME auth \in Auths, request \in Requests, NEW r \in RowsOf(request.table),
           NEW c, ColumnFits(request.table, c), AggregatesFit(aggregates)
    PROVE  TellsOnlyVisible(c, r, ValueOf(c, r))
<1>1. request.table \in Tables /\ RowFits(request.table, r)
    BY RequestsAssumption, RowsFit
<1>2. PICK known : known = Learnt(c, r)
    OBVIOUS
<1>3. AggregatesFit(known)
    BY <1>2, LearntFits
<1>4. CASE c.kind = "hosts"
    <2>1. PICK hosts \in ListsOf(DOMAIN HostContacts) : hosts = Hostgroups[r.group]
        BY <1>1, <1>4, CoreLists DEF ColumnFits, RowFits
    <2>2. ValueOf(c, r) = SeenHosts(query.user, hosts)
        BY <1>4, <2>1 DEF ValueOf
    <2>3. ToSet(SeenHosts(query.user, hosts)) = HostsSeen(query.user, hosts)
        BY SeenHostsAre
    <2>4. VisibleHosts(r.group) = HostsSeen(query.user, hosts)
        BY <2>1, VisibleIs
    <2> QED BY <1>4, <2>2, <2>3, <2>4 DEF TellsOnlyVisible
<1>5. CASE c.kind = "list"
    <2>1. PICK list : list = ListOf(c, r)
        OBVIOUS
    <2>2. ServiceListFits(list)
        <3>1. CASE c.of = "host"
            <4>1. request.table \in HostTables \cup ServiceTables
                BY <1>5, <3>1 DEF ColumnFits
            <4>2. r.host \in DOMAIN HostContacts
                BY <1>1, <4>1 DEF RowFits, HostTables, ServiceTables
            <4> QED BY <2>1, <3>1, <4>2 DEF ListOf, ServiceListFits
        <3>2. CASE c.of # "host"
            <4>1. request.table \in ServicegroupTables
                BY <1>5, <3>2 DEF ColumnFits
            <4>2. r.group \in DOMAIN Servicegroups
                BY <1>1, <4>1 DEF RowFits
            <4> QED BY <2>1, <3>2, <4>2 DEF ListOf, ServiceListFits
        <3> QED BY <3>1, <3>2
    <2>3. PICK services \in ListsOf(DOMAIN HostOf) : services = Members(list)
        BY <2>2, MembersAre
    <2>4. ValueOf(c, r) = SeenServices(auth, query.user, services)
        BY <1>5, <2>1, <2>3 DEF ValueOf
    <2>5. ToSet(SeenServices(auth, query.user, services)) = ServicesSeen(auth, query.user, services)
        BY SeenServicesAre
    <2>6. VisibleServices(list) = ServicesSeen(auth, query.user, services)
        BY <2>3, VisibleIs
    <2> QED BY <1>5, <2>1, <2>4, <2>5, <2>6 DEF TellsOnlyVisible
<1>6. CASE c.kind = "services"
    <2>1. PICK list : list = ListOf(c, r)
        OBVIOUS
    <2>2. list \in DOMAIN known /\ ServiceListFits(list)
        BY <1>2, <1>6, <2>1, LearntFits
    <2>3. PICK a : a = known[list]
        OBVIOUS
    <2>4. PICK number \in Nat : number = Cardinality(VisibleServices(list))
        BY <2>2, NumbersVisible
    <2>5. ServicesFit(a, number)
        BY <1>3, <2>2, <2>3, <2>4, MembersAre DEF AggregatesFit, AggregateFits
    <2>6. ValueOf(c, r) = ServiceValue(a, c.type)
        BY <1>2, <1>6, <2>1, <2>3 DEF ValueOf
    <2>7. PICK type : type = c.type
        OBVIOUS
    <2>8. /\ type = SLSC_NUM => ServiceValue(a, type) = number
          /\ type \in 0 .. SLSC_NUM_PENDING => ServiceValue(a, type) <= number
          /\ number = 0 => ServiceValue(a, type) = 0
        BY <2>5, ServiceValueTells
    <2> QED BY <1>6, <2>1, <2>4, <2>6, <2>7, <2>8 DEF TellsOnlyVisible
<1>7. CASE c.kind = "hostgroup"
    <2>1. PICK g \in DOMAIN Hostgroups : g = r.group
        BY <1>7, LearntFits
    <2>2. PICK number \in Nat : number = Cardinality(VisibleHosts(g))
        BY NumbersVisible
    <2>3. CASE c.type \in HostTypes
        <3>1. PICK list : list = <<"hostgroup", g>>
            OBVIOUS
        <3>2. list \in DOMAIN known
            BY <1>2, <1>7, <2>1, <2>3, <3>1, LearntFits
        <3>3. PICK a : a = known[list]
            OBVIOUS
        <3>4. HostsFit(a, number)
            BY <1>3, <2>2, <3>1, <3>2, <3>3 DEF AggregatesFit, AggregateFits
        <3>5. ValueOf(c, r) = HostValue(a, c.type)
            BY <1>2, <1>7, <2>1, <2>3, <3>1, <3>3 DEF ValueOf
        <3>6. PICK type \in HostTypes : type = c.type
            BY <2>3
        <3>7. /\ type = HLSC_NUM_HST => HostValue(a, type) = number
              /\ number = 0 => HostValue(a, type) = 0
            BY <3>4, HostValueTells
        <3> QED BY <1>7, <2>1, <2>2, <3>5, <3>6, <3>7 DEF TellsOnlyVisible
    <2>4. CASE c.type \notin HostTypes
        <3>1. PICK hosts \in ListsOf(DOMAIN HostContacts) : hosts = Hostgroups[g]
            BY CoreLists
        <3>2. ValueOf(c, r) = GroupValue(query.user, hosts, c.type, known)
            BY <1>2, <1>7, <2>1, <2>4, <3>1 DEF ValueOf
        <3>3. VisibleHosts(g) = HostsSeen(query.user, hosts)
            BY <3>1, VisibleIs
        <3>4. number = 0 => GroupValue(query.user, hosts, c.type, known) = 0
            BY <2>2, <3>3, GroupValueTells
        <3>5. c.type # HLSC_NUM_HST
            BY <2>4 DEF HostTypes
        <3> QED BY <1>7, <2>1, <2>2, <3>2, <3>4, <3>5 DEF TellsOnlyVisible
    <2> QED BY <2>3, <2>4
<1>8. CASE c.kind \notin {"hosts", "list", "services", "hostgroup"}
    BY <1>8 DEF TellsOnlyVisible
<1> QED BY <1>4, <1>5, <1>6, <1>7, <1>8

-----------------------------------------------------------------------------
(* The headers                                                             *)

\* The columns of a query are columns of its table, and the numbers of rows are none
\* or not negative.
QueryFits(table, q) ==
    /\ \E C : q.columns \in Seq(C) /\ \A c \in C : ColumnFits(table, c)
    /\ \E F : q.filter \in Seq(F) /\ \A f \in F : ColumnFits(table, f.column)
    /\ \E S : q.stats \in Seq(S) /\ \A s \in S : s.kind # "other" => ColumnFits(table, s.column)
    /\ q.limit \in Nat \cup {-1} /\ q.offset \in Nat

Fieldnames ==
    {"columns", "stats", "filter", "sort", "user", "format", "headers", "separators", "limit",
     "offset", "timelimit", "keepalive", "response", "timeout", "trigger", "object", "timezone",
     "error"}

\* The queries that headers with the values W can make.
Queries(C, F, S, O, W) ==
    {q \in [Fieldnames -> W] :
        /\ q.columns \in Seq(C) /\ q.filter \in Seq(F) /\ q.stats \in Seq(S) /\ q.sort \in Seq(O)
        /\ q.limit \in Nat \cup {-1} /\ q.offset \in Nat}

LEMMA SetField ==
    ASSUME NEW C, NEW F, NEW S, NEW O, NEW W, NEW q \in Queries(C, F, S, O, W),
           NEW f \in Fieldnames, NEW v \in W,
           f = "columns" => v \in Seq(C), f = "filter" => v \in Seq(F), f = "stats" => v \in Seq(S),
           f = "sort" => v \in Seq(O), f = "limit" => v \in Nat \cup {-1}, f = "offset" => v \in Nat
    PROVE  [q EXCEPT ![f] = v] \in Queries(C, F, S, O, W)
<1>1. PICK p : p = [q EXCEPT ![f] = v]
    OBVIOUS
<1>2. q \in [Fieldnames -> W]
    BY DEF Queries
<1>3. p \in [Fieldnames -> W] /\ p[f] = v /\ \A g \in Fieldnames : g # f => p[g] = q[g]
    BY <1>1, <1>2
<1>4. {"columns", "filter", "stats", "sort", "limit", "offset"} \subseteq Fieldnames
    BY DEF Fieldnames
<1>5. /\ p.columns \in Seq(C) /\ p.filter \in Seq(F) /\ p.stats \in Seq(S) /\ p.sort \in Seq(O)
      /\ p.limit \in Nat \cup {-1} /\ p.offset \in Nat
    <2>1. p.columns \in Seq(C)
        BY <1>3, <1>4 DEF Queries
    <2>2. p.filter \in Seq(F)
        BY <1>3, <1>4 DEF Queries
    <2>3. p.stats \in Seq(S)
        BY <1>3, <1>4 DEF Queries
    <2>4. p.sort \in Seq(O)
        BY <1>3, <1>4 DEF Queries
    <2>5. p.limit \in Nat \cup {-1} /\ p.offset \in Nat
        BY <1>3, <1>4 DEF Queries
    <2> QED BY <2>1, <2>2, <2>3, <2>4, <2>5
<1> QED BY <1>1, <1>3, <1>5 DEF Queries

\* Two fields set at once.
LEMMA SetFields ==
    ASSUME NEW q, DOMAIN q = Fieldnames, NEW f \in Fieldnames, NEW g \in Fieldnames, f # g, NEW v, NEW w
    PROVE  [q EXCEPT ![f] = v, ![g] = w] = [[q EXCEPT ![f] = v] EXCEPT ![g] = w]
OBVIOUS

\* The lines of a request: their values, and what the headers make of them.
ValuesFit(table, h, C, F, S, O, W) ==
    /\ h.value \in W /\ h.value \in O /\ BOOLEAN \cup Int \cup Contacts \cup {UnknownUser} \subseteq W
    /\ Seq(C) \cup Seq(F) \cup Seq(S) \cup Seq(O) \subseteq W
    /\ h.does = "Columns" => h.value \in Seq(C)
    /\ h.does = "Filter" => h.value \in F
    /\ h.does = "Stats" => h.value \in S

LEMMA LineKeeps ==
    ASSUME NEW table, NEW C, NEW F, NEW S, NEW O, NEW W, NEW q \in Queries(C, F, S, O, W),
           NEW h, LineFits(table, h), ValuesFit(table, h, C, F, S, O, W)
    PROVE  ParseLine(q, h) \in Queries(C, F, S, O, W)
<1> DEFINE Q == Queries(C, F, S, O, W)
<1>1. q \in [Fieldnames -> W] /\ DOMAIN q = Fieldnames
    BY DEF Queries
<1>2. /\ q.columns \in Seq(C) /\ q.filter \in Seq(F) /\ q.stats \in Seq(S) /\ q.sort \in Seq(O)
    BY DEF Queries
<1>3. Refused(q) \in Q
    <2>1. TRUE \in W /\ "error" \in Fieldnames
        BY DEF ValuesFit, Fieldnames
    <2> QED BY <2>1, SetField DEF Refused
<1>4. h.does \in {"set", "wait", "AuthUser", "Columns", "Stats", "Filter", "Sort", "Separators",
                  "Localtime", "undefined"}
    BY DEF LineFits
<1>5. CASE h.does = "set"
    <2>1. ParseLine(q, h) = IF h.valid THEN [q EXCEPT ![h.sets] = h.value] ELSE Refused(q)
        BY <1>5 DEF ParseLine, Setting
    <2>2. h.sets \in {"limit", "offset", "timelimit", "format", "headers", "keepalive", "response"}
        BY <1>5 DEF LineFits
    <2>3. h.valid => (h.sets = "limit" => h.value \in Nat) /\ (h.sets = "offset" => h.value \in Nat)
        BY <1>5 DEF LineFits
    <2>4. PICK f, v : f = h.sets /\ v = h.value
        OBVIOUS
    <2>5. f \in Fieldnames /\ f \notin {"columns", "filter", "stats", "sort"} /\ v \in W
        BY <2>2, <2>4 DEF Fieldnames, ValuesFit
    <2>6. h.valid => [q EXCEPT ![f] = v] \in Q
        BY <2>3, <2>4, <2>5, SetField
    <2> QED BY <1>3, <2>1, <2>4, <2>6
<1>6. CASE h.does = "wait"
    <2>1. ParseLine(q, h) = IF h.valid THEN [q EXCEPT ![h.sets] = h.value] ELSE Refused(q)
        BY <1>6 DEF ParseLine, WaitSetting
    <2>2. h.sets \in {"timeout", "trigger", "object"}
        BY <1>6 DEF LineFits
    <2>4. PICK f, v : f = h.sets /\ v = h.value
        OBVIOUS
    <2>5. /\ f \in Fieldnames /\ v \in W
          /\ f \notin {"columns", "filter", "stats", "sort", "limit", "offset"}
        BY <2>2, <2>4 DEF Fieldnames, ValuesFit
    <2>6. [q EXCEPT ![f] = v] \in Q
        BY <2>5, SetField
    <2> QED BY <1>3, <2>1, <2>4, <2>6
<1>7. CASE h.does = "AuthUser"
    <2>1. PICK f, v : f = "user" /\ v = IF h.value \in Contacts THEN h.value ELSE UnknownUser
        OBVIOUS
    <2>2. ParseLine(q, h) = [q EXCEPT ![f] = v]
        BY <1>7, <2>1 DEF ParseLine, ParseAuthUser
    <2>3. f \in Fieldnames
        BY <2>1 DEF Fieldnames
    <2>4. v \in Contacts \cup {UnknownUser}
        BY <2>1 DEF ValuesFit
    <2>5. v \in W
        BY <2>1, <2>4 DEF ValuesFit
    <2>6. [q EXCEPT ![f] = v] \in Q
        BY <2>1, <2>3, <2>4, <2>5, SetField
    <2> QED BY <2>2, <2>6
<1>8. CASE h.does = "Columns"
    <2>1. PICK f, g, v, no : f = "columns" /\ g = "headers" /\ v = q.columns \o h.value /\ no = FALSE
        OBVIOUS
    <2>2. ParseLine(q, h) = [q EXCEPT ![f] = v, ![g] = no]
        BY <1>8, <2>1 DEF ParseLine, ParseColumnsLine
    <2>3. f \in Fieldnames /\ g \in Fieldnames /\ f # g
        BY <2>1 DEF Fieldnames
    <2>4. v \in Seq(C)
        BY <1>2, <1>8, <2>1 DEF ValuesFit
    <2>5. v \in W /\ no \in W
        BY <2>1, <2>4 DEF ValuesFit
    <2>6. PICK p \in Q : p = [q EXCEPT ![f] = v]
        BY <2>1, <2>3, <2>4, <2>5, SetField
    <2>7. [p EXCEPT ![g] = no] \in Q
        BY <2>1, <2>3, <2>5, SetField
    <2> QED BY <1>1, <2>2, <2>3, <2>6, <2>7, SetFields
<1>9. CASE h.does = "Stats"
    <2>1. PICK f, g, v, no : f = "stats" /\ g = "headers" /\ v = Append(q.stats, h.value) /\ no = FALSE
        OBVIOUS
    <2>2. ParseLine(q, h) = [q EXCEPT ![f] = v, ![g] = no]
        BY <1>9, <2>1 DEF ParseLine, ParseStatsLine
    <2>3. f \in Fieldnames /\ g \in Fieldnames /\ f # g
        BY <2>1 DEF Fieldnames
    <2>4. v \in Seq(S)
        BY <1>2, <1>9, <2>1 DEF ValuesFit
    <2>5. v \in W /\ no \in W
        BY <2>1, <2>4 DEF ValuesFit
    <2>6. PICK p \in Q : p = [q EXCEPT ![f] = v]
        BY <2>1, <2>3, <2>4, <2>5, SetField
    <2>7. [p EXCEPT ![g] = no] \in Q
        BY <2>1, <2>3, <2>5, SetField
    <2> QED BY <1>1, <2>2, <2>3, <2>6, <2>7, SetFields
<1>10. CASE h.does = "Filter"
    <2>1. PICK f, v : f = "filter" /\ v = Append(q.filter, h.value)
        OBVIOUS
    <2>2. ParseLine(q, h) = [q EXCEPT ![f] = v]
        BY <1>10, <2>1 DEF ParseLine, ParseFilterLine
    <2>3. f \in Fieldnames
        BY <2>1 DEF Fieldnames
    <2>4. v \in Seq(F)
        BY <1>2, <1>10, <2>1 DEF ValuesFit
    <2>5. v \in W
        BY <2>1, <2>4 DEF ValuesFit
    <2>6. [q EXCEPT ![f] = v] \in Q
        BY <2>1, <2>3, <2>4, <2>5, SetField
    <2> QED BY <2>2, <2>6
<1>11. CASE h.does = "Sort"
    <2>1. PICK f, v : f = "sort" /\ v = Append(q.sort, h.value)
        OBVIOUS
    <2>2. ParseLine(q, h) = [q EXCEPT ![f] = v]
        BY <1>11, <2>1 DEF ParseLine, ParseSortLine
    <2>3. f \in Fieldnames
        BY <2>1 DEF Fieldnames
    <2>4. v \in Seq(O)
        BY <1>2, <2>1 DEF ValuesFit
    <2>5. v \in W
        BY <2>1, <2>4 DEF ValuesFit
    <2>6. [q EXCEPT ![f] = v] \in Q
        BY <2>1, <2>3, <2>4, <2>5, SetField
    <2> QED BY <2>2, <2>6
<1>12. CASE h.does = "Separators"
    <2>1. PICK f, v : f = "separators" /\ v = h.value
        OBVIOUS
    <2>2. ParseLine(q, h) = [q EXCEPT ![f] = v]
        BY <1>12, <2>1 DEF ParseLine, ParseSeparatorsLine
    <2>3. f \in Fieldnames
        BY <2>1 DEF Fieldnames
    <2>4. v \in W
        BY <2>1 DEF ValuesFit
    <2>5. v \in W
        BY <2>1, <2>4 DEF ValuesFit
    <2>6. [q EXCEPT ![f] = v] \in Q
        BY <2>1, <2>3, <2>4, <2>5, SetField
    <2> QED BY <2>2, <2>6
<1>13. CASE h.does = "Localtime"
    <2>1. PICK difference, v : difference = Rounded(h.value) /\ v = difference * HalfHour
        OBVIOUS
    <2>2. ParseLine(q, h) =
            IF h.valid /\ difference \in -47 .. 47 THEN [q EXCEPT !["timezone"] = v] ELSE Refused(q)
        BY <1>13, <2>1 DEF ParseLine, ParseLocaltimeLine
    <2>3. difference \in -47 .. 47 => v \in Int
        BY <2>1 DEF HalfHour
    <2>4. "timezone" \in Fieldnames /\ Int \subseteq W
        BY DEF Fieldnames, ValuesFit
    <2>5. difference \in -47 .. 47 => [q EXCEPT !["timezone"] = v] \in Q
        BY <2>3, <2>4, SetField
    <2> QED BY <1>3, <2>2, <2>5
<1>14. CASE h.does = "undefined"
    BY <1>3, <1>14 DEF ParseLine
<1> QED BY <1>4, <1>5, <1>6, <1>7, <1>8, <1>9, <1>10, <1>11, <1>12, <1>13, <1>14

LEMMA DefaultsAre ==
    ASSUME NEW C, NEW F, NEW S, NEW O, NEW W, BOOLEAN \cup Int \subseteq W,
           NoUser \in W, "csv" \in W, "default" \in W, "off" \in W, "none" \in W,
           Seq(C) \cup Seq(F) \cup Seq(S) \cup Seq(O) \subseteq W
    PROVE  Defaults \in Queries(C, F, S, O, W)
<1>1. PICK d : d = Defaults
    OBVIOUS
<1>2. <<>> \in Seq(C) /\ <<>> \in Seq(F) /\ <<>> \in Seq(S) /\ <<>> \in Seq(O)
    OBVIOUS
<1>3. <<>> \in W
    BY <1>2
<1>4. TRUE \in W /\ FALSE \in W
    OBVIOUS
<1>5. 0 \in W /\ -1 \in W
    <2>1. 0 \in Int /\ -1 \in Int
        OBVIOUS
    <2> QED BY <2>1
<1>6. /\ d.columns = <<>> /\ d.stats = <<>> /\ d.filter = <<>> /\ d.sort = <<>> /\ d.user = NoUser
      /\ d.format = "csv" /\ d.headers = TRUE /\ d.separators = "default" /\ d.limit = -1 /\ d.offset = 0
      /\ d.timelimit = -1 /\ d.keepalive = FALSE /\ d.response = "off" /\ d.timeout = 0
      /\ d.trigger = "none" /\ d.object = "none" /\ d.timezone = 0 /\ d.error = FALSE
    BY <1>1 DEF Defaults
<1>7. DOMAIN d = Fieldnames /\ d = [f \in DOMAIN d |-> d[f]]
    BY <1>1 DEF Defaults, Fieldnames
<1>8. \A f \in Fieldnames : d[f] \in W
    BY <1>3, <1>4, <1>5, <1>6 DEF Fieldnames
<1>9. d \in [Fieldnames -> W]
    BY <1>7, <1>8
<1>10. /\ d.columns \in Seq(C) /\ d.filter \in Seq(F) /\ d.stats \in Seq(S) /\ d.sort \in Seq(O)
       /\ d.limit \in Nat \cup {-1} /\ d.offset \in Nat
    BY <1>2, <1>6
<1> QED BY <1>1, <1>9, <1>10 DEF Queries

LEMMA QueriesFit ==
    ASSUME NEW table, NEW C, NEW F, NEW S, NEW O, NEW W, NEW q \in Queries(C, F, S, O, W),
           \A c \in C : ColumnFits(table, c),
           \A f \in F : ColumnFits(table, f.column),
           \A s \in S : s.kind # "other" => ColumnFits(table, s.column)
    PROVE  QueryFits(table, q)
BY DEF QueryFits, Queries

LEMMA DefaultsFit == ASSUME NEW table PROVE QueryFits(table, Defaults)
<1>1. PICK d : d = Defaults
    OBVIOUS
<1>2. d.columns = <<>> /\ d.filter = <<>> /\ d.stats = <<>> /\ d.limit = -1 /\ d.offset = 0
    BY <1>1 DEF Defaults
<1>3. PICK none : none = {}
    OBVIOUS
<1>4. <<>> \in Seq(none)
    OBVIOUS
<1>5. \E C : d.columns \in Seq(C) /\ \A c \in C : ColumnFits(table, c)
    <2> WITNESS none
    <2> QED BY <1>2, <1>3, <1>4
<1>6. \E F : d.filter \in Seq(F) /\ \A f \in F : ColumnFits(table, f.column)
    <2> WITNESS none
    <2> QED BY <1>2, <1>3, <1>4
<1>7. \E S : d.stats \in Seq(S) /\ \A s \in S : s.kind # "other" => ColumnFits(table, s.column)
    <2> WITNESS none
    <2> QED BY <1>2, <1>3, <1>4
<1>8. d.limit \in Nat \cup {-1} /\ d.offset \in Nat
    BY <1>2
<1> QED BY <1>1, <1>5, <1>6, <1>7, <1>8 DEF QueryFits

\* The recursion of Parsed.
Parses(lines, upto) ==
    upto = [n \in 0 .. Len(lines) |-> IF n = 0 THEN Defaults ELSE ParseLine(upto[n - 1], lines[n])]

LEMMA ParsesFits ==
    ASSUME NEW table, NEW lines, Len(lines) \in Nat, \A n \in 1 .. Len(lines) : LineFits(table, lines[n])
    PROVE  /\ \E upto : Parses(lines, upto)
           /\ \A upto : Parses(lines, upto) => QueryFits(table, upto[Len(lines)])
<1> DEFINE O == {lines[n].value : n \in 1 .. Len(lines)}
           C == {c \in UNION {ToSet(v) : v \in O} : ColumnFits(table, c)}
           F == {f \in O : ColumnFits(table, f.column)}
           S == {s \in O : s.kind # "other" => ColumnFits(table, s.column)}
           Said == Contacts \cup {UnknownUser, NoUser, "csv", "default", "off", "none"}
           W == O \cup Said \cup BOOLEAN \cup Int \cup Seq(C) \cup Seq(F) \cup Seq(S) \cup Seq(O)
           V == Queries(C, F, S, O, W)
           step == [n \in 1 .. Len(lines) |-> [q \in V |-> ParseLine(q, lines[n])]]
<1>1. ASSUME NEW n \in 1 .. Len(lines)
      PROVE  ValuesFit(table, lines[n], C, F, S, O, W)
    <2>1. PICK h : h = lines[n]
        OBVIOUS
    <2>2. h.value \in O /\ LineFits(table, h)
        BY <2>1
    <2>3. h.does = "Columns" => h.value \in Seq(C)
        <3>1. SUFFICES ASSUME h.does = "Columns" PROVE h.value \in Seq(C)
            OBVIOUS
        <3>2. PICK v : v = h.value
            OBVIOUS
        <3>3. v \in Seq(ToSet(v)) /\ \A c \in ToSet(v) : ColumnFits(table, c)
            BY <2>2, <3>1, <3>2 DEF LineFits
        <3>4. ToSet(v) \subseteq C
            BY <2>2, <3>2, <3>3
        <3> HIDE DEF C
        <3> QED BY <3>2, <3>3, <3>4
    <2>4. h.does = "Filter" => h.value \in F
        BY <2>2 DEF LineFits
    <2>5. h.does = "Stats" => h.value \in S
        BY <2>2 DEF LineFits
    <2> HIDE DEF O, C, F, S
    <2> QED BY <2>1, <2>2, <2>3, <2>4, <2>5 DEF ValuesFit
<1>2. Defaults \in V
    <2> HIDE DEF O, C, F, S
    <2>1. PICK w : w = W
        OBVIOUS
    <2>2. BOOLEAN \cup Int \subseteq w /\ Seq(C) \cup Seq(F) \cup Seq(S) \cup Seq(O) \subseteq w
        BY <2>1
    <2>3. NoUser \in w /\ "csv" \in w /\ "default" \in w /\ "off" \in w /\ "none" \in w
        BY <2>1
    <2> HIDE DEF W
    <2>4. Defaults \in Queries(C, F, S, O, w)
        BY <2>2, <2>3, DefaultsAre
    <2> QED BY <2>1, <2>4
<1>3. \A c \in C : ColumnFits(table, c)
    OBVIOUS
<1>4. (\A f \in F : ColumnFits(table, f.column)) /\ \A s \in S : s.kind # "other" => ColumnFits(table, s.column)
    OBVIOUS
<1> HIDE DEF O, C, F, S, W
<1>5. \A n \in 1 .. Len(lines) : \A q \in V : ParseLine(q, lines[n]) \in V
    BY <1>1, LineKeeps
<1>6. \A q \in V : QueryFits(table, q)
    BY <1>3, <1>4, QueriesFit
<1> HIDE DEF V
<1>7. \A n \in 1 .. Len(lines) : step[n] \in [V -> V] /\ \A q \in V : step[n][q] = ParseLine(q, lines[n])
    BY <1>5
<1> HIDE DEF step
<1>8. \A n \in 0 .. Len(lines) : n # 0 => n \in 1 .. Len(lines) /\ n - 1 \in 0 .. Len(lines)
    OBVIOUS
<1>9. \A n \in 0 .. Len(lines) : n # 0 => step[n] \in [V -> V]
    BY <1>7, <1>8
<1>10. PICK f \in [0 .. Len(lines) -> V] : Counts(f, 0, Len(lines), Defaults, step)
    BY <1>2, <1>9, CountingExists
<1>11. \A n \in 0 .. Len(lines) : f[n] = IF n = 0 THEN Defaults ELSE ParseLine(f[n - 1], lines[n])
    <2> TAKE n \in 0 .. Len(lines)
    <2>1. CASE n = 0
        BY <1>10, <2>1 DEF Counts
    <2>2. CASE n # 0
        <3>1. f[n - 1] \in V
            BY <1>8, <1>10, <2>2
        <3> QED BY <1>7, <1>8, <1>10, <2>2, <3>1 DEF Counts
    <2> QED BY <2>1, <2>2
<1>12. f = [n \in 0 .. Len(lines) |-> f[n]]
    BY <1>10
<1>13. Parses(lines, f)
    BY <1>11, <1>12 DEF Parses
<1>14. Len(lines) \in 0 .. Len(lines)
    OBVIOUS
<1>15. ASSUME NEW upto, Parses(lines, upto)
       PROVE  QueryFits(table, upto[Len(lines)])
    <2> DEFINE T == {n \in 0 .. Len(lines) : upto[n] \in V}
    <2>1. \A n \in 0 .. Len(lines) :
                upto[n] = IF n = 0 THEN Defaults ELSE ParseLine(upto[n - 1], lines[n])
        BY <1>15 DEF Parses
    <2>2. \A n \in 0 .. Len(lines) : n = 0 \/ n - 1 \in T => n \in T
        BY <1>2, <1>5, <1>8, <2>1
    <2> HIDE DEF T
    <2>3. \A n \in 0 .. Len(lines) : n \in T
        BY <2>2, CountingInduction
    <2>4. upto[Len(lines)] \in V
        BY <1>14, <2>3 DEF T
    <2> QED BY <1>6, <2>4
<1> QED BY <1>13, <1>15

\* What Parsed makes of the lines of a request.
LEMMA ParsedFits ==
    ASSUME NEW r \in Requests
    PROVE  QueryFits(r.table, Parsed(r.lines, AllColumns[r.table]))
<1>1. PICK table, lines, all : table = r.table /\ lines = r.lines /\ all = AllColumns[r.table]
    OBVIOUS
<1>2. Len(lines) \in Nat /\ \A n \in 1 .. Len(lines) : LineFits(table, lines[n])
    BY <1>1, RequestsAssumption
<1>3. all \in Seq(ToSet(all)) /\ \A c \in ToSet(all) : ColumnFits(table, c)
    BY <1>1, RequestsAssumption
<1> DEFINE upto == CHOOSE f : Parses(lines, f)
           q == upto[Len(lines)]
<1>4. Parses(lines, upto)
    BY <1>2, ParsesFits, Zenon
<1>5. Parsed(lines, all) = IF q.columns = <<>> /\ q.stats = <<>>
                           THEN [q EXCEPT !.columns = all, !.headers = TRUE] ELSE q
    BY DEF Parsed, Parses
<1> HIDE DEF upto
<1>6. QueryFits(table, q)
    BY <1>2, <1>4, ParsesFits
<1> HIDE DEF q
<1>7. PICK p : p = [q EXCEPT !.columns = all, !.headers = TRUE]
    OBVIOUS
<1>8. /\ p.columns \in {all, q.columns} /\ p.filter = q.filter /\ p.stats = q.stats
      /\ p.limit = q.limit /\ p.offset = q.offset
    BY <1>7
<1>9. QueryFits(table, p)
    BY <1>3, <1>6, <1>8 DEF QueryFits
<1> QED BY <1>1, <1>5, <1>6, <1>7, <1>9

-----------------------------------------------------------------------------
(* The sorter                                                              *)

\* The recursion of SiftUp.
SiftsUp(h, e, from) ==
    from = [hole \in 1 .. Len(h) |->
                IF hole = 1 \/ ~Greater(e, h[Parent(hole)])
                THEN [h EXCEPT ![hole] = e]
                ELSE [from[Parent(hole)] EXCEPT ![hole] = h[Parent(hole)]]]

LEMMA SiftUpKeeps ==
    ASSUME NEW S, NEW h \in Seq(S), NEW e \in S, Len(h) >= 1
    PROVE  SiftUp(h, e) \in Seq(S) /\ Len(SiftUp(h, e)) = Len(h)
<1>1. PICK N \in Nat : N = Len(h) /\ N >= 1
    OBVIOUS
<1>2. h \in [1 .. N -> S] /\ DOMAIN h = 1 .. N
    BY <1>1
<1> DEFINE D == 1 .. N
           V == [D -> S]
           Ends == {hole \in D : hole = 1 \/ ~Greater(e, h[Parent(hole)])}
           next == [hole \in D |-> Parent(hole)]
           rank == [hole \in D |-> hole]
           base == [hole \in D |-> [h EXCEPT ![hole] = e]]
           step == [hole \in D |-> [v \in V |-> [v EXCEPT ![hole] = h[Parent(hole)]]]]
<1>3. \A hole \in D : hole # 1 => Parent(hole) \in D /\ Parent(hole) < hole
    BY <1>1 DEF Parent
<1>4. rank \in [D -> 0 .. N] /\ \A hole \in D : next[hole] = Parent(hole) /\ rank[hole] = hole
    OBVIOUS
<1>5. Ends \subseteq D /\ 1 \in Ends /\ \A hole \in D : hole \in Ends <=> hole = 1 \/ ~Greater(e, h[Parent(hole)])
    BY <1>1
<1>6. \A hole \in D : base[hole] = [h EXCEPT ![hole] = e] /\ base[hole] \in V
    BY <1>2
<1>7. \A hole \in D : hole # 1 => step[hole] \in [V -> V]
    <2> TAKE hole \in D
    <2> HAVE hole # 1
    <2>1. PICK v : v = h[Parent(hole)]
        OBVIOUS
    <2>2. v \in S
        BY <1>2, <1>3, <2>1
    <2>3. \A u \in V : [u EXCEPT ![hole] = v] \in V
        BY <2>2
    <2>4. step[hole] = [u \in V |-> [u EXCEPT ![hole] = v]]
        BY <2>1
    <2> HIDE DEF V
    <2> QED BY <2>3, <2>4
<1>8. \A hole \in D : \A v \in V : step[hole][v] = [v EXCEPT ![hole] = h[Parent(hole)]]
    OBVIOUS
<1> HIDE DEF Ends, next, rank, base, step, V
<1>9. Descends(D, Ends, next, rank, N)
    BY <1>3, <1>4, <1>5 DEF Descends
<1>10. \A hole \in D : IF hole \in Ends THEN base[hole] \in V ELSE step[hole] \in [V -> V]
    BY <1>5, <1>6, <1>7
<1> HIDE DEF D
<1>11. PICK f \in [D -> V] : \A hole \in D : Recurs(f, hole, Ends, next, base, step)
    BY <1>9, <1>10, RecursionExists
<1>12. \A hole \in D : f[hole] = IF hole = 1 \/ ~Greater(e, h[Parent(hole)])
                                 THEN [h EXCEPT ![hole] = e]
                                 ELSE [f[Parent(hole)] EXCEPT ![hole] = h[Parent(hole)]]
    <2> TAKE hole \in D
    <2>1. CASE hole \in Ends
        BY <1>5, <1>6, <1>11, <2>1 DEF Recurs
    <2>2. CASE hole \notin Ends
        <3>1. f[hole] = step[hole][f[Parent(hole)]]
            BY <1>4, <1>11, <2>2 DEF Recurs
        <3>2. f[Parent(hole)] \in V
            BY <1>3, <1>5, <1>11, <2>2
        <3> QED BY <1>5, <1>8, <2>2, <3>1, <3>2
    <2> QED BY <2>1, <2>2
<1>13. f = [hole \in D |-> f[hole]]
    BY <1>11
<1>14. SiftsUp(h, e, f)
    BY <1>1, <1>12, <1>13 DEF SiftsUp, D
<1> DEFINE from == CHOOSE g : SiftsUp(h, e, g)
<1>15. SiftsUp(h, e, from)
    BY <1>14, Zenon
<1>16. SiftUp(h, e) = from[Len(h)]
    BY DEF SiftUp, SiftsUp
<1> HIDE DEF from
<1>17. \A hole \in D : from[hole] = IF hole = 1 \/ ~Greater(e, h[Parent(hole)])
                                    THEN [h EXCEPT ![hole] = e]
                                    ELSE [from[Parent(hole)] EXCEPT ![hole] = h[Parent(hole)]]
    BY <1>1, <1>15 DEF SiftsUp, D
<1> DEFINE T == {hole \in D : from[hole] \in V}
<1>18. \A hole \in D : hole \in Ends \/ next[hole] \in T => hole \in T
    <2> TAKE hole \in D
    <2> HAVE hole \in Ends \/ next[hole] \in T
    <2>1. CASE hole \in Ends
        BY <1>5, <1>6, <1>17, <2>1
    <2>2. CASE hole \notin Ends
        <3>1. from[hole] = [from[Parent(hole)] EXCEPT ![hole] = h[Parent(hole)]]
            BY <1>5, <1>17, <2>2
        <3>2. from[Parent(hole)] \in V
            BY <1>4, <2>2
        <3>3. h[Parent(hole)] \in S
            BY <1>2, <1>3, <1>5, <2>2 DEF D
        <3> QED BY <3>1, <3>2, <3>3 DEF V
    <2> QED BY <2>1, <2>2
<1> HIDE DEF T
<1>19. \A hole \in D : hole \in T
    BY <1>9, <1>18, RankInduction
<1>20. PICK sifted : sifted = from[N]
    OBVIOUS
<1>21. sifted \in [1 .. N -> S]
    BY <1>1, <1>19, <1>20 DEF T, V, D
<1>22. sifted \in Seq(S) /\ Len(sifted) = N
    BY <1>1, <1>21
<1> QED BY <1>1, <1>16, <1>20, <1>22

\* The recursion of SiftDown.
SiftsDown(h, e, from) ==
    from = [hole \in 1 .. Len(h) |->
                IF 2 * hole > Len(h) \/ ~Greater(h[LargerChild(h, hole)], e)
                THEN [h EXCEPT ![hole] = e]
                ELSE [from[LargerChild(h, hole)] EXCEPT ![hole] = h[LargerChild(h, hole)]]]

LEMMA SiftDownKeeps ==
    ASSUME NEW S, NEW h \in Seq(S), NEW e \in S, Len(h) >= 1
    PROVE  SiftDown(h, e) \in Seq(S) /\ Len(SiftDown(h, e)) = Len(h)
<1>1. PICK N \in Nat : N = Len(h) /\ N >= 1
    OBVIOUS
<1>2. h \in [1 .. N -> S] /\ DOMAIN h = 1 .. N
    BY <1>1
<1> DEFINE D == 1 .. N
           V == [D -> S]
           Ends == {hole \in D : 2 * hole > Len(h) \/ ~Greater(h[LargerChild(h, hole)], e)}
           next == [hole \in D |-> LargerChild(h, hole)]
           rank == [hole \in D |-> N - hole]
           base == [hole \in D |-> [h EXCEPT ![hole] = e]]
           step == [hole \in D |-> [v \in V |-> [v EXCEPT ![hole] = h[LargerChild(h, hole)]]]]
<1>3. \A hole \in D : ~(2 * hole > Len(h)) => LargerChild(h, hole) \in D /\ N - LargerChild(h, hole) < N - hole
    BY <1>1 DEF LargerChild
<1>4. rank \in [D -> 0 .. N] /\ \A hole \in D : next[hole] = LargerChild(h, hole) /\ rank[hole] = N - hole
    OBVIOUS
<1>5. Ends \subseteq D /\ \A hole \in D : hole \in Ends <=> 2 * hole > Len(h) \/ ~Greater(h[LargerChild(h, hole)], e)
    BY <1>1
<1>6. \A hole \in D : base[hole] = [h EXCEPT ![hole] = e] /\ base[hole] \in V
    BY <1>2
<1>7. \A hole \in D : ~(2 * hole > Len(h)) => step[hole] \in [V -> V]
    <2> TAKE hole \in D
    <2> HAVE ~(2 * hole > Len(h))
    <2>1. PICK v : v = h[LargerChild(h, hole)]
        OBVIOUS
    <2>2. v \in S
        BY <1>2, <1>3, <2>1
    <2>3. \A u \in V : [u EXCEPT ![hole] = v] \in V
        BY <2>2
    <2>4. step[hole] = [u \in V |-> [u EXCEPT ![hole] = v]]
        BY <2>1
    <2> HIDE DEF V
    <2> QED BY <2>3, <2>4
<1>8. \A hole \in D : \A v \in V : step[hole][v] = [v EXCEPT ![hole] = h[LargerChild(h, hole)]]
    OBVIOUS
<1> HIDE DEF Ends, next, rank, base, step, V
<1>9. Descends(D, Ends, next, rank, N)
    BY <1>3, <1>4, <1>5 DEF Descends
<1>10. \A hole \in D : IF hole \in Ends THEN base[hole] \in V ELSE step[hole] \in [V -> V]
    BY <1>5, <1>6, <1>7
<1> HIDE DEF D
<1>11. PICK f \in [D -> V] : \A hole \in D : Recurs(f, hole, Ends, next, base, step)
    BY <1>9, <1>10, RecursionExists
<1>12. \A hole \in D : f[hole] = IF 2 * hole > Len(h) \/ ~Greater(h[LargerChild(h, hole)], e)
                                 THEN [h EXCEPT ![hole] = e]
                                 ELSE [f[LargerChild(h, hole)] EXCEPT ![hole] = h[LargerChild(h, hole)]]
    <2> TAKE hole \in D
    <2>1. CASE hole \in Ends
        BY <1>5, <1>6, <1>11, <2>1 DEF Recurs
    <2>2. CASE hole \notin Ends
        <3>1. f[hole] = step[hole][f[LargerChild(h, hole)]]
            BY <1>4, <1>11, <2>2 DEF Recurs
        <3>2. f[LargerChild(h, hole)] \in V
            BY <1>3, <1>5, <1>11, <2>2
        <3> QED BY <1>5, <1>8, <2>2, <3>1, <3>2
    <2> QED BY <2>1, <2>2
<1>13. f = [hole \in D |-> f[hole]]
    BY <1>11
<1>14. SiftsDown(h, e, f)
    BY <1>1, <1>12, <1>13 DEF SiftsDown, D
<1> DEFINE from == CHOOSE g : SiftsDown(h, e, g)
<1>15. SiftsDown(h, e, from)
    BY <1>14, Zenon
<1>16. SiftDown(h, e) = from[1]
    BY DEF SiftDown, SiftsDown
<1> HIDE DEF from
<1>17. \A hole \in D : from[hole] = IF 2 * hole > Len(h) \/ ~Greater(h[LargerChild(h, hole)], e)
                                    THEN [h EXCEPT ![hole] = e]
                                    ELSE [from[LargerChild(h, hole)] EXCEPT ![hole] = h[LargerChild(h, hole)]]
    BY <1>1, <1>15 DEF SiftsDown, D
<1> DEFINE T == {hole \in D : from[hole] \in V}
<1>18. \A hole \in D : hole \in Ends \/ next[hole] \in T => hole \in T
    <2> TAKE hole \in D
    <2> HAVE hole \in Ends \/ next[hole] \in T
    <2>1. CASE hole \in Ends
        BY <1>5, <1>6, <1>17, <2>1
    <2>2. CASE hole \notin Ends
        <3>1. from[hole] = [from[LargerChild(h, hole)] EXCEPT ![hole] = h[LargerChild(h, hole)]]
            BY <1>5, <1>17, <2>2
        <3>2. from[LargerChild(h, hole)] \in V
            BY <1>4, <2>2
        <3>3. h[LargerChild(h, hole)] \in S
            BY <1>2, <1>3, <1>5, <2>2 DEF D
        <3> QED BY <3>1, <3>2, <3>3 DEF V
    <2> QED BY <2>1, <2>2
<1> HIDE DEF T
<1>19. \A hole \in D : hole \in T
    BY <1>9, <1>18, RankInduction
<1>20. PICK sifted : sifted = from[1]
    OBVIOUS
<1>21. sifted \in [1 .. N -> S]
    BY <1>1, <1>19, <1>20 DEF T, V, D
<1>22. sifted \in Seq(S) /\ Len(sifted) = N
    BY <1>1, <1>21
<1> QED BY <1>1, <1>16, <1>20, <1>22

LEMMA ShorterSeq ==
    ASSUME NEW S, NEW s \in Seq(S)
    PROVE  /\ SubSeq(s, 1, Len(s) - 1) \in Seq(S)
           /\ Len(s) >= 1 => Len(SubSeq(s, 1, Len(s) - 1)) = Len(s) - 1
           /\ Len(s) = 0 => SubSeq(s, 1, Len(s) - 1) = <<>>
<1>1. PICK N \in Nat : N = Len(s)
    OBVIOUS
<1>2. \A i \in 1 .. N - 1 : s[i] \in S
    BY <1>1
<1>3. 1 \in Int /\ N - 1 \in Int
    OBVIOUS
<1>4. /\ SubSeq(s, 1, N - 1) \in Seq(S)
      /\ Len(SubSeq(s, 1, N - 1)) = IF 1 <= N - 1 THEN (N - 1) - 1 + 1 ELSE 0
    BY <1>2, <1>3, SubSeqProperties
<1>5. N = 0 => SubSeq(s, 1, N - 1) = <<>>
    BY <1>3, SubSeqEmpty
<1> QED BY <1>1, <1>4, <1>5

LEMMA ExtractKeeps ==
    ASSUME NEW S, NEW h \in Seq(S)
    PROVE  Extract(h) \in Seq(S) /\ (Len(h) >= 1 => Len(Extract(h)) = Len(h) - 1)
<1>1. PICK rest : rest = SubSeq(h, 1, Len(h) - 1)
    OBVIOUS
<1>2. rest \in Seq(S) /\ (Len(h) >= 1 => Len(rest) = Len(h) - 1) /\ (Len(h) = 0 => rest = <<>>)
    BY <1>1, ShorterSeq
<1>3. Extract(h) = IF rest = <<>> THEN <<>> ELSE SiftDown(rest, h[Len(h)])
    BY <1>1 DEF Extract
<1>4. CASE rest = <<>>
    BY <1>2, <1>3, <1>4
<1>5. CASE rest # <<>>
    <2>1. Len(h) \in Nat /\ Len(h) # 0
        BY <1>2, <1>5
    <2>2. PICK e \in S : e = h[Len(h)]
        BY <2>1
    <2>3. Len(rest) >= 1 /\ Len(rest) = Len(h) - 1
        BY <1>2, <1>5, <2>1
    <2>4. SiftDown(rest, e) \in Seq(S) /\ Len(SiftDown(rest, e)) = Len(rest)
        BY <1>2, <2>3, SiftDownKeeps
    <2> QED BY <1>3, <1>5, <2>2, <2>3, <2>4
<1> QED BY <1>4, <1>5

LEMMA InsertKeeps ==
    ASSUME NEW S, NEW h \in Seq(S), NEW e \in S, NEW limit
    PROVE  Insert(h, e, limit) \in Seq(S)
<1>1. PICK a : a = Append(h, e)
    OBVIOUS
<1>2. a \in Seq(S) /\ Len(a) >= 1
    BY <1>1
<1>3. PICK grown : grown = SiftUp(a, e)
    OBVIOUS
<1>4. grown \in Seq(S)
    BY <1>2, <1>3, SiftUpKeeps
<1>5. Extract(grown) \in Seq(S)
    BY <1>4, ExtractKeeps
<1> QED BY <1>1, <1>3, <1>4, <1>5 DEF Insert

\* The recursion of Extracted.
Extracts(h, without) ==
    without = [n \in 0 .. Len(h) |-> IF n = 0 THEN h ELSE Extract(without[n - 1])]

LEMMA ExtractsFits ==
    ASSUME NEW S, NEW h \in Seq(S)
    PROVE  /\ \E without : Extracts(h, without)
           /\ \A without : Extracts(h, without) =>
                \A n \in 0 .. Len(h) : without[n] \in Seq(S) /\ Len(without[n]) = Len(h) - n
<1>1. PICK N \in Nat : N = Len(h)
    OBVIOUS
<1> DEFINE V == Seq(S)
           step == [n \in 0 .. N |-> [v \in V |-> Extract(v)]]
<1>2. \A v \in V : Extract(v) \in V
    BY ExtractKeeps
<1> HIDE DEF V
<1>3. \A n \in 0 .. N : step[n] \in [V -> V] /\ \A v \in V : step[n][v] = Extract(v)
    BY <1>2
<1>4. h \in V
    BY DEF V
<1> HIDE DEF step
<1>5. \A n \in 0 .. N : n # 0 => step[n] \in [V -> V]
    BY <1>3
<1>6. PICK f \in [0 .. N -> V] : Counts(f, 0, N, h, step)
    BY <1>4, <1>5, CountingExists
<1>7. \A n \in 0 .. N : f[n] = IF n = 0 THEN h ELSE Extract(f[n - 1])
    <2> TAKE n \in 0 .. N
    <2>1. CASE n = 0
        BY <1>6, <2>1 DEF Counts
    <2>2. CASE n # 0
        <3>1. n - 1 \in 0 .. N
            BY <2>2
        <3>2. f[n - 1] \in V
            BY <1>6, <3>1
        <3> QED BY <1>3, <1>6, <2>2, <3>2 DEF Counts
    <2> QED BY <2>1, <2>2
<1>8. f = [n \in 0 .. N |-> f[n]]
    BY <1>6
<1>9. Extracts(h, f)
    BY <1>1, <1>7, <1>8 DEF Extracts
<1>10. ASSUME NEW without, Extracts(h, without)
       PROVE  \A n \in 0 .. N : without[n] \in Seq(S) /\ Len(without[n]) = N - n
    <2> DEFINE T == {n \in 0 .. N : without[n] \in Seq(S) /\ Len(without[n]) = N - n}
    <2>1. \A n \in 0 .. N : without[n] = IF n = 0 THEN h ELSE Extract(without[n - 1])
        BY <1>1, <1>10 DEF Extracts
    <2>2. \A n \in 0 .. N : n = 0 \/ n - 1 \in T => n \in T
        <3> TAKE n \in 0 .. N
        <3> HAVE n = 0 \/ n - 1 \in T
        <3>1. CASE n = 0
            BY <1>1, <2>1, <3>1
        <3>2. CASE n # 0
            <4>1. PICK prior : prior = without[n - 1]
                OBVIOUS
            <4>2. prior \in Seq(S) /\ Len(prior) = N - (n - 1) /\ N - (n - 1) >= 1
                BY <3>2, <4>1
            <4>3. Extract(prior) \in Seq(S) /\ Len(Extract(prior)) = Len(prior) - 1
                BY <4>2, ExtractKeeps
            <4>4. PICK e : e = Extract(prior)
                OBVIOUS
            <4>5. without[n] = e
                BY <2>1, <3>2, <4>1, <4>4
            <4>6. e \in Seq(S) /\ Len(e) = (N - (n - 1)) - 1
                BY <4>2, <4>3, <4>4
            <4>7. (N - (n - 1)) - 1 = N - n
                OBVIOUS
            <4> QED BY <4>5, <4>6, <4>7
        <3> QED BY <3>1, <3>2
    <2> HIDE DEF T
    <2>3. \A n \in 0 .. N : n \in T
        BY <2>2, CountingInduction
    <2> QED BY <2>3 DEF T
<1> QED BY <1>1, <1>9, <1>10

\* The rows that are extracted are rows of the heap.
LEMMA ExtractedKeeps ==
    ASSUME NEW S, heap \in Seq(S), query.limit \in Nat \cup {-1}, query.offset \in Nat
    PROVE  Extracted \in Seq(S)
<1>1. PICK h, limit, offset : h = heap /\ limit = query.limit /\ offset = query.offset
    OBVIOUS
<1>2. PICK N \in Nat : N = Len(h)
    BY <1>1
<1> DEFINE without == CHOOSE f : Extracts(h, f)
           elems == IF limit + offset <= N THEN limit ELSE IF N > offset THEN N - offset ELSE 0
           rows == [n \in DOMAIN h |-> Largest(without[n - 1])]
<1>3. Extracts(h, without)
    BY <1>1, ExtractsFits, Zenon
<1>4. Extracted = IF elems < 0 THEN rows ELSE SubSeq(rows, 1, elems)
    BY <1>1, <1>2 DEF Extracted, Extracts
<1> HIDE DEF without
<1>5. \A n \in 0 .. N : without[n] \in Seq(S) /\ Len(without[n]) = N - n
    BY <1>1, <1>2, <1>3, ExtractsFits
<1>6. \A n \in 1 .. N : Largest(without[n - 1]) \in S
    <2> TAKE n \in 1 .. N
    <2>1. PICK rest : rest = without[n - 1]
        OBVIOUS
    <2>2. n - 1 \in 0 .. N /\ N - (n - 1) >= 1
        OBVIOUS
    <2>3. rest \in Seq(S) /\ Len(rest) >= 1
        BY <1>5, <2>1, <2>2
    <2> QED BY <2>1, <2>3 DEF Largest
<1>7. rows \in [1 .. N -> S]
    BY <1>1, <1>2, <1>6
<1> HIDE DEF rows
<1>8. rows \in Seq(S)
    BY <1>7
<1>9. elems \in Int /\ elems <= N
    BY <1>1
<1> HIDE DEF elems
<1>10. SubSeq(rows, 1, elems) \in Seq(S)
    <2>1. \A i \in 1 .. elems : rows[i] \in S
        BY <1>7, <1>9
    <2>2. 1 \in Int
        OBVIOUS
    <2> QED BY <1>9, <2>1, <2>2, SubSeqProperties
<1> QED BY <1>4, <1>8, <1>10

-----------------------------------------------------------------------------
(* The inductive invariant                                                 *)

AskedFits == request \in Requests /\ auth \in Auths /\ QueryFits(request.table, query)

\* Before the headers are read, nothing depends on them.
NothingYet == pc = "headers" => aggregates = <<>> /\ accepted = <<>> /\ shown = <<>>

\* The rows are rows of the table.
RowsHere == RowsOf(request.table)
WalkFits ==
    /\ todo \in Seq(Seq(RowsHere)) /\ (pc = "filter" => todo # <<>>)
    /\ pc \in {"filter", "print", "group", "consume", "regroup"} => row \in RowsHere
    /\ k \in Nat \ {0}
SorterFits ==
    /\ \E S : heap \in Seq(S) /\ \A e \in S : e.row \in RowsHere
    /\ \E S : outbuf \in Seq(S) /\ \A e \in S : e.row \in RowsHere

LearnedFits == AggregatesFit(aggregates)

AcceptedSeen == accepted \in Seq({r \in RowsHere : MaySeeRow(r)})

\* Groups are made of stats only.
GroupsCount == pc \in {"group", "consume", "regroup"} => DoStats

\* The row that is printed, as far as it is, tells only what is visible.
ValuesTell ==
    pc \in {"print", "regroup"} =>
        /\ k <= Len(query.columns) + 1
        /\ \E S : values \in Seq(S) /\ Len(values) = k - 1
        /\ \A m \in 1 .. k - 1 : TellsOnlyVisible(query.columns[m], row, values[m])

\* So do those that were printed.
Tells(entry) ==
    \A m \in DOMAIN query.columns : TellsOnlyVisible(query.columns[m], entry.row, entry.values[m])
ShownTells == \E S : shown \in Seq(S) /\ \A entry \in S : Tells(entry)

\* And what was consumed.
ConsumedTells ==
    /\ pc = "headers" => consumed = <<>>
    /\ \A g \in DOMAIN consumed :
        \E S : consumed[g] \in Seq(S) /\ \A e \in S : CountsOnlyVisible(e)

VisibleInv ==
    /\ AskedFits /\ NothingYet /\ WalkFits /\ SorterFits /\ LearnedFits
    /\ AcceptedSeen /\ GroupsCount /\ ValuesTell /\ ShownTells

\* The same is visible as long as the same is asked.
LEMMA SameVisible ==
    ASSUME UNCHANGED asked
    PROVE  /\ \A r : MaySeeRow(r)' <=> MaySeeRow(r)
           /\ \A c, r, v : TellsOnlyVisible(c, r, v)' <=> TellsOnlyVisible(c, r, v)
           /\ \A list, a : AggregateFits(list, a)' <=> AggregateFits(list, a)
           /\ request' = request /\ auth' = auth /\ query' = query
<1>1. request' = request /\ auth' = auth /\ query' = query
    BY DEF asked
<1>2. (\A g : VisibleHosts(g)' = VisibleHosts(g)) /\ \A list : VisibleServices(list)' = VisibleServices(list)
    BY <1>1 DEF VisibleHosts, VisibleServices, MaySee
<1>3. \A r : MaySeeRow(r)' <=> MaySeeRow(r)
    BY <1>1, <1>2 DEF MaySeeRow, MaySeeMembers, MaySee
<1>4. \A c, r, v : TellsOnlyVisible(c, r, v)' <=> TellsOnlyVisible(c, r, v)
    BY <1>2 DEF TellsOnlyVisible
<1>5. \A list, a : AggregateFits(list, a)' <=> AggregateFits(list, a)
    BY <1>2 DEF AggregateFits
<1> QED BY <1>1, <1>3, <1>4, <1>5

LEMMA SameFits ==
    ASSUME VisibleInv, UNCHANGED asked
    PROVE  /\ AskedFits'
           /\ UNCHANGED aggregates => LearnedFits'
           /\ UNCHANGED <<heap, outbuf>> => SorterFits'
           /\ UNCHANGED accepted => AcceptedSeen'
           /\ UNCHANGED shown => ShownTells'
           /\ pc' # "headers" => NothingYet'
           /\ RowsHere' = RowsHere /\ (DoStats' <=> DoStats)
<1>1. request' = request /\ auth' = auth /\ query' = query
    BY SameVisible
<1>2. AskedFits'
    BY <1>1 DEF VisibleInv, AskedFits
<1>3. RowsHere' = RowsHere /\ (DoStats' <=> DoStats)
    BY <1>1 DEF RowsHere, DoStats
<1>4. UNCHANGED aggregates => LearnedFits'
    BY SameVisible DEF VisibleInv, LearnedFits, AggregatesFit
<1>5. UNCHANGED <<heap, outbuf>> => SorterFits'
    BY <1>3 DEF VisibleInv, SorterFits
<1>6. UNCHANGED accepted => AcceptedSeen'
    <2>1. {r \in RowsHere : MaySeeRow(r)}' = {r \in RowsHere : MaySeeRow(r)}
        BY <1>3, SameVisible
    <2> QED BY <2>1 DEF VisibleInv, AcceptedSeen
<1>7. UNCHANGED shown => ShownTells'
    <2>1. \A entry : Tells(entry)' <=> Tells(entry)
        BY <1>1, SameVisible DEF Tells
    <2> QED BY <1>3, <2>1 DEF VisibleInv, ShownTells
<1>8. pc' # "headers" => NothingYet'
    BY DEF NothingYet
<1> QED BY <1>2, <1>3, <1>4, <1>5, <1>6, <1>7, <1>8

-----------------------------------------------------------------------------
(* The steps                                                               *)

\* The core's objects change what is found next, and nothing that was found.
LEMMA CheckKeeps == ASSUME VisibleInv, Check PROVE VisibleInv'
<1>1. UNCHANGED <<asked, pc, todo, row, k, aggregates, shown, values, heap, outbuf, accepted>>
    BY DEF Check, walk, printing, sorter
<1>2. /\ AskedFits' /\ LearnedFits' /\ SorterFits' /\ AcceptedSeen' /\ ShownTells'
      /\ RowsHere' = RowsHere /\ (DoStats' <=> DoStats)
    BY <1>1, SameFits
<1>3. NothingYet' /\ WalkFits' /\ GroupsCount'
    BY <1>1, <1>2 DEF VisibleInv, NothingYet, WalkFits, GroupsCount
<1>4. ValuesTell'
    BY <1>1, SameVisible DEF VisibleInv, ValuesTell
<1> QED BY <1>2, <1>3, <1>4 DEF VisibleInv

LEMMA ReadHeadersKeeps == ASSUME VisibleInv, ReadHeaders PROVE VisibleInv'
<1>1. /\ pc = "headers" /\ query' = Parsed(request.lines, AllColumns[request.table])
      /\ pc' \in {"refused", "start"}
      /\ UNCHANGED <<request, auth, todo, row, k, aggregates, shown, values, heap, outbuf, accepted>>
    BY DEF ReadHeaders, walk, printing, sorter
<1>2. aggregates = <<>> /\ accepted = <<>> /\ shown = <<>>
    BY <1>1 DEF VisibleInv, NothingYet
<1>3. AskedFits'
    BY <1>1, ParsedFits DEF VisibleInv, AskedFits
<1>4. RowsHere' = RowsHere
    BY <1>1 DEF RowsHere
<1>5. NothingYet' /\ WalkFits' /\ SorterFits' /\ GroupsCount' /\ ValuesTell'
    BY <1>1, <1>4 DEF VisibleInv, NothingYet, WalkFits, SorterFits, GroupsCount, ValuesTell
<1>6. LearnedFits'
    BY <1>1, <1>2 DEF LearnedFits, AggregatesFit
<1>7. AcceptedSeen'
    BY <1>1, <1>2 DEF AcceptedSeen
<1>8. ShownTells'
    <2>1. PICK S : S = {}
        OBVIOUS
    <2>2. shown' \in Seq(S) /\ \A entry \in S : Tells(entry)'
        BY <1>1, <1>2, <2>1
    <2> QED BY <2>2 DEF ShownTells
<1> QED BY <1>3, <1>5, <1>6, <1>7, <1>8 DEF VisibleInv

LEMMA StartKeeps == ASSUME VisibleInv, Start PROVE VisibleInv'
<1>1. /\ pc' = "row" /\ todo' = RowLists(request)
      /\ UNCHANGED <<asked, row, k, aggregates, values, shown, heap, outbuf, accepted>>
    BY DEF Start, stats
<1>2. /\ AskedFits' /\ LearnedFits' /\ SorterFits' /\ AcceptedSeen' /\ ShownTells' /\ NothingYet'
      /\ RowsHere' = RowsHere
    BY <1>1, SameFits
<1>3. todo' \in Seq(Seq(RowsHere))
    BY <1>1, RowListsAre DEF VisibleInv, AskedFits, RowsHere
<1>4. WalkFits' /\ GroupsCount' /\ ValuesTell'
    BY <1>1, <1>2, <1>3 DEF VisibleInv, WalkFits, GroupsCount, ValuesTell
<1> QED BY <1>2, <1>4 DEF VisibleInv

LEMMA NextListKeeps == ASSUME VisibleInv, NextList PROVE VisibleInv'
<1>1. /\ pc = "row" /\ todo # <<>> /\ todo' = Tail(todo)
      /\ UNCHANGED <<asked, pc, row, k, aggregates, values, shown, heap, outbuf, accepted>>
    BY DEF NextList, printing, sorter
<1>2. /\ AskedFits' /\ LearnedFits' /\ SorterFits' /\ AcceptedSeen' /\ ShownTells' /\ NothingYet'
      /\ RowsHere' = RowsHere
    BY <1>1, SameFits
<1>3. todo' \in Seq(Seq(RowsHere))
    BY <1>1 DEF VisibleInv, WalkFits
<1>4. WalkFits' /\ GroupsCount' /\ ValuesTell'
    BY <1>1, <1>2, <1>3 DEF VisibleInv, WalkFits, GroupsCount, ValuesTell
<1> QED BY <1>2, <1>4 DEF VisibleInv

LEMMA NextRowKeeps == ASSUME VisibleInv, NextRow PROVE VisibleInv'
<1>1. /\ todo # <<>> /\ Head(todo) # <<>>
      /\ row' = Head(Head(todo)) /\ todo' = [todo EXCEPT ![1] = Tail(@)]
      /\ pc' = "filter" /\ k' = 1
      /\ UNCHANGED <<asked, aggregates, shown, heap, outbuf, accepted>>
    BY DEF NextRow, printing, sorter
<1>2. /\ AskedFits' /\ LearnedFits' /\ SorterFits' /\ AcceptedSeen' /\ ShownTells' /\ NothingYet'
      /\ RowsHere' = RowsHere
    BY <1>1, SameFits
<1>3. PICK X, lists : X = RowsHere /\ lists = todo
    OBVIOUS
<1>4. lists \in Seq(Seq(X)) /\ lists # <<>> /\ Head(lists) # <<>>
    BY <1>1, <1>3 DEF VisibleInv, WalkFits
<1>5. PICK first : first = lists[1]
    OBVIOUS
<1>6. first \in Seq(X) /\ first # <<>> /\ Head(lists) = first /\ Len(lists) \in Nat /\ 1 \in 1 .. Len(lists)
    BY <1>4, <1>5
<1>7. Head(first) \in X /\ Tail(first) \in Seq(X)
    BY <1>6
<1>8. PICK rest : rest = [lists EXCEPT ![1] = Tail(first)]
    OBVIOUS
<1>9. rest \in Seq(Seq(X)) /\ rest # <<>>
    BY <1>4, <1>6, <1>7, <1>8
<1>10. row' \in RowsHere /\ todo' \in Seq(Seq(RowsHere)) /\ todo' # <<>>
    BY <1>1, <1>3, <1>5, <1>6, <1>7, <1>8, <1>9
<1>11. WalkFits' /\ GroupsCount' /\ ValuesTell'
    BY <1>1, <1>2, <1>10 DEF WalkFits, GroupsCount, ValuesTell
<1> QED BY <1>2, <1>11 DEF VisibleInv

LEMMA FilterKeeps == ASSUME VisibleInv, Filter PROVE VisibleInv'
<1>1. /\ pc = "filter" /\ k <= Len(query.filter) /\ aggregates' = Learnt(query.filter[k].column, row)
      /\ k' \in {k, k + 1} /\ pc' \in {"filter", "row"}
      /\ UNCHANGED <<asked, todo, row, shown, values, heap, outbuf, accepted>>
    BY DEF Filter, walk, printing, sorter
<1>2. /\ AskedFits' /\ SorterFits' /\ AcceptedSeen' /\ ShownTells' /\ NothingYet'
      /\ RowsHere' = RowsHere
    BY <1>1, SameFits
<1>3. PICK c : c = query.filter[k].column
    OBVIOUS
<1>4. ColumnFits(request.table, c)
    <2>1. PICK F, filter : filter = query.filter /\ filter \in Seq(F)
                           /\ \A f \in F : ColumnFits(request.table, f.column)
        BY DEF VisibleInv, AskedFits, QueryFits
    <2>2. k \in 1 .. Len(filter)
        BY <1>1, <2>1 DEF VisibleInv, WalkFits
    <2>3. filter[k] \in F
        BY <2>1, <2>2
    <2> QED BY <1>3, <2>1, <2>3
<1>5. AggregatesFit(aggregates')
    BY <1>1, <1>3, <1>4, LearntFits DEF VisibleInv, AskedFits, WalkFits, LearnedFits, RowsHere
<1>6. LearnedFits'
    BY <1>1, <1>5, SameVisible DEF LearnedFits, AggregatesFit
<1>7. WalkFits' /\ GroupsCount'
    BY <1>1, <1>2 DEF VisibleInv, WalkFits, GroupsCount
<1>8. ValuesTell'
    BY <1>1 DEF ValuesTell
<1> QED BY <1>2, <1>6, <1>7, <1>8 DEF VisibleInv

LEMMA UnauthorizedKeeps == ASSUME VisibleInv, Unauthorized PROVE VisibleInv'
<1>1. /\ pc' = "row"
      /\ UNCHANGED <<asked, todo, row, k, aggregates, shown, heap, outbuf, accepted>>
    BY DEF Unauthorized, walk, printing, sorter
<1>2. /\ AskedFits' /\ LearnedFits' /\ SorterFits' /\ AcceptedSeen' /\ ShownTells' /\ NothingYet'
      /\ RowsHere' = RowsHere
    BY <1>1, SameFits
<1>3. WalkFits' /\ GroupsCount' /\ ValuesTell'
    BY <1>1, <1>2 DEF VisibleInv, WalkFits, GroupsCount, ValuesTell
<1> QED BY <1>2, <1>3 DEF VisibleInv

\* Whatever becomes of a row that is accepted, it may be seen.
LEMMA AcceptKeeps ==
    ASSUME VisibleInv, UNCHANGED asked, NEW next, Accept(next)
    PROVE  AcceptedSeen' /\ row \in RowsHere
<1>1. pc = "filter" /\ IsAuthorized(row) /\ accepted' = Append(accepted, row)
    BY DEF Accept
<1>2. row \in RowsHere
    BY <1>1 DEF VisibleInv, WalkFits
<1>3. MaySeeRow(row)
    BY <1>1, <1>2, AuthorizedRow DEF VisibleInv, AskedFits, RowsHere
<1>4. PICK S : S = {r \in RowsHere : MaySeeRow(r)}
    OBVIOUS
<1>5. S = {r \in RowsHere : MaySeeRow(r)}'
    BY <1>4, SameVisible DEF RowsHere
<1>6. accepted \in Seq(S) /\ row \in S
    BY <1>2, <1>3, <1>4 DEF VisibleInv, AcceptedSeen
<1>7. accepted' \in Seq(S)
    BY <1>1, <1>6, AppendedSeq
<1> QED BY <1>2, <1>5, <1>7 DEF AcceptedSeen

LEMMA CountRowKeeps == ASSUME VisibleInv, CountRow PROVE VisibleInv'
<1>1. PICK next \in {"group", "consume"} : DoStats /\ Accept(next)
    BY DEF CountRow
<1>2. /\ pc' = next /\ k' = 1
      /\ UNCHANGED <<asked, todo, row, aggregates, shown, heap, outbuf>>
    BY <1>1 DEF CountRow, Accept, walk, printing, sorter
<1>3. /\ AskedFits' /\ LearnedFits' /\ SorterFits' /\ ShownTells' /\ NothingYet'
      /\ RowsHere' = RowsHere /\ DoStats'
    BY <1>1, <1>2, SameFits
<1>4. AcceptedSeen' /\ row \in RowsHere
    BY <1>1, <1>2, AcceptKeeps
<1>5. WalkFits' /\ GroupsCount' /\ ValuesTell'
    BY <1>1, <1>2, <1>3, <1>4 DEF VisibleInv, WalkFits, GroupsCount, ValuesTell
<1> QED BY <1>3, <1>4, <1>5 DEF VisibleInv

\* A row in the sorter.
LEMMA InsertedFits ==
    ASSUME VisibleInv, UNCHANGED <<asked, outbuf>>, row \in RowsHere, InsertRow(row)
    PROVE  SorterFits'
<1>1. PICK S : heap \in Seq(S) /\ \A e \in S : e.row \in RowsHere
    BY DEF VisibleInv, SorterFits
<1>2. PICK e : e = [key |-> SortKey(row), row |-> row]
    OBVIOUS
<1>3. PICK T : T = S \cup {e}
    OBVIOUS
<1>4. heap \in Seq(T) /\ e \in T /\ \A x \in T : x.row \in RowsHere
    BY <1>1, <1>2, <1>3
<1>5. heap' = Insert(heap, e, query.limit + query.offset)
    BY <1>2 DEF InsertRow
<1>6. heap' \in Seq(T)
    BY <1>4, <1>5, InsertKeeps
<1>7. RowsHere' = RowsHere
    BY SameFits
<1> QED BY <1>4, <1>6, <1>7 DEF VisibleInv, SorterFits

LEMMA SortRowKeeps == ASSUME VisibleInv, SortRow PROVE VisibleInv'
<1>1. /\ Accept("row") /\ InsertRow(row)
      /\ UNCHANGED <<asked, todo, row, aggregates, shown, outbuf>>
    BY DEF SortRow, walk, printing
<1>2. pc' = "row" /\ k' = 1
    BY <1>1 DEF Accept
<1>3. /\ AskedFits' /\ LearnedFits' /\ ShownTells' /\ NothingYet' /\ RowsHere' = RowsHere
    BY <1>1, <1>2, SameFits
<1>4. AcceptedSeen' /\ row \in RowsHere
    BY <1>1, AcceptKeeps
<1>5. SorterFits'
    BY <1>1, <1>4, InsertedFits
<1>6. WalkFits' /\ GroupsCount' /\ ValuesTell'
    BY <1>1, <1>2, <1>3 DEF VisibleInv, WalkFits, GroupsCount, ValuesTell
<1> QED BY <1>3, <1>4, <1>5, <1>6 DEF VisibleInv

LEMMA RefuseRowKeeps == ASSUME VisibleInv, RefuseRow PROVE VisibleInv'
<1>1. /\ Accept("row") /\ todo' \in {todo, Tail(todo)}
      /\ UNCHANGED <<asked, row, aggregates, shown, heap, outbuf>>
    BY DEF RefuseRow, printing
<1>2. pc = "filter" /\ pc' = "row" /\ k' = 1
    BY <1>1 DEF Accept
<1>3. /\ AskedFits' /\ LearnedFits' /\ SorterFits' /\ ShownTells' /\ NothingYet'
      /\ RowsHere' = RowsHere
    BY <1>1, <1>2, SameFits
<1>4. AcceptedSeen'
    BY <1>1, AcceptKeeps
<1>5. todo \in Seq(Seq(RowsHere)) /\ todo # <<>>
    BY <1>2 DEF VisibleInv, WalkFits
<1>6. Tail(todo) \in Seq(Seq(RowsHere))
    BY <1>5
<1>7. todo' \in Seq(Seq(RowsHere))
    BY <1>1, <1>5, <1>6
<1>8. WalkFits' /\ GroupsCount' /\ ValuesTell'
    BY <1>2, <1>3, <1>7 DEF WalkFits, GroupsCount, ValuesTell
<1> QED BY <1>3, <1>4, <1>8 DEF VisibleInv

\* A row of which nothing is printed yet.
LEMMA NoValues ==
    ASSUME AskedFits', k' = 1, values' = <<>>
    PROVE  ValuesTell'
<1>1. Len(query'.columns) \in Nat
    <2>1. PICK C : query'.columns \in Seq(C)
        BY DEF AskedFits, QueryFits
    <2> QED BY <2>1
<1>2. \E S : values' \in Seq(S) /\ Len(values') = k' - 1
    <2>1. PICK S : S = {}
        OBVIOUS
    <2>2. values' \in Seq(S) /\ Len(values') = k' - 1
        OBVIOUS
    <2> QED BY <2>2
<1>3. \A m \in 1 .. k' - 1 : FALSE
    OBVIOUS
<1> QED BY <1>1, <1>2, <1>3 DEF ValuesTell

LEMMA PlainRowKeeps == ASSUME VisibleInv, PlainRow PROVE VisibleInv'
<1>1. PICK next \in {"row", "print"} : Accept(next)
    BY DEF PlainRow
<1>2. /\ pc' = next /\ k' = 1 /\ values' = <<>>
      /\ UNCHANGED <<asked, todo, row, aggregates, shown, heap, outbuf>>
    BY <1>1 DEF PlainRow, Accept, walk, printing
<1>3. /\ AskedFits' /\ LearnedFits' /\ SorterFits' /\ ShownTells' /\ NothingYet'
      /\ RowsHere' = RowsHere
    BY <1>1, <1>2, SameFits
<1>4. AcceptedSeen' /\ row \in RowsHere
    BY <1>1, <1>2, AcceptKeeps
<1>5. WalkFits' /\ GroupsCount'
    BY <1>1, <1>2, <1>3, <1>4 DEF VisibleInv, WalkFits, GroupsCount
<1>6. ValuesTell'
    BY <1>2, <1>3, NoValues
<1> QED BY <1>3, <1>4, <1>5, <1>6 DEF VisibleInv

\* A column of the query is one of its table, and what is learnt of it fits.
LEMMA ColumnKeeps ==
    ASSUME VisibleInv, UNCHANGED asked, k <= Len(query.columns), row \in RowsHere,
           aggregates' = Learnt(Column, row)
    PROVE  /\ LearnedFits' /\ TellsOnlyVisible(Column, row, ValueOf(Column, row))
           /\ k \in 1 .. Len(query.columns) /\ Len(query.columns) \in Nat
<1>1. PICK C, columns : columns = query.columns /\ columns \in Seq(C)
                        /\ \A c \in C : ColumnFits(request.table, c)
    BY DEF VisibleInv, AskedFits, QueryFits
<1>2. k \in 1 .. Len(columns) /\ Len(columns) \in Nat
    BY <1>1 DEF VisibleInv, WalkFits
<1>3. PICK c \in C : c = columns[k]
    BY <1>1, <1>2
<1>4. c = Column
    BY <1>1, <1>3 DEF Column
<1>5. auth \in Auths /\ request \in Requests /\ AggregatesFit(aggregates) /\ row \in RowsOf(request.table)
    BY DEF VisibleInv, AskedFits, LearnedFits, RowsHere
<1>6. AggregatesFit(Learnt(c, row)) /\ TellsOnlyVisible(c, row, ValueOf(c, row))
    BY <1>1, <1>5, LearntFits, ValueTells
<1>7. LearnedFits'
    BY <1>4, <1>6, SameVisible DEF LearnedFits, AggregatesFit
<1> QED BY <1>1, <1>2, <1>4, <1>6, <1>7

\* The next value of a row that is printed, or of a group.
LEMMA ValuesGrow ==
    ASSUME VisibleInv, UNCHANGED <<asked, pc, row>>, row \in RowsHere, k <= Len(query.columns),
           values' = Append(values, ValueOf(Column, row)), aggregates' = Learnt(Column, row), k' = k + 1
    PROVE  ValuesTell'
<1>1. SUFFICES ASSUME pc \in {"print", "regroup"} PROVE ValuesTell'
    BY DEF ValuesTell
<1>2. /\ TellsOnlyVisible(Column, row, ValueOf(Column, row))
      /\ k \in 1 .. Len(query.columns) /\ Len(query.columns) \in Nat
    BY ColumnKeeps
<1>3. PICK S : values \in Seq(S) /\ Len(values) = k - 1
    BY <1>1 DEF VisibleInv, ValuesTell
<1>4. PICK v, T : v = ValueOf(Column, row) /\ T = S \cup {v}
    OBVIOUS
<1>5. values \in Seq(T) /\ v \in T
    BY <1>3, <1>4
<1>6. PICK n \in Nat : n = k /\ n >= 1
    BY <1>2
<1>7. /\ values' \in Seq(T) /\ Len(values') = n
      /\ values'[n] = v /\ \A m \in 1 .. n - 1 : values'[m] = values[m]
    BY <1>1, <1>3, <1>4, <1>5, <1>6, AppendedSeq
<1>8. \A m \in 1 .. n : m = n \/ m \in 1 .. n - 1
    OBVIOUS
<1>9. \A m \in 1 .. n - 1 : TellsOnlyVisible(query.columns[m], row, values[m])
    BY <1>1, <1>6 DEF VisibleInv, ValuesTell
<1>10. TellsOnlyVisible(query.columns[n], row, v)
    BY <1>2, <1>4, <1>6 DEF Column
<1>11. \A m \in 1 .. n : TellsOnlyVisible(query.columns[m], row, values'[m])
    BY <1>7, <1>8, <1>9, <1>10
<1>12. k' = n + 1 /\ n + 1 <= Len(query.columns) + 1 /\ (n + 1) - 1 = n
    BY <1>2, <1>6
<1>13. PICK columns, r, printed : columns = query.columns /\ r = row /\ printed = values'
    OBVIOUS
<1>14. \A m \in 1 .. n : TellsOnlyVisible(columns[m], r, printed[m])'
    BY <1>1, <1>11, <1>13, SameVisible
<1>15. columns = query'.columns /\ r = row'
    BY <1>1, <1>13, SameVisible
<1> QED BY <1>1, <1>7, <1>12, <1>13, <1>14, <1>15 DEF ValuesTell

LEMMA PrintColumnKeeps == ASSUME VisibleInv, PrintColumn PROVE VisibleInv'
<1>1. /\ pc = "print" /\ k <= Len(query.columns)
      /\ values' = Append(values, ValueOf(Column, row)) /\ aggregates' = Learnt(Column, row)
      /\ k' = k + 1
      /\ UNCHANGED <<asked, pc, todo, row, shown, heap, outbuf, accepted>>
    BY DEF PrintColumn, walk, sorter
<1>2. /\ AskedFits' /\ SorterFits' /\ AcceptedSeen' /\ ShownTells' /\ NothingYet'
      /\ RowsHere' = RowsHere
    BY <1>1, SameFits
<1>3. row \in RowsHere
    BY <1>1 DEF VisibleInv, WalkFits
<1>4. /\ LearnedFits' /\ TellsOnlyVisible(Column, row, ValueOf(Column, row))
      /\ k \in 1 .. Len(query.columns) /\ Len(query.columns) \in Nat
    BY <1>1, <1>3, ColumnKeeps
<1>5. WalkFits' /\ GroupsCount'
    BY <1>1, <1>2, <1>3, <1>4 DEF WalkFits, GroupsCount, VisibleInv
<1>6. ValuesTell'
    BY <1>1, <1>3, ValuesGrow
<1> QED BY <1>2, <1>4, <1>5, <1>6 DEF VisibleInv

\* A row that is shown, or a group.
LEMMA RowShown ==
    ASSUME VisibleInv, UNCHANGED asked, pc \in {"print", "regroup"}, k > Len(query.columns),
           NEW e, e.row = row, e.values = values, shown' = Append(shown, e)
    PROVE  ShownTells'
<1>1. PICK S : shown \in Seq(S) /\ \A entry \in S : Tells(entry)
    BY DEF VisibleInv, ShownTells
<1>2. Tells(e)
    <2>1. PICK C : query.columns \in Seq(C)
        BY DEF VisibleInv, AskedFits, QueryFits
    <2>2. DOMAIN query.columns = 1 .. Len(query.columns) /\ Len(query.columns) \in Nat
        BY <2>1
    <2>3. k = Len(query.columns) + 1
        BY <2>2 DEF VisibleInv, WalkFits, ValuesTell
    <2>4. \A m \in 1 .. k - 1 : TellsOnlyVisible(query.columns[m], row, values[m])
        BY DEF VisibleInv, ValuesTell
    <2>5. \A m \in DOMAIN query.columns : TellsOnlyVisible(query.columns[m], row, values[m])
        BY <2>2, <2>3, <2>4
    <2> QED BY <2>5 DEF Tells
<1>3. PICK T : T = S \cup {e}
    OBVIOUS
<1>4. shown \in Seq(T) /\ e \in T /\ \A entry \in T : Tells(entry)
    BY <1>1, <1>2, <1>3
<1>5. shown' \in Seq(T)
    BY <1>4, AppendedSeq
<1>6. \A entry \in T : Tells(entry)'
    BY <1>4, SameVisible DEF Tells
<1> QED BY <1>5, <1>6 DEF ShownTells

LEMMA PrintEndKeeps == ASSUME VisibleInv, PrintEnd PROVE VisibleInv'
<1>1. /\ pc = "print" /\ k > Len(query.columns) /\ pc' \in {"output", "row"}
      /\ shown' = Append(shown, [row |-> row, values |-> values, results |-> <<>>])
      /\ UNCHANGED <<asked, todo, row, k, aggregates, values, heap, outbuf, accepted>>
    BY DEF PrintEnd, walk, sorter
<1>2. /\ AskedFits' /\ LearnedFits' /\ SorterFits' /\ AcceptedSeen' /\ NothingYet'
      /\ RowsHere' = RowsHere /\ (DoStats' <=> DoStats)
    BY <1>1, SameFits
<1>3. WalkFits' /\ GroupsCount' /\ ValuesTell'
    BY <1>1, <1>2 DEF VisibleInv, WalkFits, GroupsCount, ValuesTell
<1>4. ShownTells'
    <2>1. PICK e : e = [row |-> row, values |-> values, results |-> <<>>]
        OBVIOUS
    <2> QED BY <1>1, <2>1, RowShown
<1> QED BY <1>2, <1>3, <1>4 DEF VisibleInv

LEMMA GroupColumnKeeps == ASSUME VisibleInv, GroupColumn PROVE VisibleInv'
<1>1. /\ pc \in {"group", "regroup"} /\ k <= Len(query.columns)
      /\ values' = Append(values, ValueOf(Column, row)) /\ aggregates' = Learnt(Column, row)
      /\ k' = k + 1
      /\ UNCHANGED <<asked, pc, todo, row, shown, heap, outbuf, accepted>>
    BY DEF GroupColumn, walk, printing, sorter
<1>2. /\ AskedFits' /\ SorterFits' /\ AcceptedSeen' /\ ShownTells' /\ NothingYet'
      /\ RowsHere' = RowsHere /\ (DoStats' <=> DoStats)
    BY <1>1, SameFits
<1>3. row \in RowsHere
    BY <1>1 DEF VisibleInv, WalkFits
<1>4. LearnedFits'
    BY <1>1, <1>3, ColumnKeeps
<1>5. WalkFits' /\ GroupsCount'
    BY <1>1, <1>2, <1>3 DEF VisibleInv, WalkFits, GroupsCount
<1>6. ValuesTell'
    BY <1>1, <1>3, ValuesGrow
<1> QED BY <1>2, <1>4, <1>5, <1>6 DEF VisibleInv

LEMMA StatsGroupKeeps == ASSUME VisibleInv, StatsGroup PROVE VisibleInv'
<1>1. /\ pc = "group" /\ pc' = "consume" /\ k' = 1
      /\ UNCHANGED heap \/ InsertRow(row)
      /\ UNCHANGED <<asked, todo, row, aggregates, shown, outbuf, accepted>>
    BY DEF StatsGroup, walk, printing
<1>2. /\ AskedFits' /\ LearnedFits' /\ AcceptedSeen' /\ ShownTells' /\ NothingYet'
      /\ RowsHere' = RowsHere /\ (DoStats' <=> DoStats)
    BY <1>1, SameFits
<1>3. row \in RowsHere
    BY <1>1 DEF VisibleInv, WalkFits
<1>4. SorterFits'
    BY <1>1, <1>3, InsertedFits, SameFits
<1>5. WalkFits' /\ GroupsCount' /\ ValuesTell'
    BY <1>1, <1>2, <1>3 DEF VisibleInv, WalkFits, GroupsCount, ValuesTell
<1> QED BY <1>2, <1>4, <1>5 DEF VisibleInv

LEMMA StatsColumnFits ==
    ASSUME VisibleInv, k <= Len(query.stats)
    PROVE  query.stats[k].kind # "other" => ColumnFits(request.table, query.stats[k].column)
<1>1. PICK S, all : all = query.stats /\ all \in Seq(S)
                    /\ \A x \in S : x.kind # "other" => ColumnFits(request.table, x.column)
    BY DEF VisibleInv, AskedFits, QueryFits
<1>2. k \in 1 .. Len(all)
    BY <1>1 DEF VisibleInv, WalkFits
<1>3. all[k] \in S
    BY <1>1, <1>2
<1> QED BY <1>1, <1>3

LEMMA ConsumeColumnKeeps == ASSUME VisibleInv, ConsumeColumn PROVE VisibleInv'
<1>1. /\ pc = "consume" /\ k <= Len(query.stats) /\ k' = k + 1
      /\ aggregates' = IF query.stats[k].kind = "other" THEN aggregates
                       ELSE Learnt(query.stats[k].column, row)
      /\ UNCHANGED <<asked, pc, todo, row, shown, values, heap, outbuf, accepted>>
    BY DEF ConsumeColumn, walk, printing, sorter
<1>2. /\ AskedFits' /\ SorterFits' /\ AcceptedSeen' /\ ShownTells' /\ NothingYet'
      /\ RowsHere' = RowsHere /\ (DoStats' <=> DoStats)
    BY <1>1, SameFits
<1>3. PICK s : s = query.stats[k]
    OBVIOUS
<1>4. s.kind # "other" => ColumnFits(request.table, s.column)
    BY <1>1, <1>3, StatsColumnFits
<1>5. auth \in Auths /\ request \in Requests /\ AggregatesFit(aggregates) /\ row \in RowsOf(request.table)
    BY <1>1 DEF VisibleInv, AskedFits, LearnedFits, WalkFits, RowsHere
<1>6. AggregatesFit(aggregates')
    BY <1>1, <1>3, <1>4, <1>5, LearntFits
<1>7. LearnedFits'
    BY <1>1, <1>6, SameVisible DEF LearnedFits, AggregatesFit
<1>8. WalkFits' /\ GroupsCount' /\ ValuesTell'
    BY <1>1, <1>2 DEF VisibleInv, WalkFits, GroupsCount, ValuesTell
<1> QED BY <1>2, <1>7, <1>8 DEF VisibleInv

LEMMA ConsumeEndKeeps == ASSUME VisibleInv, ConsumeEnd PROVE VisibleInv'
<1>1. /\ pc' = "row"
      /\ UNCHANGED <<asked, todo, row, k, aggregates, shown, heap, outbuf, accepted>>
    BY DEF ConsumeEnd, walk, printing, sorter
<1>2. /\ AskedFits' /\ LearnedFits' /\ SorterFits' /\ AcceptedSeen' /\ ShownTells' /\ NothingYet'
      /\ RowsHere' = RowsHere
    BY <1>1, SameFits
<1>3. WalkFits' /\ GroupsCount' /\ ValuesTell'
    BY <1>1, <1>2 DEF VisibleInv, WalkFits, GroupsCount, ValuesTell
<1> QED BY <1>2, <1>3 DEF VisibleInv

LEMMA FinishKeeps == ASSUME VisibleInv, Finish PROVE VisibleInv'
<1>1. /\ outbuf' = Extracted /\ heap' = <<>> /\ pc' = "output"
      /\ UNCHANGED <<asked, todo, row, k, aggregates, shown, accepted>>
    BY DEF Finish, walk, printing
<1>2. /\ AskedFits' /\ LearnedFits' /\ AcceptedSeen' /\ ShownTells' /\ NothingYet'
      /\ RowsHere' = RowsHere
    BY <1>1, SameFits
<1>3. SorterFits'
    <2>1. PICK S : heap \in Seq(S) /\ \A e \in S : e.row \in RowsHere
        BY DEF VisibleInv, SorterFits
    <2>2. query.limit \in Nat \cup {-1} /\ query.offset \in Nat
        BY DEF VisibleInv, AskedFits, QueryFits
    <2>3. outbuf' \in Seq(S)
        BY <1>1, <2>1, <2>2, ExtractedKeeps
    <2>4. heap' \in Seq(S)
        BY <1>1
    <2> QED BY <1>2, <2>1, <2>3, <2>4 DEF SorterFits
<1>4. WalkFits' /\ GroupsCount' /\ ValuesTell'
    BY <1>1, <1>2 DEF VisibleInv, WalkFits, GroupsCount, ValuesTell
<1> QED BY <1>2, <1>3, <1>4 DEF VisibleInv

LEMMA OutputNextKeeps == ASSUME VisibleInv, OutputNext PROVE VisibleInv'
<1>1. /\ outbuf # <<>> /\ row' = Last(outbuf).row /\ outbuf' = Front(outbuf)
      /\ k' = 1 /\ values' = <<>> /\ pc' = IF Grouped THEN "regroup" ELSE "print"
      /\ UNCHANGED <<asked, todo, aggregates, shown, heap, accepted>>
    BY DEF OutputNext, printing
<1>2. /\ AskedFits' /\ LearnedFits' /\ AcceptedSeen' /\ ShownTells' /\ NothingYet'
      /\ RowsHere' = RowsHere /\ (DoStats' <=> DoStats)
    BY <1>1, SameFits
<1>3. PICK S, buffer : buffer = outbuf /\ buffer \in Seq(S) /\ \A e \in S : e.row \in RowsHere
    BY DEF VisibleInv, SorterFits
<1>4. SubSeq(buffer, 1, Len(buffer) - 1) \in Seq(S)
    BY <1>3, ShorterSeq
<1>5. outbuf' \in Seq(S)
    BY <1>1, <1>3, <1>4 DEF Front
<1>6. row' \in RowsHere
    <2>1. buffer[Len(buffer)] \in S
        BY <1>1, <1>3
    <2> QED BY <1>1, <1>3, <2>1 DEF Last
<1>7. SorterFits'
    BY <1>1, <1>2, <1>3, <1>5 DEF VisibleInv, SorterFits
<1>8. WalkFits' /\ GroupsCount'
    BY <1>1, <1>2, <1>6 DEF VisibleInv, WalkFits, GroupsCount, Grouped
<1>9. ValuesTell'
    BY <1>1, <1>2, NoValues
<1> QED BY <1>2, <1>7, <1>8, <1>9 DEF VisibleInv

LEMMA OutputGroupKeeps == ASSUME VisibleInv, OutputGroup PROVE VisibleInv'
<1>1. /\ pc = "regroup" /\ pc' = "output" /\ k > Len(query.columns)
      /\ UNCHANGED <<asked, todo, row, k, aggregates, values, heap, outbuf, accepted>>
    BY DEF OutputGroup, walk, sorter
<1>2. /\ AskedFits' /\ LearnedFits' /\ SorterFits' /\ AcceptedSeen' /\ NothingYet'
      /\ RowsHere' = RowsHere /\ (DoStats' <=> DoStats)
    BY <1>1, SameFits
<1>3. ShownTells'
    <2>1. PICK e : e = [row |-> row, values |-> values, results |-> Results(values)]
        OBVIOUS
    <2>2. shown' = Append(shown, e)
        BY <2>1 DEF OutputGroup, Output
    <2> QED BY <1>1, <2>1, <2>2, RowShown
<1>4. WalkFits' /\ GroupsCount' /\ ValuesTell'
    BY <1>1, <1>2 DEF VisibleInv, WalkFits, GroupsCount, ValuesTell
<1> QED BY <1>2, <1>3, <1>4 DEF VisibleInv

\* Statistics that are not grouped show no columns.
LEMMA OutputEndKeeps == ASSUME VisibleInv, OutputEnd PROVE VisibleInv'
<1>1. /\ pc' = "trailer"
      /\ UNCHANGED <<asked, todo, row, k, aggregates, values, heap, outbuf, accepted>>
    BY DEF OutputEnd, walk, sorter
<1>2. /\ AskedFits' /\ LearnedFits' /\ SorterFits' /\ AcceptedSeen' /\ NothingYet'
      /\ RowsHere' = RowsHere /\ (DoStats' <=> DoStats)
    BY <1>1, SameFits
<1>3. ShownTells'
    <2>1. CASE UNCHANGED shown
        BY <1>1, <2>1, SameFits
    <2>2. CASE DoStats /\ ~Grouped /\ Output(<<>>, NoObject)
        <3>1. PICK e : shown' = Append(shown, e)
            BY <2>2 DEF Output
        <3>2. \A m \in DOMAIN query.columns : FALSE
            BY <2>2 DEF Grouped
        <3>3. PICK S : shown \in Seq(S) /\ \A entry \in S : Tells(entry)
            BY DEF VisibleInv, ShownTells
        <3>4. PICK T : T = S \cup {e}
            OBVIOUS
        <3>5. shown \in Seq(T) /\ e \in T
            BY <3>3, <3>4
        <3>6. shown' \in Seq(T)
            BY <3>1, <3>5, AppendedSeq
        <3>7. \A entry \in T : Tells(entry)'
            BY <1>1, <3>2, SameVisible DEF Tells
        <3> QED BY <3>6, <3>7 DEF ShownTells
    <2> QED BY <2>1, <2>2 DEF OutputEnd, printing
<1>4. WalkFits' /\ GroupsCount' /\ ValuesTell'
    BY <1>1, <1>2 DEF VisibleInv, WalkFits, GroupsCount, ValuesTell
<1> QED BY <1>2, <1>3, <1>4 DEF VisibleInv

LEMMA PrintTrailerKeeps == ASSUME VisibleInv, PrintTrailer PROVE VisibleInv'
<1>1. /\ pc' = "done"
      /\ UNCHANGED <<asked, todo, row, k, aggregates, shown, heap, outbuf, accepted>>
    BY DEF PrintTrailer, walk, sorter
<1>2. /\ AskedFits' /\ LearnedFits' /\ SorterFits' /\ AcceptedSeen' /\ ShownTells' /\ NothingYet'
      /\ RowsHere' = RowsHere
    BY <1>1, SameFits
<1>3. WalkFits' /\ GroupsCount' /\ ValuesTell'
    BY <1>1, <1>2 DEF VisibleInv, WalkFits, GroupsCount, ValuesTell
<1> QED BY <1>2, <1>3 DEF VisibleInv

LEMMA StutterKeeps == ASSUME VisibleInv, UNCHANGED vars PROVE VisibleInv'
<1>1. UNCHANGED <<asked, pc, todo, row, k, aggregates, shown, values, heap, outbuf, accepted>>
    BY DEF vars, walk, printing, sorter
<1>2. /\ AskedFits' /\ LearnedFits' /\ SorterFits' /\ AcceptedSeen' /\ ShownTells'
      /\ RowsHere' = RowsHere /\ (DoStats' <=> DoStats)
    BY <1>1, SameFits
<1>3. NothingYet' /\ WalkFits' /\ GroupsCount'
    BY <1>1, <1>2 DEF VisibleInv, NothingYet, WalkFits, GroupsCount
<1>4. ValuesTell'
    BY <1>1, SameVisible DEF VisibleInv, ValuesTell
<1> QED BY <1>2, <1>3, <1>4 DEF VisibleInv

-----------------------------------------------------------------------------
(* The theorem                                                             *)

LEMMA VisibleAtFirst == ASSUME Init PROVE VisibleInv
<1>1. /\ request \in Requests /\ auth \in Auths /\ query = Defaults /\ pc = "headers"
      /\ todo = <<>> /\ k = 1 /\ aggregates = <<>> /\ heap = <<>> /\ outbuf = <<>>
      /\ shown = <<>> /\ accepted = <<>>
    BY DEF Init
<1>2. AskedFits
    BY <1>1, DefaultsFit DEF AskedFits
<1>3. NothingYet /\ WalkFits /\ GroupsCount /\ ValuesTell /\ LearnedFits /\ AcceptedSeen
    BY <1>1 DEF NothingYet, WalkFits, GroupsCount, ValuesTell, LearnedFits, AggregatesFit, AcceptedSeen
<1>4. PICK S : S = {}
    OBVIOUS
<1>5. /\ heap \in Seq(S) /\ outbuf \in Seq(S) /\ shown \in Seq(S)
      /\ \A e \in S : e.row \in RowsHere /\ Tells(e)
    BY <1>1, <1>4
<1>6. SorterFits /\ ShownTells
    BY <1>5 DEF SorterFits, ShownTells
<1> QED BY <1>2, <1>3, <1>6 DEF VisibleInv

LEMMA VisibleKept == ASSUME VisibleInv, [Next]_vars PROVE VisibleInv'
<1>1. CASE Check BY <1>1, CheckKeeps
<1>2. CASE ReadHeaders BY <1>2, ReadHeadersKeeps
<1>3. CASE Start BY <1>3, StartKeeps
<1>4. CASE NextList BY <1>4, NextListKeeps
<1>5. CASE NextRow BY <1>5, NextRowKeeps
<1>6. CASE Filter BY <1>6, FilterKeeps
<1>7. CASE Unauthorized BY <1>7, UnauthorizedKeeps
<1>8. CASE CountRow BY <1>8, CountRowKeeps
<1>9. CASE SortRow BY <1>9, SortRowKeeps
<1>10. CASE RefuseRow BY <1>10, RefuseRowKeeps
<1>11. CASE PlainRow BY <1>11, PlainRowKeeps
<1>12. CASE PrintColumn BY <1>12, PrintColumnKeeps
<1>13. CASE PrintEnd BY <1>13, PrintEndKeeps
<1>14. CASE GroupColumn BY <1>14, GroupColumnKeeps
<1>15. CASE StatsGroup BY <1>15, StatsGroupKeeps
<1>16. CASE ConsumeColumn BY <1>16, ConsumeColumnKeeps
<1>17. CASE ConsumeEnd BY <1>17, ConsumeEndKeeps
<1>18. CASE Finish BY <1>18, FinishKeeps
<1>19. CASE OutputNext BY <1>19, OutputNextKeeps
<1>20. CASE OutputGroup BY <1>20, OutputGroupKeeps
<1>21. CASE OutputEnd BY <1>21, OutputEndKeeps
<1>22. CASE PrintTrailer BY <1>22, PrintTrailerKeeps
<1>23. CASE Done \/ UNCHANGED vars
    BY <1>23, StutterKeeps DEF Done
<1> QED BY <1>1, <1>2, <1>3, <1>4, <1>5, <1>6, <1>7, <1>8, <1>9, <1>10, <1>11, <1>12, <1>13, <1>14,
           <1>15, <1>16, <1>17, <1>18, <1>19, <1>20, <1>21, <1>22, <1>23 DEF Next

\* What an aggregator takes of a row that it may see tells only what is visible.
LEMMA ConsumeTells == ASSUME VisibleInv, ConsumedTells, ConsumeColumn PROVE ConsumedTells'
<1>1. pc = "consume" /\ pc' = pc /\ k <= Len(query.stats) /\ UNCHANGED asked
    BY DEF ConsumeColumn
<1>2. PICK s : s = query.stats[k]
    OBVIOUS
<1>3. PICK e : e = [row |-> row, column |-> k, value |-> StatsValue(s)]
    OBVIOUS
<1>4. consumed' = [consumed EXCEPT ![values] = Append(@, e)]
    BY <1>2, <1>3 DEF ConsumeColumn
<1>5. CountsOnlyVisible(e)
    <2>1. SUFFICES ASSUME s.kind \notin {"filter", "other"}
                   PROVE  TellsOnlyVisible(s.column, row, StatsValue(s))
        BY <1>2, <1>3 DEF CountsOnlyVisible
    <2>2. ColumnFits(request.table, s.column)
        BY <1>1, <1>2, <2>1, StatsColumnFits
    <2>3. StatsValue(s) = ValueOf(s.column, row)
        BY <2>1 DEF StatsValue
    <2>4. auth \in Auths /\ request \in Requests /\ AggregatesFit(aggregates) /\ row \in RowsOf(request.table)
        BY <1>1 DEF VisibleInv, AskedFits, LearnedFits, WalkFits, RowsHere
    <2> QED BY <2>2, <2>3, <2>4, ValueTells
<1>6. \A x : CountsOnlyVisible(x)' <=> CountsOnlyVisible(x)
    BY <1>1, SameVisible DEF CountsOnlyVisible
<1>7. ASSUME NEW g \in DOMAIN consumed'
      PROVE  \E S : consumed'[g] \in Seq(S) /\ \A x \in S : CountsOnlyVisible(x)'
    <2>1. PICK S, list : list = consumed[g] /\ list \in Seq(S) /\ \A x \in S : CountsOnlyVisible(x)
        BY <1>4 DEF ConsumedTells
    <2>2. PICK T : T = S \cup {e}
        OBVIOUS
    <2>3. list \in Seq(T) /\ e \in T /\ \A x \in T : CountsOnlyVisible(x)'
        BY <1>5, <1>6, <2>1, <2>2
    <2>4. Append(list, e) \in Seq(T)
        BY <2>3, AppendedSeq
    <2>5. consumed'[g] \in {list, Append(list, e)}
        BY <1>4, <2>1
    <2> QED BY <2>3, <2>4, <2>5
<1> QED BY <1>1, <1>7 DEF ConsumedTells

\* Groups are new, or hold what they held.
LEMMA GroupsTell ==
    ASSUME ConsumedTells, UNCHANGED asked, pc' # "headers",
           \A g \in DOMAIN consumed' : \/ g \in DOMAIN consumed /\ consumed'[g] = consumed[g]
                                       \/ consumed'[g] = <<>>
    PROVE  ConsumedTells'
<1>1. \A x : CountsOnlyVisible(x)' <=> CountsOnlyVisible(x)
    BY SameVisible DEF CountsOnlyVisible
<1>2. ASSUME NEW g \in DOMAIN consumed'
      PROVE  \E S : consumed'[g] \in Seq(S) /\ \A x \in S : CountsOnlyVisible(x)'
    <2>1. CASE consumed'[g] = <<>>
        <3>1. PICK S : S = {}
            OBVIOUS
        <3>2. consumed'[g] \in Seq(S) /\ \A x \in S : CountsOnlyVisible(x)'
            BY <2>1, <3>1
        <3> QED BY <3>2
    <2>2. CASE g \in DOMAIN consumed /\ consumed'[g] = consumed[g]
        <3>1. PICK S : consumed[g] \in Seq(S) /\ \A x \in S : CountsOnlyVisible(x)
            BY <2>2 DEF ConsumedTells
        <3> QED BY <1>1, <2>2, <3>1
    <2> QED BY <2>1, <2>2
<1> QED BY <1>2 DEF ConsumedTells

LEMMA ConsumedKeeps == ASSUME VisibleInv, ConsumedTells, [Next]_vars PROVE ConsumedTells'
<1>1. CASE ConsumeColumn
    BY <1>1, ConsumeTells
<1>2. CASE ReadHeaders
    <2>1. consumed' = <<>>
        BY <1>2 DEF ReadHeaders, stats, ConsumedTells
    <2>2. \A g \in DOMAIN consumed' : FALSE
        BY <2>1
    <2> QED BY <2>1, <2>2 DEF ConsumedTells
<1>3. CASE Start
    <2>1. UNCHANGED asked /\ pc' # "headers"
        BY <1>3 DEF Start
    <2>2. CASE consumed' = consumed
        BY <2>1, <2>2, GroupsTell
    <2>3. CASE consumed' = WithGroup(consumed, <<>>, NoRows)
        <3>1. \A g \in DOMAIN consumed' : \/ g \in DOMAIN consumed /\ consumed'[g] = consumed[g]
                                          \/ consumed'[g] = <<>>
            BY <2>3 DEF NoRows, WithGroup
        <3> QED BY <2>1, <3>1, GroupsTell
    <2> QED BY <1>3, <2>2, <2>3 DEF Start, stats
<1>4. CASE StatsGroup \/ OutputGroup
    <2>1. UNCHANGED asked /\ pc' # "headers"
        BY <1>4 DEF StatsGroup, OutputGroup
    <2>2. CASE consumed' = consumed
        BY <2>1, <2>2, GroupsTell
    <2>3. CASE consumed' = WithGroup(consumed, values, NoRows)
        <3>1. \A g \in DOMAIN consumed' : \/ g \in DOMAIN consumed /\ consumed'[g] = consumed[g]
                                          \/ consumed'[g] = <<>>
            BY <2>3 DEF NoRows, WithGroup
        <3> QED BY <2>1, <3>1, GroupsTell
    <2> QED BY <1>4, <2>2, <2>3 DEF StatsGroup, OutputGroup, stats
<1>5. CASE \/ Check \/ NextList \/ NextRow \/ Filter \/ Unauthorized \/ CountRow \/ SortRow
           \/ RefuseRow \/ PlainRow \/ PrintColumn \/ PrintEnd \/ GroupColumn \/ ConsumeEnd
           \/ Finish \/ OutputNext \/ OutputEnd \/ PrintTrailer
    <2>1. UNCHANGED <<stats, asked>> /\ pc' # "headers"
        BY <1>5 DEF Check, NextList, NextRow, Filter, Unauthorized, CountRow, SortRow, RefuseRow,
                    PlainRow, Accept, PrintColumn, PrintEnd, GroupColumn, ConsumeEnd, Finish,
                    OutputNext, OutputEnd, PrintTrailer
    <2>2. consumed' = consumed
        BY <2>1 DEF stats
    <2> QED BY <2>1, <2>2, GroupsTell
<1>6. CASE Done \/ UNCHANGED vars
    <2>1. UNCHANGED <<consumed, asked, pc>>
        BY <1>6 DEF Done, vars, stats
    <2>2. \A x : CountsOnlyVisible(x)' <=> CountsOnlyVisible(x)
        BY <2>1, SameVisible DEF CountsOnlyVisible
    <2> QED BY <2>1, <2>2 DEF ConsumedTells
<1> QED BY <1>1, <1>2, <1>3, <1>4, <1>5, <1>6 DEF Next

LEMMA VisibleImplies == ASSUME VisibleInv, ConsumedTells PROVE OnlyVisible
<1>1. \A n \in DOMAIN accepted : MaySeeRow(accepted[n])
    <2>1. PICK S : S = {r \in RowsHere : MaySeeRow(r)}
        OBVIOUS
    <2>2. accepted \in Seq(S) /\ \A r \in S : MaySeeRow(r)
        BY <2>1 DEF VisibleInv, AcceptedSeen
    <2> QED BY <2>2
<1>2. ASSUME NEW n \in DOMAIN shown, NEW m \in DOMAIN query.columns
      PROVE  TellsOnlyVisible(query.columns[m], shown[n].row, shown[n].values[m])
    <2>1. PICK S : shown \in Seq(S) /\ \A entry \in S : Tells(entry)
        BY DEF VisibleInv, ShownTells
    <2>2. PICK entry \in S : entry = shown[n]
        BY <2>1
    <2>3. Tells(entry)
        BY <2>1
    <2> QED BY <2>2, <2>3 DEF Tells
<1>3. ASSUME NEW g \in DOMAIN consumed, NEW n \in DOMAIN consumed[g]
      PROVE  CountsOnlyVisible(consumed[g][n])
    <2>1. PICK S, list : list = consumed[g] /\ list \in Seq(S) /\ \A e \in S : CountsOnlyVisible(e)
        BY DEF ConsumedTells
    <2>2. list[n] \in S
        BY <1>3, <2>1
    <2> QED BY <2>1, <2>2
<1> QED BY <1>1, <1>2, <1>3 DEF OnlyVisible

\* Whatever the core's objects, contacts and groups are, whichever table is asked with
\* whichever headers, and however checks change the states while the query runs: rows
\* that are shown or counted are of objects that the contact may see, the lists of
\* members that are printed hold those that it may see, and so do the numbers and the
\* states of a list, printed, grouped by or taken by an aggregator
\* (Table::isAuthorized(), the list columns and the aggregates).  What filters tell,
\* and the names of groups, are not authorized.
THEOREM ToldOnlyVisible == Spec => []OnlyVisible
<1>1. Init => VisibleInv /\ ConsumedTells
    <2>1. Init => consumed = <<>>
        BY DEF Init
    <2>2. consumed = <<>> => \A g \in DOMAIN consumed : FALSE
        OBVIOUS
    <2>3. consumed = <<>> => ConsumedTells
        BY <2>2 DEF ConsumedTells
    <2> QED BY <2>1, <2>3, VisibleAtFirst
<1>2. VisibleInv /\ ConsumedTells /\ [Next]_vars => (VisibleInv /\ ConsumedTells)'
    BY VisibleKept, ConsumedKeeps
<1>3. VisibleInv /\ ConsumedTells => OnlyVisible
    BY VisibleImplies
<1> QED BY <1>1, <1>2, <1>3, PTL DEF Spec

-----------------------------------------------------------------------------
(* Sums                                                                    *)

LEMMA MaxIs ==
    ASSUME NEW L \in Nat, NEW s \in SUBSET (1 .. L), s # {}
    PROVE  Max(s) \in s /\ \A n \in s : n <= Max(s)
<1> DEFINE T == {L - n : n \in s}
<1>0. \A n \in s : n \in Nat /\ n <= L
    OBVIOUS
<1>a. \A n \in s : L - n \in Nat
    BY <1>0
<1>1. T \subseteq Nat /\ T # {}
    BY <1>a
<1>2. PICK t \in T : \A m \in T : t <= m
    BY <1>1, Least
<1>3. PICK n \in s : t = L - n
    BY <1>2
<1>4. \A m \in s : n >= m
    <2> TAKE m \in s
    <2>1. L - m \in T
        OBVIOUS
    <2>2. L - n <= L - m
        BY <1>2, <1>3, <2>1
    <2> QED BY <2>2
<1>5. \E x \in s : \A m \in s : x >= m
    BY <1>4
<1>6. Max(s) \in s /\ \A m \in s : Max(s) >= m
    BY <1>5 DEF Max
<1> QED BY <1>6

\* A recursion that takes the elements of a finite set out, one after the other.
LEMMA Emptying ==
    ASSUME NEW S, IsFiniteSet(S), NEW pick, \A s \in SUBSET S : s # {} => pick[s] \in s
    PROVE  Descends(SUBSET S, {{}}, [s \in SUBSET S |-> s \ {pick[s]}],
                    [s \in SUBSET S |-> Cardinality(s)], Cardinality(S))
<1>1. PICK N \in Nat : N = Cardinality(S)
    BY FS_CardinalityType
<1>2. \A s \in SUBSET S : IsFiniteSet(s) /\ Cardinality(s) \in 0 .. N
    <2> TAKE s \in SUBSET S
    <2>1. IsFiniteSet(s) /\ Cardinality(s) <= N
        BY <1>1, FS_Subset
    <2>2. Cardinality(s) \in Nat
        BY <2>1, FS_CardinalityType
    <2> QED BY <2>1, <2>2
<1>3. ASSUME NEW s \in (SUBSET S) \ {{}}
      PROVE  s \ {pick[s]} \in SUBSET S /\ Cardinality(s \ {pick[s]}) < Cardinality(s)
    <2>1. IsFiniteSet(s) /\ Cardinality(s) \in Nat /\ pick[s] \in s
        BY <1>2
    <2>2. Cardinality(s \ {pick[s]}) = Cardinality(s) - 1
        BY <2>1, FS_RemoveElement
    <2> QED BY <2>1, <2>2
<1> DEFINE next == [s \in SUBSET S |-> s \ {pick[s]}]
           rank == [s \in SUBSET S |-> Cardinality(s)]
<1>4. rank \in [SUBSET S -> 0 .. N]
    BY <1>2
<1>5. \A s \in (SUBSET S) \ {{}} : next[s] \in SUBSET S /\ rank[next[s]] < rank[s]
    BY <1>3
<1> QED BY <1>1, <1>4, <1>5 DEF Descends

\* The sums of a list's beginnings.
Sums(seq, f) ==
    /\ f \in [0 .. Len(seq) -> Int] /\ SumOf(seq) = f[Len(seq)]
    /\ f[0] = 0 /\ \A n \in 1 .. Len(seq) : f[n] = f[n - 1] + seq[n]

LEMMA SumIs == ASSUME NEW seq \in Seq(Int) PROVE \E f : Sums(seq, f)
<1>1. PICK L \in Nat : L = Len(seq)
    OBVIOUS
<1>2. DOMAIN seq = 1 .. L /\ \A n \in 1 .. L : seq[n] \in Int
    BY <1>1
<1>3. PICK pick : pick = [s \in SUBSET (1 .. L) |-> Max(s)]
    OBVIOUS
<1>4. \A s \in SUBSET (1 .. L) : s # {} => pick[s] \in s
    BY <1>3, MaxIs
<1>5. PICK D, next, rank : /\ D = SUBSET (1 .. L)
                           /\ next = [s \in SUBSET (1 .. L) |-> s \ {pick[s]}]
                           /\ rank = [s \in SUBSET (1 .. L) |-> Cardinality(s)]
    OBVIOUS
<1>6. IsFiniteSet(1 .. L)
    BY FS_Interval
<1>7. Descends(D, {{}}, next, rank, Cardinality(1 .. L))
    BY <1>4, <1>5, <1>6, Emptying
<1>8. PICK base, step : /\ base = [s \in D |-> 0]
                        /\ step = [s \in D |-> [v \in Int |-> v + seq[pick[s]]]]
    OBVIOUS
<1>9. \A s \in D : IF s \in {{}} THEN base[s] \in Int ELSE step[s] \in [Int -> Int]
    <2> TAKE s \in D
    <2>1. CASE s = {}
        BY <1>8, <2>1
    <2>2. CASE s # {}
        <3>1. seq[pick[s]] \in Int
            BY <1>2, <1>4, <1>5, <2>2
        <3>2. step[s] = [v \in Int |-> v + seq[pick[s]]]
            BY <1>8
        <3>3. \A v \in Int : v + seq[pick[s]] \in Int
            BY <3>1
        <3> QED BY <2>2, <3>2, <3>3
    <2> QED BY <2>1, <2>2
<1>10. PICK g \in [D -> Int] : \A s \in D : Recurs(g, s, {{}}, next, base, step)
    BY <1>7, <1>9, RecursionExists
<1>11. SumIter(seq, g)
    <2>1. ASSUME NEW s \in D, s # {}
          PROVE  g[s] = g[s \ {Max(s)}] + seq[Max(s)]
        <3>1. g[s] = step[s][g[next[s]]]
            BY <1>10, <2>1 DEF Recurs
        <3>2. next[s] = s \ {Max(s)} /\ next[s] \in D /\ pick[s] = Max(s)
            BY <1>3, <1>5
        <3>3. g[next[s]] \in Int
            BY <3>2
        <3> QED BY <1>8, <3>1, <3>2, <3>3
    <2>2. ASSUME NEW s \in D, s = {}
          PROVE  g[s] = 0
        BY <1>8, <1>10, <2>2 DEF Recurs
    <2>3. \A s \in D : g[s] = IF s = {} THEN 0 ELSE g[s \ {Max(s)}] + seq[Max(s)]
        BY <2>1, <2>2
    <2>4. g = [s \in D |-> g[s]]
        OBVIOUS
    <2>5. g = [s \in D |-> IF s = {} THEN 0 ELSE g[s \ {Max(s)}] + seq[Max(s)]]
        BY <2>3, <2>4
    <2> QED BY <1>2, <1>5, <2>5 DEF SumIter
<1> DEFINE iter == CHOOSE i : SumIter(seq, i)
<1>12. SumIter(seq, iter)
    BY <1>11, Zenon
<1>13. SumOf(seq) = iter[DOMAIN seq]
    BY DEF SumOf, FoldLeft, MapThenFoldSet, SumIter
<1> HIDE DEF iter
<1>14. \A s \in SUBSET (1 .. L) : iter[s] = IF s = {} THEN 0 ELSE iter[s \ {Max(s)}] + seq[Max(s)]
    BY <1>2, <1>12 DEF SumIter
<1>15. iter[1 .. 0] = 0
    <2>1. 1 .. 0 = {} /\ {} \in SUBSET (1 .. L)
        OBVIOUS
    <2> QED BY <1>14, <2>1
<1>16. \A n \in 1 .. L : iter[1 .. n] = iter[1 .. n - 1] + seq[n]
    <2> TAKE n \in 1 .. L
    <2>a. n \in 1 .. n /\ \A m \in 1 .. n : m \in 1 .. L
        OBVIOUS
    <2>1. 1 .. n \in SUBSET (1 .. L) /\ 1 .. n # {} /\ n \in 1 .. n
        BY <2>a
    <2>2. Max(1 .. n) \in 1 .. n /\ \A m \in 1 .. n : m <= Max(1 .. n)
        BY <2>1, MaxIs
    <2>3. Max(1 .. n) = n
        BY <2>1, <2>2
    <2>4. (1 .. n) \ {n} = 1 .. n - 1
        OBVIOUS
    <2>5. iter[1 .. n] = iter[(1 .. n) \ {n}] + seq[n]
        BY <1>14, <2>1, <2>3
    <2> QED BY <2>4, <2>5
<1>17. PICK f : f = [n \in 0 .. L |-> iter[1 .. n]]
    OBVIOUS
<1>18. f[0] = 0 /\ \A n \in 1 .. L : f[n] = f[n - 1] + seq[n]
    <2>1. \A n \in 1 .. L : n \in 0 .. L /\ n - 1 \in 0 .. L
        OBVIOUS
    <2>2. 0 \in 0 .. L
        OBVIOUS
    <2> QED BY <1>15, <1>16, <1>17, <2>1, <2>2
<1>19. PICK T : T = {n \in 0 .. L : f[n] \in Int}
    OBVIOUS
<1>20. \A n \in 0 .. L : n = 0 \/ n - 1 \in T => n \in T
    <2> TAKE n \in 0 .. L
    <2>1. n = 0 => n \in T
        BY <1>18, <1>19
    <2>2. n # 0 /\ n - 1 \in T => n \in T
        BY <1>2, <1>18, <1>19
    <2> QED BY <2>1, <2>2
<1>21. \A n \in 0 .. L : n \in T
    BY <1>20, CountingInduction
<1>22. f \in [0 .. L -> Int]
    BY <1>17, <1>19, <1>21
<1>23. iter[DOMAIN seq] = f[L]
    <2>1. L \in 0 .. L
        OBVIOUS
    <2> QED BY <1>2, <1>17, <2>1
<1> QED BY <1>1, <1>13, <1>18, <1>22, <1>23 DEF Sums

\* A list of sums, line by line, and the sum of all of them.
ListFits(s, L) == s \in Seq(Int) /\ Len(s) = L
Adds(L, a, b, c) ==
    ListFits(a, L) /\ ListFits(b, L) /\ ListFits(c, L) /\ \A n \in 1 .. L : c[n] = a[n] + b[n]

\* Two lists of one length have a list of their sums.
LEMMA AddsExists ==
    ASSUME NEW L \in Nat, NEW a, NEW b, ListFits(a, L), ListFits(b, L)
    PROVE  \E c : Adds(L, a, b, c) /\ ListFits(c, L)
<1>1. PICK c : c = [n \in 1 .. L |-> a[n] + b[n]]
    OBVIOUS
<1>2. \A n \in 1 .. L : a[n] \in Int /\ b[n] \in Int
    BY DEF ListFits
<1>3. ListFits(c, L) /\ \A n \in 1 .. L : c[n] = a[n] + b[n]
    BY <1>1, <1>2 DEF ListFits
<1> QED BY <1>3 DEF Adds

\* The sum of the sums is that of the two lists.
LEMMA SumOfTwo ==
    ASSUME NEW L \in Nat, NEW a, NEW b, NEW c, Adds(L, a, b, c)
    PROVE  SumOf(a) \in Int /\ SumOf(b) \in Int /\ SumOf(c) = SumOf(a) + SumOf(b)
<1>1. \A n \in 1 .. L : a[n] \in Int /\ b[n] \in Int
    BY DEF Adds, ListFits
<1>2. /\ a \in Seq(Int) /\ b \in Seq(Int) /\ c \in Seq(Int)
      /\ L = Len(a) /\ L = Len(b) /\ L = Len(c)
    BY DEF Adds, ListFits
<1>3. PICK f, g, h : Sums(a, f) /\ Sums(b, g) /\ Sums(c, h)
    BY <1>2, SumIs
<1>4. /\ f \in [0 .. L -> Int] /\ SumOf(a) = f[L] /\ f[0] = 0
      /\ g \in [0 .. L -> Int] /\ SumOf(b) = g[L] /\ g[0] = 0
      /\ h \in [0 .. L -> Int] /\ SumOf(c) = h[L] /\ h[0] = 0
    BY <1>2, <1>3 DEF Sums
<1>5. \A n \in 1 .. L : /\ f[n] = f[n - 1] + a[n] /\ g[n] = g[n - 1] + b[n]
                        /\ h[n] = h[n - 1] + c[n] /\ c[n] = a[n] + b[n]
    BY <1>2, <1>3 DEF Sums, Adds
<1>6. PICK T : T = {n \in 0 .. L : h[n] = f[n] + g[n]}
    OBVIOUS
<1>7. \A n \in 0 .. L : n = 0 \/ n - 1 \in T => n \in T
    <2> TAKE n \in 0 .. L
    <2>1. n = 0 => n \in T
        BY <1>4, <1>6
    <2>2. ASSUME n # 0, n - 1 \in T
          PROVE  n \in T
        <3>1. n \in 1 .. L /\ n - 1 \in 0 .. L
            BY <2>2
        <3>2. f[n - 1] \in Int /\ g[n - 1] \in Int /\ a[n] \in Int /\ b[n] \in Int
            BY <1>1, <1>4, <3>1
        <3>3. h[n - 1] = f[n - 1] + g[n - 1]
            BY <1>6, <2>2
        <3>4. h[n] = f[n] + g[n]
            BY <1>5, <3>1, <3>2, <3>3
        <3> QED BY <1>6, <3>4
    <2> QED BY <2>1, <2>2
<1>8. \A n \in 0 .. L : n \in T
    BY <1>7, CountingInduction
<1>9. L \in 0 .. L
    OBVIOUS
<1>10. h[L] = f[L] + g[L] /\ f[L] \in Int /\ g[L] \in Int
    BY <1>4, <1>6, <1>8, <1>9
<1> QED BY <1>4, <1>10

\* The same for five lists: by states first or by members first, the sum is the same.
LEMMA SumOfSums ==
    ASSUME NEW L \in Nat, NEW a, ListFits(a, L), NEW b, \A i \in 0 .. 4 : ListFits(b[i], L),
           \A n \in 1 .. L : a[n] = b[0][n] + b[1][n] + b[2][n] + b[3][n] + b[4][n]
    PROVE  /\ \A i \in 0 .. 4 : SumOf(b[i]) \in Int
           /\ SumOf(a) = SumOf(b[0]) + SumOf(b[1]) + SumOf(b[2]) + SumOf(b[3]) + SumOf(b[4])
<1>1. 0 \in 0 .. 4 /\ 1 \in 0 .. 4 /\ 2 \in 0 .. 4 /\ 3 \in 0 .. 4 /\ 4 \in 0 .. 4
    OBVIOUS
<1>2. PICK x0, x1, x2, x3, x4 : x0 = b[0] /\ x1 = b[1] /\ x2 = b[2] /\ x3 = b[3] /\ x4 = b[4]
    OBVIOUS
<1>3. ListFits(x0, L) /\ ListFits(x1, L) /\ ListFits(x2, L) /\ ListFits(x3, L) /\ ListFits(x4, L)
    BY <1>1, <1>2
<1>4. PICK y1 : Adds(L, x0, x1, y1) /\ ListFits(y1, L)
    BY <1>3, AddsExists
<1>5. PICK y2 : Adds(L, y1, x2, y2) /\ ListFits(y2, L)
    BY <1>3, <1>4, AddsExists
<1>6. PICK y3 : Adds(L, y2, x3, y3) /\ ListFits(y3, L)
    BY <1>3, <1>5, AddsExists
<1>7. PICK y4 : Adds(L, y3, x4, y4)
    BY <1>3, <1>6, AddsExists
<1>8. SumOf(x0) \in Int /\ SumOf(x1) \in Int /\ SumOf(y1) = SumOf(x0) + SumOf(x1)
    BY <1>4, SumOfTwo
<1>9. SumOf(x2) \in Int /\ SumOf(y2) = SumOf(y1) + SumOf(x2)
    BY <1>5, SumOfTwo
<1>10. SumOf(x3) \in Int /\ SumOf(y3) = SumOf(y2) + SumOf(x3)
    BY <1>6, SumOfTwo
<1>11. SumOf(x4) \in Int /\ SumOf(y4) = SumOf(y3) + SumOf(x4)
    BY <1>7, SumOfTwo
<1>12. a = y4
    <2>1. a = [n \in 1 .. L |-> a[n]] /\ y4 = [n \in 1 .. L |-> y4[n]]
        BY <1>7 DEF ListFits, Adds
    <2>2. \A n \in 1 .. L : y4[n] = x0[n] + x1[n] + x2[n] + x3[n] + x4[n]
        BY <1>4, <1>5, <1>6, <1>7 DEF Adds
    <2>3. \A n \in 1 .. L : a[n] = y4[n]
        BY <1>2, <2>2
    <2> QED BY <2>1, <2>3
<1>13. \A i \in 0 .. 4 : i = 0 \/ i = 1 \/ i = 2 \/ i = 3 \/ i = 4
    OBVIOUS
<1>14. SumOf(a) = SumOf(x0) + SumOf(x1) + SumOf(x2) + SumOf(x3) + SumOf(x4)
    BY <1>8, <1>9, <1>10, <1>11, <1>12
<1> QED BY <1>2, <1>8, <1>9, <1>10, <1>11, <1>13, <1>14

\* What the first of the cells of a column shows, and the sum over columns.
FirstShown(cells, c) == (CHOOSE d \in {cell \in cells : cell[1] = c} : TRUE)[2]
CellIter(cells, columns, iter) ==
    iter = [s \in SUBSET columns |->
                IF s = {} THEN 0
                ELSE LET x == CHOOSE y \in s : TRUE IN FirstShown(cells, x) + iter[s \ {x}]]

\* The sum over four or five columns.
ShownSum(cells, columns) ==
    MapThenSumSet(LAMBDA c : (CHOOSE d \in {cell \in cells : cell[1] = c} : TRUE)[2], columns)

\* The columns x[0] .. x[K] are different and shown with the values v, the rest is 0.
ShowsAll(cells, x, K, v) ==
    /\ K \in {3, 4} /\ \A i \in 0 .. 4 : \A j \in 0 .. 4 : x[i] = x[j] => i = j
    /\ \A i \in 0 .. 4 : v[i] \in Int
    /\ \A i \in 0 .. 4 : v[i] = IF i <= K THEN FirstShown(cells, x[i]) ELSE 0

\* The sum over a set of columns is that of its values, in whatever order they are chosen.
LEMMA CellsSum ==
    ASSUME NEW cells, NEW x, NEW K, NEW v, ShowsAll(cells, x, K, v)
    PROVE  ShownSum(cells, {x[i] : i \in 0 .. K}) = v[0] + v[1] + v[2] + v[3] + v[4]
<1>a. PICK S : S = {x[i] : i \in 0 .. K}
    OBVIOUS
<1>b. K \in {3, 4} /\ \A i \in 0 .. 4 : \A j \in 0 .. 4 : x[i] = x[j] => i = j
    BY DEF ShowsAll
<1>c. \A i \in 0 .. 4 : v[i] = IF i <= K THEN FirstShown(cells, x[i]) ELSE 0
    BY DEF ShowsAll
<1>d. \A c \in S : FirstShown(cells, c) \in Int
    <2> TAKE c \in S
    <2>1. PICK i \in 0 .. K : c = x[i]
        BY <1>a
    <2>2. i \in 0 .. 4 /\ i <= K
        BY <1>b
    <2>3. v[i] \in Int /\ v[i] = FirstShown(cells, c)
        BY <1>c, <2>1, <2>2 DEF ShowsAll
    <2> QED BY <2>3
<1> DEFINE D == SUBSET S
           pick == [s \in D |-> CHOOSE y \in s : TRUE]
           next == [s \in D |-> s \ {pick[s]}]
           rank == [s \in D |-> Cardinality(s)]
           base == [s \in D |-> 0]
           step == [s \in D |-> [n \in Int |-> FirstShown(cells, pick[s]) + n]]
<1>1. IsFiniteSet(S)
    <2>1. IsFiniteSet(0 .. K)
        BY <1>b, FS_Interval
    <2>2. PICK f : f = [i \in 0 .. K |-> x[i]]
        OBVIOUS
    <2>3. f \in Surjection(0 .. K, S)
        BY <1>a, <2>2 DEF Surjection
    <2> QED BY <2>1, <2>3, FS_Surjection
<1>2. \A s \in D : s # {} => pick[s] \in s
    OBVIOUS
<1>3. Descends(D, {{}}, next, rank, Cardinality(S))
    BY <1>1, <1>2, Emptying
<1>4. \A s \in D : IF s \in {{}} THEN base[s] \in Int ELSE step[s] \in [Int -> Int]
    <2> TAKE s \in D
    <2>1. CASE s = {}
        BY <2>1
    <2>2. CASE s # {}
        <3>1. FirstShown(cells, pick[s]) \in Int
            BY <1>2, <1>d, <2>2
        <3> HIDE DEF pick
        <3>2. \A n \in Int : FirstShown(cells, pick[s]) + n \in Int
            BY <3>1
        <3>3. step[s] \in [Int -> Int]
            BY <3>2
        <3> QED BY <2>2, <3>3
    <2> QED BY <2>1, <2>2
<1> HIDE DEF pick
<1>5. PICK g \in [D -> Int] : \A s \in D : Recurs(g, s, {{}}, next, base, step)
    <2> HIDE DEF D, next, rank, base, step
    <2> QED BY <1>3, <1>4, RecursionExists
<1>6. CellIter(cells, S, g)
    <2>1. ASSUME NEW s \in D, s # {}
          PROVE  g[s] = FirstShown(cells, pick[s]) + g[s \ {pick[s]}]
        <3>1. g[s] = step[s][g[next[s]]]
            BY <1>5, <2>1 DEF Recurs
        <3>2. next[s] = s \ {pick[s]} /\ next[s] \in D
            OBVIOUS
        <3>3. g[next[s]] \in Int
            BY <3>2
        <3> QED BY <3>1, <3>2, <3>3
    <2>2. ASSUME NEW s \in D, s = {}
          PROVE  g[s] = 0
        BY <1>5, <2>2 DEF Recurs
    <2>3. \A s \in D : pick[s] = CHOOSE y \in s : TRUE
        BY DEF pick
    <2>4. \A s \in D : g[s] = IF s = {} THEN 0
                              ELSE LET y == CHOOSE z \in s : TRUE IN FirstShown(cells, y) + g[s \ {y}]
        BY <2>1, <2>2, <2>3
    <2>5. g = [s \in D |-> g[s]]
        OBVIOUS
    <2>6. g = [s \in D |-> IF s = {} THEN 0
                           ELSE LET y == CHOOSE z \in s : TRUE IN FirstShown(cells, y) + g[s \ {y}]]
        BY <2>4, <2>5
    <2> QED BY <2>6 DEF CellIter
<1> DEFINE iter == CHOOSE i : CellIter(cells, S, i)
<1>7. CellIter(cells, S, iter)
    BY <1>6, Zenon
<1>8. ShownSum(cells, S) = iter[S]
    BY DEF ShownSum, MapThenSumSet, MapThenFoldSet, CellIter, FirstShown
<1> HIDE DEF iter
<1>9. \A s \in D : iter[s] = IF s = {} THEN 0 ELSE FirstShown(cells, pick[s]) + iter[s \ {pick[s]}]
    BY <1>7 DEF CellIter, pick
<1> DEFINE w(i, s) == IF i <= K /\ x[i] \in s THEN FirstShown(cells, x[i]) ELSE 0
           all(s) == w(0, s) + w(1, s) + w(2, s) + w(3, s) + w(4, s)
           T == {s \in D : iter[s] = all(s)}
<1>10. \A i \in 0 .. 4 : \A s \in D : w(i, s) \in Int
    <2>1. \A i \in 0 .. 4 : i <= K => x[i] \in S
        BY <1>a, <1>b
    <2> QED BY <1>d, <2>1
<1>11. ASSUME NEW s \in D, s # {}, s \ {pick[s]} \in T
       PROVE  s \in T
    <2>1. PICK i \in 0 .. 4 : i <= K /\ pick[s] = x[i] /\ x[i] \in s
        <3>1. pick[s] \in s /\ pick[s] \in S
            BY <1>2, <1>11
        <3>2. PICK i \in 0 .. K : pick[s] = x[i]
            BY <1>a, <3>1
        <3> QED BY <1>b, <3>1, <3>2
    <2>a. s \ {pick[s]} \in SUBSET S
        OBVIOUS
    <2>2. PICK rest : rest = s \ {pick[s]} /\ rest \in D
        BY <2>a
    <2>3. w(i, rest) = 0 /\ w(i, s) = FirstShown(cells, pick[s])
        BY <2>1, <2>2
    <2>4. \A j \in 0 .. 4 : j # i => w(j, rest) = w(j, s)
        <3> TAKE j \in 0 .. 4
        <3> HAVE j # i
        <3>1. x[j] # x[i]
            BY <1>b
        <3>2. x[j] \in rest <=> x[j] \in s
            BY <2>1, <2>2, <3>1
        <3> QED BY <3>2
    <2>5. iter[s] = FirstShown(cells, pick[s]) + iter[rest] /\ iter[rest] = all(rest)
        BY <1>9, <1>11, <2>2
    <2> HIDE DEF w
    <2>6. \A j \in 0 .. 4 : w(j, s) \in Int /\ w(j, rest) \in Int
        BY <1>10, <2>2
    <2>7. all(s) = w(i, s) + all(rest)
        BY <2>3, <2>4, <2>6
    <2>8. iter[s] = all(s)
        BY <2>3, <2>5, <2>7
    <2> QED BY <2>8
<1>12. \A s \in D : s \in {{}} \/ next[s] \in T => s \in T
    <2> TAKE s \in D
    <2>a. s = {} => all(s) = 0
        OBVIOUS
    <2>b. s = {} => iter[s] = 0
        BY <1>9
    <2>1. s = {} => s \in T
        BY <2>a, <2>b
    <2>2. next[s] = s \ {pick[s]}
        OBVIOUS
    <2> HIDE DEF T, next
    <2> QED BY <1>11, <2>1, <2>2
<1>13. S \in T
    <2> HIDE DEF T, next, rank, D
    <2>1. \A s \in D : s \in T
        BY <1>3, <1>12, RankInduction
    <2>2. S \in D
        BY DEF D
    <2> QED BY <2>1, <2>2
<1>14. \A i \in 0 .. 4 : w(i, S) = v[i]
    <2>1. \A i \in 0 .. 4 : i <= K => x[i] \in S
        BY <1>a, <1>b
    <2> QED BY <1>c, <2>1
<1>15. iter[S] = v[0] + v[1] + v[2] + v[3] + v[4]
    <2> HIDE DEF w
    <2> QED BY <1>13, <1>14
<1> QED BY <1>a, <1>8, <1>15

-----------------------------------------------------------------------------
(* What the query knows of lists                                           *)

\* The columns that count, the lists that they ask for, and their values from what is
\* known of these.
Counted(c) == c.kind \in {"services", "hostgroup"}
Lists(c, r) ==
    IF c.kind = "services" THEN {ListOf(c, r)}
    ELSE IF c.type \in HostTypes THEN {<<"hostgroup", r.group>>}
    ELSE IF c.type \in SoftTypes THEN {<<"host", h>> : h \in ToSet(SeenHosts(query.user, Hostgroups[r.group]))}
    ELSE {}
ValueFrom(known, c, r) ==
    IF c.kind = "services" THEN ServiceValue(known[ListOf(c, r)], c.type)
    ELSE IF c.type \in HostTypes THEN HostValue(known[<<"hostgroup", r.group>>], c.type)
    ELSE GroupValue(query.user, Hostgroups[r.group], c.type, known)

\* What is known of a list is kept.
Grows(known, after) ==
    /\ DOMAIN known \subseteq DOMAIN after
    /\ \A list \in DOMAIN known : after[list] = known[list]

\* What is new of a list is what it is now.
Fresh(list, a) ==
    \/ /\ ServiceListFits(list)
       /\ a = ServiceAggregates(auth, query.user, service, Members(list))
    \/ \E g \in DOMAIN Hostgroups : /\ list = <<"hostgroup", g>>
                                    /\ a = HostAggregates(query.user, host, Hostgroups[g])

\* What a column learns: nothing that was known changes, what it asks for is known then
\* and is its value, and what is new is computed from the states of now.
LEMMA LearntIs ==
    ASSUME auth \in Auths, request \in Requests, NEW r \in RowsOf(request.table),
           NEW c, ColumnFits(request.table, c), AggregatesFit(aggregates)
    PROVE  /\ Grows(aggregates, Learnt(c, r))
           /\ Counted(c) => /\ Lists(c, r) \subseteq DOMAIN Learnt(c, r)
                            /\ ValueOf(c, r) = ValueFrom(Learnt(c, r), c, r)
                            /\ c.kind = "hostgroup" => r.group \in DOMAIN Hostgroups
                            /\ c.kind = "services" => ServiceListFits(ListOf(c, r))
           /\ \A list \in DOMAIN Learnt(c, r) :
                list \in DOMAIN aggregates \/ Fresh(list, Learnt(c, r)[list])
<1>1. request.table \in Tables /\ RowFits(request.table, r)
    BY RequestsAssumption, RowsFit
<1>2. PICK after : after = Learnt(c, r)
    OBVIOUS
<1>a. /\ c.kind = "services" => ServiceListFits(ListOf(c, r))
      /\ c.kind = "hostgroup" => r.group \in DOMAIN Hostgroups
    BY LearntFits
<1>3. ASSUME NEW now, after = Knowing(aggregates, now),
             \A list \in DOMAIN now : Fresh(list, now[list])
      PROVE  /\ Grows(aggregates, after) /\ DOMAIN now \subseteq DOMAIN after
             /\ \A list \in DOMAIN after : list \in DOMAIN aggregates \/ Fresh(list, after[list])
    <2>1. after = [l \in DOMAIN aggregates \cup DOMAIN now |->
                        IF l \in DOMAIN aggregates THEN aggregates[l] ELSE now[l]]
        BY <1>3 DEF Knowing
    <2>2. Grows(aggregates, after) /\ DOMAIN now \subseteq DOMAIN after
        BY <2>1 DEF Grows
    <2>3. \A list \in DOMAIN after : list \in DOMAIN aggregates \/ Fresh(list, after[list])
        BY <1>3, <2>1
    <2> QED BY <2>2, <2>3
<1>4. CASE c.kind = "services"
    <2>1. PICK list : list = ListOf(c, r)
        OBVIOUS
    <2>2. PICK a : a = ServiceAggregates(auth, query.user, service, Members(list))
        OBVIOUS
    <2>3. PICK now : now = [l \in {list} |-> a]
        OBVIOUS
    <2>4. after = Knowing(aggregates, now)
        BY <1>2, <1>4, <2>1, <2>2, <2>3 DEF Learnt, KnowServices, Known
    <2>5. DOMAIN now = {list} /\ \A l \in DOMAIN now : Fresh(l, now[l])
        BY <1>4, <1>a, <2>1, <2>2, <2>3 DEF Fresh
    <2>6. Lists(c, r) = DOMAIN now
        BY <1>4, <2>1, <2>5 DEF Lists
    <2>7. ValueOf(c, r) = ValueFrom(after, c, r)
        BY <1>2, <1>4, <2>1 DEF ValueOf, ValueFrom
    <2> QED BY <1>2, <1>3, <1>4, <1>a, <2>4, <2>5, <2>6, <2>7
<1>5. CASE c.kind = "hostgroup" /\ c.type \in HostTypes
    <2>1. PICK list : list = <<"hostgroup", r.group>>
        OBVIOUS
    <2>2. PICK a : a = HostAggregates(query.user, host, Hostgroups[r.group])
        OBVIOUS
    <2>3. PICK now : now = [l \in {list} |-> a]
        OBVIOUS
    <2>a. c.type \notin SoftTypes
        BY <1>5 DEF HostTypes, SoftTypes, HLSC_NUM_HST, HLSC_NUM_HST_PENDING, HLSC_WORST_HST_STATE, HLSC_NUM_HST_UP
    <2>4. after = Knowing(aggregates, now)
        BY <1>2, <1>5, <2>1, <2>2, <2>3, <2>a DEF Learnt, Known
    <2>5. DOMAIN now = {list} /\ \A l \in DOMAIN now : Fresh(l, now[l])
        BY <1>5, <1>a, <2>1, <2>2, <2>3 DEF Fresh
    <2>6. Lists(c, r) = DOMAIN now
        BY <1>5, <2>1, <2>5 DEF Lists
    <2>7. ValueOf(c, r) = ValueFrom(after, c, r)
        BY <1>2, <1>5, <2>1 DEF ValueOf, ValueFrom
    <2> QED BY <1>2, <1>3, <1>5, <1>a, <2>4, <2>5, <2>6, <2>7
<1>6. CASE c.kind = "hostgroup" /\ c.type \notin HostTypes /\ c.type \in SoftTypes
    <2>1. PICK lists : lists = {<<"host", h>> : h \in ToSet(SeenHosts(query.user, Hostgroups[r.group]))}
        OBVIOUS
    <2>3. PICK now : now = [l \in lists |-> ServiceAggregates(auth, query.user, service, Members(l))]
        OBVIOUS
    <2>4. after = Knowing(aggregates, now)
        BY <1>2, <1>6, <2>1, <2>3 DEF Learnt
    <2>5. \A h \in ToSet(SeenHosts(query.user, Hostgroups[r.group])) : h \in DOMAIN HostContacts
        <3>1. PICK hosts \in ListsOf(DOMAIN HostContacts) : hosts = Hostgroups[r.group]
            BY <1>6, <1>a, CoreLists
        <3>2. PICK seen \in Seq(DOMAIN HostContacts) : seen = SeenHosts(query.user, hosts)
            BY SeenHostsAre
        <3>3. ToSet(seen) \subseteq DOMAIN HostContacts
            BY DEF ToSet
        <3> QED BY <3>1, <3>2, <3>3
    <2>6. DOMAIN now = lists /\ \A l \in DOMAIN now : Fresh(l, now[l])
        BY <2>1, <2>3, <2>5 DEF Fresh, ServiceListFits
    <2>7. Lists(c, r) = DOMAIN now
        BY <1>6, <2>1, <2>6 DEF Lists
    <2>8. ValueOf(c, r) = ValueFrom(after, c, r)
        BY <1>2, <1>6 DEF ValueOf, ValueFrom
    <2> QED BY <1>2, <1>3, <1>6, <1>a, <2>4, <2>6, <2>7, <2>8
<1>7. CASE c.kind = "hostgroup" /\ c.type \notin HostTypes /\ c.type \notin SoftTypes
    <2>1. Learnt(c, r) = aggregates /\ Lists(c, r) = {}
        BY <1>7 DEF Learnt, Lists
    <2>2. ValueOf(c, r) = ValueFrom(Learnt(c, r), c, r)
        BY <1>7 DEF ValueOf, ValueFrom
    <2> QED BY <1>7, <1>a, <2>1, <2>2 DEF Grows
<1>8. CASE ~Counted(c)
    <2>1. Learnt(c, r) = aggregates
        BY <1>8 DEF Learnt, Counted
    <2> QED BY <1>8, <2>1 DEF Grows
<1> QED BY <1>4, <1>5, <1>6, <1>7, <1>8 DEF Counted

\* A value stays what it was.
LEMMA ValueKept ==
    ASSUME NEW known, NEW after, Grows(known, after), NEW c, NEW r, Lists(c, r) \subseteq DOMAIN known,
           c.kind = "hostgroup" => r.group \in DOMAIN Hostgroups, Counted(c)
    PROVE  Lists(c, r) \subseteq DOMAIN after /\ ValueFrom(after, c, r) = ValueFrom(known, c, r)
<1>1. Lists(c, r) \subseteq DOMAIN after /\ \A list \in Lists(c, r) : after[list] = known[list]
    BY DEF Grows
<1>2. CASE c.kind = "services"
    BY <1>1, <1>2 DEF Lists, ValueFrom
<1>3. CASE c.kind = "hostgroup" /\ c.type \in HostTypes
    BY <1>1, <1>3 DEF Lists, ValueFrom
<1>4. CASE c.kind = "hostgroup" /\ c.type \notin HostTypes /\ c.type \in SoftTypes
    <2>1. PICK hosts \in ListsOf(DOMAIN HostContacts) : hosts = Hostgroups[r.group]
        BY <1>4, CoreLists
    <2>2. PICK seen \in Seq(DOMAIN HostContacts) : seen = SeenHosts(query.user, hosts)
        BY SeenHostsAre
    <2>3. \A n \in DOMAIN seen : <<"host", seen[n]>> \in Lists(c, r)
        BY <1>4, <2>1, <2>2 DEF Lists, ToSet
    <2>4. PICK v, w : /\ v = [n \in DOMAIN seen |-> ServiceValue(known[<<"host", seen[n]>>], c.type)]
                      /\ w = [n \in DOMAIN seen |-> ServiceValue(after[<<"host", seen[n]>>], c.type)]
        OBVIOUS
    <2>5. v = w
        BY <1>1, <2>3, <2>4
    <2>6. /\ GroupValue(query.user, hosts, c.type, known)
                = CASE c.type \notin SoftTypes -> 0
                    [] c.type = SLSC_WORST_STATE -> Worst(SvcStateIsWorse, v)
                    [] OTHER -> SumOf(v)
          /\ GroupValue(query.user, hosts, c.type, after)
                = CASE c.type \notin SoftTypes -> 0
                    [] c.type = SLSC_WORST_STATE -> Worst(SvcStateIsWorse, w)
                    [] OTHER -> SumOf(w)
        BY <2>2, <2>4 DEF GroupValue, Each, SumOf
    <2>7. GroupValue(query.user, hosts, c.type, known) = GroupValue(query.user, hosts, c.type, after)
        BY <2>5, <2>6
    <2> QED BY <1>1, <1>4, <2>1, <2>7 DEF ValueFrom
<1>5. CASE c.kind = "hostgroup" /\ c.type \notin HostTypes /\ c.type \notin SoftTypes
    <2>1. \A a : GroupValue(query.user, Hostgroups[r.group], c.type, a) = 0
        <3> TAKE a
        <3>1. PICK seen : seen = SeenHosts(query.user, Hostgroups[r.group])
            OBVIOUS
        <3>2. PICK v : v = [n \in DOMAIN seen |-> ServiceValue(a[<<"host", seen[n]>>], c.type)]
            OBVIOUS
        <3>3. PICK worst, total : worst = Worst(SvcStateIsWorse, v) /\ total = SumOf(v)
            OBVIOUS
        <3>4. GroupValue(query.user, Hostgroups[r.group], c.type, a)
                    = CASE c.type \notin SoftTypes -> 0
                        [] c.type = SLSC_WORST_STATE -> worst
                        [] OTHER -> total
            BY <3>1, <3>2, <3>3 DEF GroupValue, Each, SumOf
        <3>5. SLSC_WORST_STATE \in SoftTypes
            BY DEF SLSC_WORST_STATE, SoftTypes
        <3> QED BY <1>5, <3>4, <3>5
    <2> QED BY <1>1, <1>5, <2>1 DEF ValueFrom
<1> QED BY <1>2, <1>3, <1>4, <1>5 DEF Counted

-----------------------------------------------------------------------------
(* What is known of a list fits together                                   *)

\* The sizes of two disjoint sets add.
LEMMA TwoParts ==
    ASSUME NEW s, NEW t, IsFiniteSet(s), IsFiniteSet(t), s \cap t = {}
    PROVE  /\ IsFiniteSet(s \cup t) /\ Cardinality(s) \in Nat /\ Cardinality(t) \in Nat
           /\ Cardinality(s \cup t) = Cardinality(s) + Cardinality(t)
<1>1. Cardinality(s) \in Nat /\ Cardinality(t) \in Nat
    BY FS_CardinalityType
<1>2. IsFiniteSet(s \cup t) /\ Cardinality(s \cup t) = Cardinality(s) + Cardinality(t) - Cardinality(s \cap t)
    BY FS_Union
<1>3. Cardinality(s \cap t) = 0
    BY FS_EmptySet
<1> QED BY <1>1, <1>2, <1>3

\* A list that is divided into five parts.
LEMMA FiveParts ==
    ASSUME NEW L \in Nat, NEW part, \A i \in 0 .. 4 : part[i] \subseteq 1 .. L,
           \A n \in 1 .. L : \E i \in 0 .. 4 : n \in part[i],
           \A i, j \in 0 .. 4 : i # j => part[i] \cap part[j] = {}
    PROVE  /\ \A i \in 0 .. 4 : Cardinality(part[i]) \in Nat
           /\ L = Cardinality(part[0]) + Cardinality(part[1]) + Cardinality(part[2])
                    + Cardinality(part[3]) + Cardinality(part[4])
<1>1. IsFiniteSet(1 .. L) /\ Cardinality(1 .. L) = L
    BY FS_Interval
<1>2. \A i \in 0 .. 4 : i = 0 \/ i = 1 \/ i = 2 \/ i = 3 \/ i = 4
    OBVIOUS
<1>3. 0 \in 0 .. 4 /\ 1 \in 0 .. 4 /\ 2 \in 0 .. 4 /\ 3 \in 0 .. 4 /\ 4 \in 0 .. 4
    OBVIOUS
<1>4. PICK s0, s1, s2, s3, s4 : /\ s0 = part[0] /\ s1 = part[1] /\ s2 = part[2]
                                /\ s3 = part[3] /\ s4 = part[4]
    OBVIOUS
<1>5. /\ s0 \subseteq 1 .. L /\ s1 \subseteq 1 .. L /\ s2 \subseteq 1 .. L
      /\ s3 \subseteq 1 .. L /\ s4 \subseteq 1 .. L
    BY <1>3, <1>4
<1>6. IsFiniteSet(s0) /\ IsFiniteSet(s1) /\ IsFiniteSet(s2) /\ IsFiniteSet(s3) /\ IsFiniteSet(s4)
    BY <1>1, <1>5, FS_Subset
<1>7. PICK t1, t2, t3 : t1 = s0 \cup s1 /\ t2 = t1 \cup s2 /\ t3 = t2 \cup s3
    OBVIOUS
<1>8. /\ s0 \cap s1 = {} /\ s0 \cap s2 = {} /\ s0 \cap s3 = {} /\ s0 \cap s4 = {}
      /\ s1 \cap s2 = {} /\ s1 \cap s3 = {} /\ s1 \cap s4 = {}
      /\ s2 \cap s3 = {} /\ s2 \cap s4 = {} /\ s3 \cap s4 = {}
    BY <1>3, <1>4
<1>9. t1 \cap s2 = {} /\ t2 \cap s3 = {} /\ t3 \cap s4 = {}
    BY <1>7, <1>8
<1>10. /\ IsFiniteSet(t1) /\ Cardinality(t1) = Cardinality(s0) + Cardinality(s1)
       /\ Cardinality(s0) \in Nat /\ Cardinality(s1) \in Nat
    BY <1>6, <1>7, <1>8, TwoParts
<1>11. /\ IsFiniteSet(t2) /\ Cardinality(t2) = Cardinality(t1) + Cardinality(s2)
       /\ Cardinality(s2) \in Nat
    BY <1>6, <1>7, <1>9, <1>10, TwoParts
<1>12. /\ IsFiniteSet(t3) /\ Cardinality(t3) = Cardinality(t2) + Cardinality(s3)
       /\ Cardinality(s3) \in Nat
    BY <1>6, <1>7, <1>9, <1>11, TwoParts
<1>13. Cardinality(t3 \cup s4) = Cardinality(t3) + Cardinality(s4) /\ Cardinality(s4) \in Nat
    BY <1>6, <1>9, <1>12, TwoParts
<1>14. \A n \in 1 .. L : n \in s0 \/ n \in s1 \/ n \in s2 \/ n \in s3 \/ n \in s4
    BY <1>2, <1>4
<1>15. t3 \cup s4 = 1 .. L
    BY <1>5, <1>7, <1>14
<1>16. L = Cardinality(s0) + Cardinality(s1) + Cardinality(s2) + Cardinality(s3) + Cardinality(s4)
    BY <1>1, <1>10, <1>11, <1>12, <1>13, <1>15
<1> QED BY <1>2, <1>4, <1>10, <1>11, <1>12, <1>13, <1>16

\* The services of a list are those in each state and the pending ones; so are the hosts.
ServiceSums(a) ==
    /\ a.num = a.soft[0] + a.soft[1] + a.soft[2] + a.soft[3] + a.pending
    /\ a.pending \in Nat /\ \A i \in 0 .. 3 : a.soft[i] \in Nat
HostSums(a) ==
    /\ a.num = a.state[0] + a.state[1] + a.state[2] + a.pending
    /\ a.pending \in Nat /\ \A i \in 0 .. 2 : a.state[i] \in Nat

\* The counts that the code computes for a list of services fit together.
LEMMA ServiceAggregatesSum ==
    ASSUME NEW X, NEW services \in ListsOf(X), NEW a, NEW user, NEW states \in [X -> ServiceStates]
    PROVE  ServiceSums(ServiceAggregates(a, user, states, services))
<1>1. PICK seen : seen = SeenServices(a, user, services)
    OBVIOUS
<1>2. PICK L \in Nat : seen \in Seq(X) /\ L = Len(seen)
    BY <1>1, SeenServicesAre
<1>3. PICK v : v = ServiceAggregates(a, user, states, services)
    OBVIOUS
<1> DEFINE pending == {n \in DOMAIN seen : ~states[seen[n]].checked}
           soft(i) == {n \in DOMAIN seen : states[seen[n]].checked /\ states[seen[n]].current = i}
<1>4. v.num = L /\ v.pending = Cardinality(pending) /\ v.soft = [i \in 0 .. 3 |-> Cardinality(soft(i))]
    BY <1>1, <1>2, <1>3 DEF ServiceAggregates, Count
<1>5. PICK part : part = [i \in 0 .. 4 |-> IF i = 4 THEN pending ELSE soft(i)]
    OBVIOUS
<1>6. DOMAIN seen = 1 .. L
    BY <1>2
<1>7. \A n \in 1 .. L : states[seen[n]].checked \in BOOLEAN /\ states[seen[n]].current \in 0 .. 3
    <2>1. \A n \in 1 .. L : seen[n] \in X
        BY <1>2
    <2>2. \A n \in 1 .. L : states[seen[n]] \in ServiceStates
        BY <2>1
    <2> QED BY <2>2 DEF ServiceStates
<1>8. part[4] = pending /\ \A i \in 0 .. 3 : part[i] = soft(i)
    BY <1>5
<1>9. \A i \in 0 .. 4 : i = 4 \/ i \in 0 .. 3
    OBVIOUS
<1>10. \A i \in 0 .. 4 : part[i] \subseteq 1 .. L
    BY <1>6, <1>8, <1>9
<1>11. \A n \in 1 .. L : \E i \in 0 .. 4 : n \in part[i]
    <2> TAKE n \in 1 .. L
    <2>1. CASE states[seen[n]].checked
        <3>1. PICK i \in 0 .. 3 : i = states[seen[n]].current
            BY <1>7
        <3>2. n \in soft(i)
            BY <1>6, <2>1, <3>1
        <3> QED BY <1>8, <3>2
    <2>2. CASE ~states[seen[n]].checked
        <3>1. n \in pending /\ 4 \in 0 .. 4
            BY <1>6, <2>2
        <3> QED BY <1>8, <3>1
    <2> QED BY <2>1, <2>2
<1>12. \A i, j \in 0 .. 4 : i # j => part[i] \cap part[j] = {}
    BY <1>8, <1>9
<1> HIDE DEF pending, soft
<1>13. /\ \A i \in 0 .. 4 : Cardinality(part[i]) \in Nat
       /\ L = Cardinality(part[0]) + Cardinality(part[1]) + Cardinality(part[2])
                + Cardinality(part[3]) + Cardinality(part[4])
    BY <1>10, <1>11, <1>12, FiveParts
<1>14. v.pending = Cardinality(part[4]) /\ \A i \in 0 .. 3 : v.soft[i] = Cardinality(part[i])
    BY <1>4, <1>8
<1>15. 0 \in 0 .. 3 /\ 1 \in 0 .. 3 /\ 2 \in 0 .. 3 /\ 3 \in 0 .. 3 /\ 4 \in 0 .. 4
    OBVIOUS
<1>16. v.num = v.soft[0] + v.soft[1] + v.soft[2] + v.soft[3] + v.pending
    BY <1>4, <1>13, <1>14, <1>15
<1>17. v.pending \in Nat /\ \A i \in 0 .. 3 : v.soft[i] \in Nat
    BY <1>13, <1>14, <1>15
<1> QED BY <1>3, <1>16, <1>17 DEF ServiceSums

\* And those for a list of hosts.
LEMMA HostAggregatesSum ==
    ASSUME NEW X, NEW hosts \in ListsOf(X), NEW user, NEW states \in [X -> HostStates]
    PROVE  HostSums(HostAggregates(user, states, hosts))
<1>1. PICK seen : seen = SeenHosts(user, hosts)
    OBVIOUS
<1>2. PICK L \in Nat : seen \in Seq(X) /\ L = Len(seen)
    BY <1>1, SeenHostsAre
<1>3. PICK v : v = HostAggregates(user, states, hosts)
    OBVIOUS
<1> DEFINE pending == {n \in DOMAIN seen : ~states[seen[n]].checked}
           state(i) == {n \in DOMAIN seen : states[seen[n]].checked /\ states[seen[n]].current = i}
<1>4. v.num = L /\ v.pending = Cardinality(pending) /\ v.state = [i \in 0 .. 2 |-> Cardinality(state(i))]
    BY <1>1, <1>2, <1>3 DEF HostAggregates, Count
<1>5. PICK part : part = [i \in 0 .. 4 |-> IF i = 4 THEN pending ELSE state(i)]
    OBVIOUS
<1>6. DOMAIN seen = 1 .. L
    BY <1>2
<1>7. \A n \in 1 .. L : states[seen[n]].checked \in BOOLEAN /\ states[seen[n]].current \in 0 .. 2
    <2>1. \A n \in 1 .. L : seen[n] \in X
        BY <1>2
    <2>2. \A n \in 1 .. L : states[seen[n]] \in HostStates
        BY <2>1
    <2> QED BY <2>2 DEF HostStates
<1>8. part[4] = pending /\ \A i \in 0 .. 3 : part[i] = state(i)
    BY <1>5
<1>9. \A i \in 0 .. 4 : i = 4 \/ i \in 0 .. 3
    OBVIOUS
<1>10. \A i \in 0 .. 4 : part[i] \subseteq 1 .. L
    BY <1>6, <1>8, <1>9
<1>11. \A n \in 1 .. L : \E i \in 0 .. 4 : n \in part[i]
    <2> TAKE n \in 1 .. L
    <2>1. CASE states[seen[n]].checked
        <3>1. PICK i \in 0 .. 3 : i = states[seen[n]].current
            BY <1>7
        <3>2. n \in state(i)
            BY <1>6, <2>1, <3>1
        <3> QED BY <1>8, <3>2
    <2>2. CASE ~states[seen[n]].checked
        <3>1. n \in pending /\ 4 \in 0 .. 4
            BY <1>6, <2>2
        <3> QED BY <1>8, <3>1
    <2> QED BY <2>1, <2>2
<1>12. \A i, j \in 0 .. 4 : i # j => part[i] \cap part[j] = {}
    BY <1>8, <1>9
<1>13. part[3] = {}
    BY <1>6, <1>7, <1>8
<1>14. Cardinality(part[3]) = 0
    BY <1>13, FS_EmptySet
<1> HIDE DEF pending, state
<1>15. /\ \A i \in 0 .. 4 : Cardinality(part[i]) \in Nat
       /\ L = Cardinality(part[0]) + Cardinality(part[1]) + Cardinality(part[2])
                + Cardinality(part[3]) + Cardinality(part[4])
    BY <1>10, <1>11, <1>12, FiveParts
<1>16. v.pending = Cardinality(part[4]) /\ \A i \in 0 .. 2 : v.state[i] = Cardinality(part[i])
    BY <1>4, <1>8
<1>17. 0 \in 0 .. 2 /\ 1 \in 0 .. 2 /\ 2 \in 0 .. 2 /\ 4 \in 0 .. 4 /\ \A i \in 0 .. 2 : i \in 0 .. 4
    OBVIOUS
<1>18. v.num = v.state[0] + v.state[1] + v.state[2] + v.pending
    BY <1>4, <1>14, <1>15, <1>16, <1>17
<1>19. v.pending \in Nat /\ \A i \in 0 .. 2 : v.state[i] \in Nat
    BY <1>15, <1>16, <1>17
<1> QED BY <1>3, <1>18, <1>19 DEF HostSums

\* The states are states, and all that the query knows of lists fits together.
StatesFit == host \in [DOMAIN HostContacts -> HostStates] /\ service \in [DOMAIN HostOf -> ServiceStates]
SumFits(list, a) == IF list[1] = "hostgroup" THEN HostSums(a) ELSE ServiceSums(a)
SumsFit(known) == \A list \in DOMAIN known : SumFits(list, known[list])

\* What is computed now fits together.
LEMMA FreshSums ==
    ASSUME StatesFit, NEW list, NEW a, Fresh(list, a)
    PROVE  SumFits(list, a)
<1>1. CASE ServiceListFits(list) /\ a = ServiceAggregates(auth, query.user, service, Members(list))
    <2>1. PICK services \in ListsOf(DOMAIN HostOf) : services = Members(list) /\ list[1] # "hostgroup"
        BY <1>1, MembersAre
    <2>2. PICK states \in [DOMAIN HostOf -> ServiceStates] : states = service
        BY DEF StatesFit
    <2>3. ServiceSums(ServiceAggregates(auth, query.user, states, services))
        BY ServiceAggregatesSum
    <2> QED BY <1>1, <2>1, <2>2, <2>3 DEF SumFits
<1>2. CASE \E g \in DOMAIN Hostgroups : /\ list = <<"hostgroup", g>>
                                        /\ a = HostAggregates(query.user, host, Hostgroups[g])
    <2>1. PICK g \in DOMAIN Hostgroups : /\ list = <<"hostgroup", g>>
                                         /\ a = HostAggregates(query.user, host, Hostgroups[g])
        BY <1>2
    <2>2. PICK hosts \in ListsOf(DOMAIN HostContacts) : hosts = Hostgroups[g]
        BY CoreLists
    <2>3. PICK states \in [DOMAIN HostContacts -> HostStates] : states = host
        BY DEF StatesFit
    <2>4. HostSums(HostAggregates(query.user, states, hosts))
        BY HostAggregatesSum
    <2> QED BY <2>1, <2>2, <2>3, <2>4 DEF SumFits
<1> QED BY <1>1, <1>2 DEF Fresh

\* The column of another type.
Typed(c, t) == [kind |-> c.kind, of |-> c.of, type |-> t, parts |-> c.parts]

LEMMA TypedIs ==
    ASSUME NEW c, c = [kind |-> c.kind, of |-> c.of, type |-> c.type, parts |-> c.parts], NEW t
    PROVE  [c EXCEPT !.type = t] = Typed(c, t)
BY DEF Typed

\* Where the columns begin that a total is the sum of, and where they end.
FirstType(c) == IF c.type = SLSC_NUM THEN 0 ELSE HLSC_NUM_HST_UP
LastOf(c) == IF c.type = SLSC_NUM THEN 4 ELSE 3

\* A value of a column is known, from all the lists that it asks for.
Asked(known, c, r) ==
    /\ Lists(c, r) \subseteq DOMAIN known
    /\ c.kind = "hostgroup" => r.group \in DOMAIN Hostgroups
    /\ c.kind = "services" => ServiceListFits(ListOf(c, r))

\* The total of a list of services, and of the hosts of a group.
LEMMA ServiceTotal ==
    ASSUME NEW a, ServiceSums(a)
    PROVE  /\ \A i \in 0 .. 4 : ServiceValue(a, i) \in Int
           /\ ServiceValue(a, -1) = ServiceValue(a, 0) + ServiceValue(a, 1) + ServiceValue(a, 2)
                                        + ServiceValue(a, 3) + ServiceValue(a, 4)
           /\ ServiceValue(a, -1) \in Int
           /\ \A i \in {-11, 10, 11, 12, 13} : ServiceValue(a, i) = 0
<1> USE DEF SLSC_NUM, SLSC_NUM_PENDING, SLSC_WORST_STATE
<1>1. ServiceValue(a, -1) = a.num
    BY DEF ServiceValue
<1>2. ServiceValue(a, 4) = a.pending
    BY DEF ServiceValue
<1>3. \A i \in 0 .. 3 : ServiceValue(a, i) = a.soft[i]
    BY DEF ServiceValue
<1>4. \A i \in {-11, 10, 11, 12, 13} : ServiceValue(a, i) = 0
    BY DEF ServiceValue
<1>5. \A i \in 0 .. 4 : i = 4 \/ i \in 0 .. 3
    OBVIOUS
<1>6. 0 \in 0 .. 3 /\ 1 \in 0 .. 3 /\ 2 \in 0 .. 3 /\ 3 \in 0 .. 3
    OBVIOUS
<1>7. /\ a.num = a.soft[0] + a.soft[1] + a.soft[2] + a.soft[3] + a.pending
      /\ a.pending \in Nat /\ \A i \in 0 .. 3 : a.soft[i] \in Nat
    BY DEF ServiceSums
<1>8. PICK s0, s1, s2, s3, s4 \in Nat : /\ s0 = a.soft[0] /\ s1 = a.soft[1] /\ s2 = a.soft[2]
                                        /\ s3 = a.soft[3] /\ s4 = a.pending
    BY <1>6, <1>7
<1>9. a.num = s0 + s1 + s2 + s3 + s4
    BY <1>7, <1>8
<1>10. /\ ServiceValue(a, 0) = s0 /\ ServiceValue(a, 1) = s1 /\ ServiceValue(a, 2) = s2
       /\ ServiceValue(a, 3) = s3 /\ ServiceValue(a, 4) = s4
    BY <1>2, <1>3, <1>6, <1>8
<1>11. \A i \in 0 .. 4 : ServiceValue(a, i) \in Int
    BY <1>2, <1>3, <1>5, <1>7
<1> QED BY <1>1, <1>4, <1>9, <1>10, <1>11

LEMMA HostTotal ==
    ASSUME NEW a, HostSums(a)
    PROVE  /\ \A i \in 0 .. 3 : HostValue(a, 10 + i) \in Int
           /\ HostValue(a, -11) = HostValue(a, 10) + HostValue(a, 11) + HostValue(a, 12) + HostValue(a, 13)
<1> USE DEF HLSC_NUM_HST, HLSC_NUM_HST_PENDING, HLSC_WORST_HST_STATE, HLSC_NUM_HST_UP
<1>1. HostValue(a, -11) = a.num
    BY DEF HostValue
<1>2. HostValue(a, 13) = a.pending
    BY DEF HostValue
<1>3. HostValue(a, 10) = a.state[0] /\ HostValue(a, 11) = a.state[1] /\ HostValue(a, 12) = a.state[2]
    <2>1. \A type \in {10, 11, 12} : HostValue(a, type) = a.state[type - 10]
        BY DEF HostValue
    <2>2. 10 - 10 = 0 /\ 11 - 10 = 1 /\ 12 - 10 = 2
        OBVIOUS
    <2> QED BY <2>1, <2>2
<1>4. 0 \in 0 .. 2 /\ 1 \in 0 .. 2 /\ 2 \in 0 .. 2
    OBVIOUS
<1>5. PICK s0, s1, s2, s3 \in Nat : /\ s0 = a.state[0] /\ s1 = a.state[1] /\ s2 = a.state[2]
                                    /\ s3 = a.pending /\ a.num = s0 + s1 + s2 + s3
    BY <1>4 DEF HostSums
<1>6. /\ HostValue(a, 10) = s0 /\ HostValue(a, 11) = s1 /\ HostValue(a, 12) = s2
      /\ HostValue(a, 13) = s3
    BY <1>2, <1>3, <1>5
<1>7. \A i \in 0 .. 3 : 10 + i = 10 \/ 10 + i = 11 \/ 10 + i = 12 \/ 10 + i = 13
    OBVIOUS
<1>8. \A i \in 0 .. 3 : HostValue(a, 10 + i) \in Int
    BY <1>6, <1>7
<1> QED BY <1>1, <1>5, <1>6, <1>8

\* The services of the hosts of a group, state by state.
LEMMA GroupTotal ==
    ASSUME NEW g \in DOMAIN Hostgroups, NEW known,
           \A h \in ToSet(SeenHosts(query.user, Hostgroups[g])) : ServiceSums(known[<<"host", h>>])
    PROVE  /\ \A i \in 0 .. 4 : GroupValue(query.user, Hostgroups[g], i, known) \in Int
           /\ GroupValue(query.user, Hostgroups[g], -1, known)
                = GroupValue(query.user, Hostgroups[g], 0, known) + GroupValue(query.user, Hostgroups[g], 1, known)
                    + GroupValue(query.user, Hostgroups[g], 2, known) + GroupValue(query.user, Hostgroups[g], 3, known)
                    + GroupValue(query.user, Hostgroups[g], 4, known)
<1>1. PICK hosts \in ListsOf(DOMAIN HostContacts) : hosts = Hostgroups[g]
    BY CoreLists
<1>2. PICK L \in Nat, seen \in Seq(DOMAIN HostContacts) : seen = SeenHosts(query.user, hosts) /\ L = Len(seen)
    BY SeenHostsAre
<1>3. DOMAIN seen = 1 .. L
    BY <1>2
<1>4. \A n \in 1 .. L : ServiceSums(known[<<"host", seen[n]>>])
    BY <1>1, <1>2, <1>3 DEF ToSet
<1> DEFINE counts(type) == [n \in 1 .. L |-> ServiceValue(known[<<"host", seen[n]>>], type)]
<1>5. ASSUME NEW type \in -1 .. 4
      PROVE  GroupValue(query.user, hosts, type, known) = SumOf(counts(type)) /\ ListFits(counts(type), L)
    <2>1. type \in SoftTypes /\ type # SLSC_WORST_STATE
        BY DEF SoftTypes, SLSC_WORST_STATE
    <2>2. PICK v : v = counts(type)
        OBVIOUS
    <2>3. PICK worst : worst = Worst(SvcStateIsWorse, v)
        OBVIOUS
    <2>4. GroupValue(query.user, hosts, type, known)
                = CASE type \notin SoftTypes -> 0
                    [] type = SLSC_WORST_STATE -> worst
                    [] OTHER -> SumOf(v)
        BY <1>2, <1>3, <2>2, <2>3 DEF GroupValue, Each, SumOf
    <2>5. GroupValue(query.user, hosts, type, known) = SumOf(v)
        BY <2>1, <2>4
    <2>6. type = -1 \/ type \in 0 .. 4
        OBVIOUS
    <2>7. \A n \in 1 .. L : ServiceValue(known[<<"host", seen[n]>>], type) \in Int
        BY <1>4, <2>6, ServiceTotal
    <2>8. ListFits(v, L)
        BY <2>2, <2>7 DEF ListFits
    <2> QED BY <2>2, <2>5, <2>8
<1>6. PICK a, b : a = counts(-1) /\ b = [i \in 0 .. 4 |-> counts(i)]
    OBVIOUS
<1>7. \A i \in 0 .. 4 : b[i] = counts(i) /\ i \in -1 .. 4
    BY <1>6
<1>8. ListFits(a, L) /\ \A i \in 0 .. 4 : ListFits(b[i], L)
    <2> HIDE DEF counts
    <2> QED BY <1>5, <1>6, <1>7
<1>9. \A n \in 1 .. L : a[n] = b[0][n] + b[1][n] + b[2][n] + b[3][n] + b[4][n]
    <2> TAKE n \in 1 .. L
    <2>1. PICK x : x = known[<<"host", seen[n]>>]
        OBVIOUS
    <2>2. ServiceSums(x)
        BY <1>4, <2>1
    <2>3. 0 \in 0 .. 4 /\ 1 \in 0 .. 4 /\ 2 \in 0 .. 4 /\ 3 \in 0 .. 4 /\ 4 \in 0 .. 4
        OBVIOUS
    <2>4. a[n] = ServiceValue(x, -1) /\ \A i \in 0 .. 4 : b[i][n] = ServiceValue(x, i)
        BY <1>6, <1>7, <2>1
    <2>5. ServiceValue(x, -1) = ServiceValue(x, 0) + ServiceValue(x, 1) + ServiceValue(x, 2)
                                    + ServiceValue(x, 3) + ServiceValue(x, 4)
        BY <2>2, ServiceTotal
    <2> QED BY <2>3, <2>4, <2>5
<1> HIDE DEF counts
<1>10. /\ \A i \in 0 .. 4 : SumOf(b[i]) \in Int
       /\ SumOf(a) = SumOf(b[0]) + SumOf(b[1]) + SumOf(b[2]) + SumOf(b[3]) + SumOf(b[4])
    BY <1>8, <1>9, SumOfSums
<1>11. \A i \in 0 .. 4 : GroupValue(query.user, hosts, i, known) = SumOf(b[i])
    BY <1>5, <1>7
<1>12. GroupValue(query.user, hosts, -1, known) = SumOf(a)
    BY <1>5, <1>6
<1>13. 0 \in 0 .. 4 /\ 1 \in 0 .. 4 /\ 2 \in 0 .. 4 /\ 3 \in 0 .. 4 /\ 4 \in 0 .. 4
    OBVIOUS
<1> QED BY <1>1, <1>10, <1>11, <1>12, <1>13

\* A total is the sum of its columns, from what is known of the lists.
LEMMA TotalIs ==
    ASSUME NEW known, SumsFit(known), NEW c, NEW r, Total(c), Asked(known, c, r),
           NEW v, v = [i \in 0 .. 4 |-> IF i <= LastOf(c)
                                        THEN ValueFrom(known, Typed(c, FirstType(c) + i), r) ELSE 0]
    PROVE  /\ \A i \in 0 .. 4 : v[i] \in Int
           /\ ValueFrom(known, c, r) = v[0] + v[1] + v[2] + v[3] + v[4]
<1> USE DEF SLSC_NUM, HLSC_NUM_HST, HLSC_NUM_HST_UP, HLSC_NUM_HST_PENDING, HLSC_WORST_HST_STATE
<1>1. \A i : Typed(c, i).kind = c.kind /\ Typed(c, i).of = c.of /\ Typed(c, i).type = i
    BY DEF Typed
<1>2. /\ 0 \in 0 .. 4 /\ 1 \in 0 .. 4 /\ 2 \in 0 .. 4 /\ 3 \in 0 .. 4 /\ 4 \in 0 .. 4
      /\ \A i \in 0 .. 4 : i = 0 \/ i = 1 \/ i = 2 \/ i = 3 \/ i = 4
    OBVIOUS
<1>3. CASE c.kind = "services"
    <2>1. PICK list : list = ListOf(c, r)
        OBVIOUS
    <2>2. list \in DOMAIN known /\ ServiceListFits(list)
        BY <1>3, <2>1 DEF Asked, Lists
    <2>3. PICK a : a = known[list]
        OBVIOUS
    <2>4. ServiceSums(a)
        BY <2>2, <2>3, MembersAre DEF SumsFit, SumFits
    <2>5. ValueFrom(known, c, r) = ServiceValue(a, c.type)
        BY <1>3, <2>1, <2>3 DEF ValueFrom
    <2>6. \A i : ValueFrom(known, Typed(c, i), r) = ServiceValue(a, i)
        BY <1>1, <1>3, <2>1, <2>3 DEF ValueFrom, ListOf
    <2>7. CASE c.type = -1
        <3>1. \A i \in 0 .. 4 : v[i] = ServiceValue(a, i)
            BY <2>6, <2>7 DEF LastOf, FirstType
        <3> QED BY <1>2, <2>4, <2>5, <2>7, <3>1, ServiceTotal
    <2>8. CASE c.type = -11
        <3>1. \A i \in 0 .. 3 : 10 + i \in {-11, 10, 11, 12, 13}
            OBVIOUS
        <3>2. \A i \in 0 .. 4 : v[i] = 0
            <4>1. \A i \in 0 .. 3 : v[i] = ServiceValue(a, 10 + i)
                BY <2>6, <2>8 DEF LastOf, FirstType
            <4>2. v[4] = 0
                BY <2>8 DEF LastOf
            <4>3. \A i \in 0 .. 3 : ServiceValue(a, 10 + i) = 0
                BY <2>4, <3>1, ServiceTotal
            <4>4. \A i \in 0 .. 4 : i = 4 \/ i \in 0 .. 3
                OBVIOUS
            <4> QED BY <4>1, <4>2, <4>3, <4>4
        <3>3. ServiceValue(a, -11) = 0
            BY <2>4, ServiceTotal
        <3> QED BY <1>2, <2>5, <2>8, <3>2, <3>3
    <2> QED BY <2>7, <2>8 DEF Total
<1>4. CASE c.kind = "hostgroup" /\ c.type = -11
    <2>1. PICK list : list = <<"hostgroup", r.group>>
        OBVIOUS
    <2>2. c.type \in HostTypes
        BY <1>4 DEF HostTypes
    <2>3. list \in DOMAIN known
        BY <1>4, <2>1, <2>2 DEF Asked, Lists
    <2>4. PICK a : a = known[list]
        OBVIOUS
    <2>5. HostSums(a)
        BY <2>1, <2>3, <2>4 DEF SumsFit, SumFits
    <2>6. ValueFrom(known, c, r) = HostValue(a, -11)
        BY <1>4, <2>1, <2>2, <2>4 DEF ValueFrom
    <2>7. \A i \in 0 .. 3 : 10 + i \in HostTypes
        BY DEF HostTypes
    <2>8. \A i \in 0 .. 3 : ValueFrom(known, Typed(c, 10 + i), r) = HostValue(a, 10 + i)
        BY <1>1, <1>4, <2>1, <2>4, <2>7 DEF ValueFrom
    <2>9. \A i \in 0 .. 3 : v[i] = HostValue(a, 10 + i)
        BY <1>4, <2>8 DEF LastOf, FirstType
    <2>10. v[4] = 0
        BY <1>4 DEF LastOf
    <2>11. \A i \in 0 .. 3 : HostValue(a, 10 + i) \in Int
        BY <2>5, HostTotal
    <2>12. HostValue(a, -11) = HostValue(a, 10) + HostValue(a, 11) + HostValue(a, 12) + HostValue(a, 13)
        BY <2>5, HostTotal
    <2>13. /\ v[0] = HostValue(a, 10) /\ v[1] = HostValue(a, 11)
           /\ v[2] = HostValue(a, 12) /\ v[3] = HostValue(a, 13)
        BY <2>9
    <2>14. \A i \in 0 .. 4 : i = 4 \/ i \in 0 .. 3
        OBVIOUS
    <2>15. \A i \in 0 .. 4 : v[i] \in Int
        BY <2>9, <2>10, <2>11, <2>14
    <2> QED BY <1>2, <2>6, <2>10, <2>12, <2>13, <2>15
<1>5. CASE c.kind = "hostgroup" /\ c.type = -1
    <2>1. PICK g \in DOMAIN Hostgroups : g = r.group
        BY <1>5 DEF Asked
    <2>2. c.type \notin HostTypes /\ c.type \in SoftTypes
        BY <1>5 DEF HostTypes, SoftTypes
    <2>3. {<<"host", h>> : h \in ToSet(SeenHosts(query.user, Hostgroups[g]))} \subseteq DOMAIN known
        BY <1>5, <2>1, <2>2 DEF Asked, Lists
    <2>4. \A h \in ToSet(SeenHosts(query.user, Hostgroups[g])) : ServiceSums(known[<<"host", h>>])
        <3> TAKE h \in ToSet(SeenHosts(query.user, Hostgroups[g]))
        <3>1. PICK list : list = <<"host", h>>
            OBVIOUS
        <3>2. list \in DOMAIN known /\ list[1] # "hostgroup"
            BY <2>3, <3>1
        <3> QED BY <3>1, <3>2 DEF SumsFit, SumFits
    <2>5. ValueFrom(known, c, r) = GroupValue(query.user, Hostgroups[g], -1, known)
        BY <1>5, <2>1, <2>2 DEF ValueFrom
    <2>6. \A i \in 0 .. 4 : i \notin HostTypes
        BY DEF HostTypes
    <2>7. \A i \in 0 .. 4 : ValueFrom(known, Typed(c, i), r) = GroupValue(query.user, Hostgroups[g], i, known)
        BY <1>1, <1>5, <2>1, <2>6 DEF ValueFrom
    <2>8. \A i \in 0 .. 4 : v[i] = GroupValue(query.user, Hostgroups[g], i, known)
        BY <1>5, <2>7 DEF LastOf, FirstType
    <2>9. /\ \A i \in 0 .. 4 : GroupValue(query.user, Hostgroups[g], i, known) \in Int
          /\ GroupValue(query.user, Hostgroups[g], -1, known)
                = GroupValue(query.user, Hostgroups[g], 0, known) + GroupValue(query.user, Hostgroups[g], 1, known)
                    + GroupValue(query.user, Hostgroups[g], 2, known) + GroupValue(query.user, Hostgroups[g], 3, known)
                    + GroupValue(query.user, Hostgroups[g], 4, known)
        BY <2>4, GroupTotal
    <2> QED BY <1>2, <2>5, <2>8, <2>9
<1> QED BY <1>3, <1>4, <1>5 DEF Total

\* The columns that a total is the sum of.
LEMMA SummandsAre ==
    ASSUME NEW c, c = [kind |-> c.kind, of |-> c.of, type |-> c.type, parts |-> c.parts], Total(c)
    PROVE  /\ Summands(c) = {Typed(c, FirstType(c) + i) : i \in 0 .. LastOf(c)}
           /\ LastOf(c) \in {3, 4} /\ FirstType(c) \in Nat
<1> USE DEF SLSC_NUM, SLSC_NUM_PENDING, HLSC_NUM_HST, HLSC_NUM_HST_UP, HLSC_NUM_HST_PENDING, FirstType, LastOf
<1>1. PICK types : types = IF c.type = SLSC_NUM THEN 0 .. SLSC_NUM_PENDING
                           ELSE HLSC_NUM_HST_UP .. HLSC_NUM_HST_PENDING
    OBVIOUS
<1>a. \A t : [c EXCEPT !.type = t] = Typed(c, t)
    BY TypedIs
<1>b. Summands(c) = {[c EXCEPT !.type = t] : t \in types}
    BY <1>1, Zenon DEF Summands
<1>2. Summands(c) = {Typed(c, t) : t \in types}
    BY <1>a, <1>b
<1>3. types = {FirstType(c) + i : i \in 0 .. LastOf(c)}
    <2>1. CASE c.type = SLSC_NUM
        BY <1>1, <2>1
    <2>2. CASE c.type # SLSC_NUM
        <3>1. \A t \in 10 .. 13 : t - 10 \in 0 .. 3 /\ t = 10 + (t - 10)
            OBVIOUS
        <3>2. \A i \in 0 .. 3 : 10 + i \in 10 .. 13
            OBVIOUS
        <3> QED BY <1>1, <2>2, <3>1, <3>2
    <2> QED BY <2>1, <2>2
<1>4. LastOf(c) \in {3, 4} /\ FirstType(c) \in Nat
    OBVIOUS
<1> QED BY <1>2, <1>3, <1>4

\* A value that is printed is what is known of the column for good.
Settled(known, c, r, value) == Counted(c) => Asked(known, c, r) /\ value = ValueFrom(known, c, r)

\* A total that a row shows is the sum of the cells that it shows of the summands.
LEMMA CellsAgree ==
    ASSUME NEW known, SumsFit(known), NEW r, NEW cells,
           \A cell \in cells : Settled(known, cell[1], r, cell[2]),
           NEW cell \in cells, NEW c, c = cell[1],
           c = [kind |-> c.kind, of |-> c.of, type |-> c.type, parts |-> c.parts], Total(c),
           \A d \in Summands(c) : {x \in cells : x[1] = d} # {}
    PROVE  cell[2] = ShownSum(cells, Summands(c))
<1>1. PICK S, K : S = Summands(c) /\ K = LastOf(c)
    OBVIOUS
<1>2. PICK x : x = [i \in 0 .. 4 |-> Typed(c, FirstType(c) + i)]
    OBVIOUS
<1>3. /\ Summands(c) = {Typed(c, FirstType(c) + i) : i \in 0 .. LastOf(c)}
      /\ LastOf(c) \in {3, 4} /\ FirstType(c) \in Nat
    BY SummandsAre
<1>4. K \in {3, 4} /\ S = {x[i] : i \in 0 .. K}
    <2>1. \A i \in 0 .. K : i \in 0 .. 4
        BY <1>1, <1>3
    <2> QED BY <1>1, <1>2, <1>3, <2>1
<1>5. \A i \in 0 .. 4 : \A j \in 0 .. 4 : x[i] = x[j] => i = j
    <2>1. \A i \in 0 .. 4 : x[i].type = FirstType(c) + i
        BY <1>2 DEF Typed
    <2> QED BY <1>3, <2>1
<1>6. Counted(c)
    BY DEF Total, Counted
<1>7. Asked(known, c, r) /\ cell[2] = ValueFrom(known, c, r)
    BY <1>6 DEF Settled
<1>8. \A i \in 0 .. 4 : Counted(x[i])
    BY <1>2, <1>6 DEF Counted, Typed
<1>9. \A i \in 0 .. 4 : i <= K => FirstShown(cells, x[i]) = ValueFrom(known, x[i], r)
    <2> SUFFICES ASSUME NEW i \in 0 .. 4, i <= K
                 PROVE  FirstShown(cells, x[i]) = ValueFrom(known, x[i], r)
        OBVIOUS
    <2>1. i \in 0 .. K
        BY <1>4
    <2>2. x[i] \in Summands(c)
        BY <1>1, <1>4, <2>1
    <2>3. PICK first : first = CHOOSE d \in {y \in cells : y[1] = x[i]} : TRUE
        OBVIOUS
    <2>4. {y \in cells : y[1] = x[i]} # {}
        BY <2>2
    <2>5. first \in {y \in cells : y[1] = x[i]}
        BY <2>3, <2>4
    <2>6. first \in cells /\ first[1] = x[i]
        BY <2>5
    <2>7. first[2] = ValueFrom(known, x[i], r)
        BY <1>8, <2>6 DEF Settled
    <2> QED BY <2>3, <2>7 DEF FirstShown
<1>10. PICK v : v = [i \in 0 .. 4 |-> IF i <= LastOf(c)
                                      THEN ValueFrom(known, Typed(c, FirstType(c) + i), r) ELSE 0]
    OBVIOUS
<1>11. /\ \A i \in 0 .. 4 : v[i] \in Int
       /\ ValueFrom(known, c, r) = v[0] + v[1] + v[2] + v[3] + v[4]
    BY <1>7, <1>10, TotalIs
<1>12. \A i \in 0 .. 4 : v[i] = IF i <= K THEN FirstShown(cells, x[i]) ELSE 0
    BY <1>1, <1>2, <1>9, <1>10
<1>13. ShowsAll(cells, x, K, v)
    BY <1>4, <1>5, <1>11, <1>12 DEF ShowsAll
<1>14. ShownSum(cells, {x[i] : i \in 0 .. K}) = v[0] + v[1] + v[2] + v[3] + v[4]
    BY <1>13, CellsSum
<1>15. cell[2] = v[0] + v[1] + v[2] + v[3] + v[4]
    BY <1>7, <1>11
<1> QED BY <1>1, <1>4, <1>14, <1>15

-----------------------------------------------------------------------------
(* The inductive invariant of the columns that agree                       *)

\* What a row was filtered by is known for good, and so are the values of one that is
\* printed.
Passes(known, f, r) ==
    Counted(f.column) => Asked(known, f.column, r) /\ ValueFrom(known, f.column, r) \in f.accepts
PassesAll(known, r) == \A m \in DOMAIN query.filter : Passes(known, query.filter[m], r)
Agrees(known, entry) ==
    /\ PassesAll(known, entry.row)
    /\ \A m \in DOMAIN query.columns : Settled(known, query.columns[m], entry.row, entry.values[m])

\* What a row passed is known: while it is filtered and printed, in the sorter, and when
\* it is shown.
SumsKnown == SumsFit(aggregates)
NothingSorted == pc = "headers" => heap = <<>> /\ outbuf = <<>>
FilteredPass == pc = "filter" => \A m \in 1 .. k - 1 : Passes(aggregates, query.filter[m], row)
PrintedAgree ==
    pc = "print" /\ ~DoStats =>
        /\ PassesAll(aggregates, row)
        /\ \A m \in 1 .. k - 1 : Settled(aggregates, query.columns[m], row, values[m])
SortedPass ==
    ~DoStats =>
        /\ \E S : heap \in Seq(S) /\ \A e \in S : PassesAll(aggregates, e.row)
        /\ \E S : outbuf \in Seq(S) /\ \A e \in S : PassesAll(aggregates, e.row)
ShownAgree == ~DoStats => \E S : shown \in Seq(S) /\ \A entry \in S : Agrees(aggregates, entry)

AgreeInv ==
    /\ VisibleInv /\ StatesFit /\ SumsKnown /\ NothingSorted
    /\ FilteredPass /\ PrintedAgree /\ SortedPass /\ ShownAgree

\* What is known for good stays when more is known.
LEMMA GrownAgrees ==
    ASSUME NEW known, NEW after, Grows(known, after)
    PROVE  /\ \A f, r : Passes(known, f, r) => Passes(after, f, r)
           /\ \A r : PassesAll(known, r) => PassesAll(after, r)
           /\ \A c, r, v : Settled(known, c, r, v) => Settled(after, c, r, v)
           /\ \A e : Agrees(known, e) => Agrees(after, e)
<1>1. ASSUME NEW c, NEW r, Counted(c), Asked(known, c, r)
      PROVE  Asked(after, c, r) /\ ValueFrom(after, c, r) = ValueFrom(known, c, r)
    <2>1. Lists(c, r) \subseteq DOMAIN known /\ (c.kind = "hostgroup" => r.group \in DOMAIN Hostgroups)
        BY <1>1 DEF Asked
    <2>2. Lists(c, r) \subseteq DOMAIN after /\ ValueFrom(after, c, r) = ValueFrom(known, c, r)
        BY <1>1, <2>1, ValueKept
    <2> QED BY <1>1, <2>2 DEF Asked
<1>2. \A f, r : Passes(known, f, r) => Passes(after, f, r)
    BY <1>1 DEF Passes
<1>3. \A r : PassesAll(known, r) => PassesAll(after, r)
    BY <1>2 DEF PassesAll
<1>4. \A c, r, v : Settled(known, c, r, v) => Settled(after, c, r, v)
    BY <1>1 DEF Settled
<1>5. \A e : Agrees(known, e) => Agrees(after, e)
    BY <1>3, <1>4 DEF Agrees
<1> QED BY <1>2, <1>3, <1>4, <1>5

\* Passing and being settled depend on the headers only.
LEMMA SameAgrees ==
    ASSUME UNCHANGED asked
    PROVE  /\ \A known, f, r : Passes(known, f, r)' <=> Passes(known, f, r)
           /\ \A known, r : PassesAll(known, r)' <=> PassesAll(known, r)
           /\ \A known, c, r, v : Settled(known, c, r, v)' <=> Settled(known, c, r, v)
           /\ \A known, e : Agrees(known, e)' <=> Agrees(known, e)
<1>1. query' = query
    BY DEF asked
<1>2. \A c, r : Lists(c, r)' = Lists(c, r)
    BY <1>1 DEF Lists
<1>3. \A known, c, r : ValueFrom(known, c, r)' = ValueFrom(known, c, r)
    BY <1>1 DEF ValueFrom
<1>4. \A known, c, r : Asked(known, c, r)' <=> Asked(known, c, r)
    BY <1>2 DEF Asked
<1>5. \A known, f, r : Passes(known, f, r)' <=> Passes(known, f, r)
    BY <1>3, <1>4 DEF Passes
<1>6. \A known, r : PassesAll(known, r)' <=> PassesAll(known, r)
    BY <1>1, <1>5 DEF PassesAll
<1>7. \A known, c, r, v : Settled(known, c, r, v)' <=> Settled(known, c, r, v)
    BY <1>3, <1>4 DEF Settled
<1>8. \A known, e : Agrees(known, e)' <=> Agrees(known, e)
    BY <1>1, <1>6, <1>7 DEF Agrees
<1> QED BY <1>5, <1>6, <1>7, <1>8

LEMMA StillAgree ==
    ASSUME UNCHANGED asked, Grows(aggregates, aggregates')
    PROVE  /\ \A f, r : Passes(aggregates, f, r) => Passes(aggregates, f, r)'
           /\ \A r : PassesAll(aggregates, r) => PassesAll(aggregates, r)'
           /\ \A c, r, v : Settled(aggregates, c, r, v) => Settled(aggregates, c, r, v)'
           /\ \A e : Agrees(aggregates, e) => Agrees(aggregates, e)'
           /\ \A f, r : Passes(aggregates', f, r) => Passes(aggregates, f, r)'
           /\ \A c, r, v : Settled(aggregates', c, r, v) => Settled(aggregates, c, r, v)'
<1>1. PICK after : after = aggregates'
    OBVIOUS
<1>2. Grows(aggregates, after)
    BY <1>1
<1>3. /\ \A f, r : Passes(aggregates, f, r) => Passes(after, f, r)
      /\ \A r : PassesAll(aggregates, r) => PassesAll(after, r)
      /\ \A c, r, v : Settled(aggregates, c, r, v) => Settled(after, c, r, v)
      /\ \A e : Agrees(aggregates, e) => Agrees(after, e)
    BY <1>2, GrownAgrees
<1>4. /\ \A f, r : Passes(after, f, r) => Passes(after, f, r)'
      /\ \A r : PassesAll(after, r) => PassesAll(after, r)'
      /\ \A c, r, v : Settled(after, c, r, v) => Settled(after, c, r, v)'
      /\ \A e : Agrees(after, e) => Agrees(after, e)'
    BY SameAgrees
<1> QED BY <1>1, <1>3, <1>4

\* A step that asks for no more rows leaves those that are sorted and shown in agreement.
LEMMA QuietAgrees ==
    ASSUME AgreeInv, UNCHANGED asked, Grows(aggregates, aggregates')
    PROVE  /\ UNCHANGED shown => ShownAgree'
           /\ UNCHANGED <<heap, outbuf>> => SortedPass'
           /\ pc' # "headers" => NothingSorted'
           /\ pc' # "filter" => FilteredPass'
           /\ pc' # "print" => PrintedAgree'
           /\ UNCHANGED <<pc, k, row, values>> => FilteredPass' /\ PrintedAgree'
           /\ UNCHANGED <<host, service>> => StatesFit'
           /\ DoStats' <=> DoStats
<1>1. query' = query /\ (DoStats' <=> DoStats)
    BY DEF asked, DoStats
<1>2. UNCHANGED shown => ShownAgree'
    BY <1>1, StillAgree DEF AgreeInv, ShownAgree
<1>3. UNCHANGED <<heap, outbuf>> => SortedPass'
    BY <1>1, StillAgree DEF AgreeInv, SortedPass
<1>4. UNCHANGED <<host, service>> => StatesFit'
    BY DEF AgreeInv, StatesFit
<1>5. ASSUME UNCHANGED <<pc, k, row, values>>
      PROVE  FilteredPass' /\ PrintedAgree'
    <2>1. PICK filter, columns, r, printed : /\ filter = query.filter /\ columns = query.columns
                                             /\ r = row /\ printed = values
        OBVIOUS
    <2>2. pc = "filter" => \A m \in 1 .. k - 1 : Passes(aggregates, filter[m], r)'
        BY <2>1, StillAgree DEF AgreeInv, FilteredPass
    <2>3. pc = "print" /\ ~DoStats =>
            /\ PassesAll(aggregates, r)'
            /\ \A m \in 1 .. k - 1 : Settled(aggregates, columns[m], r, printed[m])'
        BY <2>1, StillAgree DEF AgreeInv, PrintedAgree
    <2>4. filter = query'.filter /\ columns = query'.columns /\ r = row' /\ printed = values'
        BY <1>1, <1>5, <2>1
    <2>5. FilteredPass'
        BY <1>5, <2>2, <2>4 DEF FilteredPass
    <2>6. PrintedAgree'
        BY <1>1, <1>5, <2>3, <2>4 DEF PrintedAgree
    <2> QED BY <2>5, <2>6
<1>6. /\ pc' # "headers" => NothingSorted'
      /\ pc' # "filter" => FilteredPass'
      /\ pc' # "print" => PrintedAgree'
    BY DEF NothingSorted, FilteredPass, PrintedAgree
<1> QED BY <1>1, <1>2, <1>3, <1>4, <1>5, <1>6

\* What a column teaches.
LEMMA LearntSums ==
    ASSUME AgreeInv, row \in RowsHere, NEW c, ColumnFits(request.table, c)
    PROVE  /\ Grows(aggregates, Learnt(c, row)) /\ SumsFit(Learnt(c, row))
           /\ Settled(Learnt(c, row), c, row, ValueOf(c, row))
<1>1. auth \in Auths /\ request \in Requests /\ row \in RowsOf(request.table) /\ AggregatesFit(aggregates)
    BY DEF AgreeInv, VisibleInv, AskedFits, LearnedFits, RowsHere
<1>2. PICK r : r = row
    OBVIOUS
<1>3. PICK after : after = Learnt(c, r)
    OBVIOUS
<1>4. /\ Grows(aggregates, after)
      /\ Counted(c) => /\ Lists(c, r) \subseteq DOMAIN after
                       /\ ValueOf(c, r) = ValueFrom(after, c, r)
                       /\ c.kind = "hostgroup" => r.group \in DOMAIN Hostgroups
                       /\ c.kind = "services" => ServiceListFits(ListOf(c, r))
      /\ \A list \in DOMAIN after : list \in DOMAIN aggregates \/ Fresh(list, after[list])
    BY <1>1, <1>2, <1>3, LearntIs
<1>5. SumsFit(after)
    <2> SUFFICES ASSUME NEW list \in DOMAIN after PROVE SumFits(list, after[list])
        BY DEF SumsFit
    <2>1. CASE list \in DOMAIN aggregates
        BY <1>4, <2>1 DEF Grows, AgreeInv, SumsKnown, SumsFit
    <2>2. CASE Fresh(list, after[list])
        BY <2>2, FreshSums DEF AgreeInv
    <2> QED BY <1>4, <2>1, <2>2
<1>6. Settled(after, c, r, ValueOf(c, r))
    BY <1>4 DEF Settled, Asked
<1> QED BY <1>2, <1>3, <1>4, <1>5, <1>6

LEMMA GrowsReflexive == Grows(aggregates, aggregates)
BY DEF Grows

\* A row that was accepted passed all of the filters.
LEMMA AcceptedPasses ==
    ASSUME AgreeInv, NEW next, Accept(next)
    PROVE  PassesAll(aggregates, row)
<1>1. PICK F, filter : filter = query.filter /\ filter \in Seq(F)
    BY DEF AgreeInv, VisibleInv, AskedFits, QueryFits
<1>2. pc = "filter" /\ k > Len(filter) /\ k \in Nat /\ Len(filter) \in Nat
    BY <1>1 DEF Accept, AgreeInv, VisibleInv, WalkFits
<1>3. \A m \in DOMAIN filter : m \in 1 .. k - 1
    BY <1>1, <1>2
<1>4. \A m \in 1 .. k - 1 : Passes(aggregates, query.filter[m], row)
    BY <1>2 DEF AgreeInv, FilteredPass
<1> QED BY <1>1, <1>3, <1>4 DEF PassesAll

\* A check changes no value that is known.
LEMMA CheckAgrees == ASSUME AgreeInv, Check, VisibleInv' PROVE AgreeInv'
<1>1. /\ UNCHANGED <<asked, pc, row, k, aggregates, shown, values, heap, outbuf>>
      /\ pc # "headers"
    BY DEF Check, walk, printing, sorter
<1>2. PICK c \in Changes :
        IF c.object \in DOMAIN host
        THEN host' = [host EXCEPT ![c.object] = c.state] /\ UNCHANGED service
        ELSE service' = [service EXCEPT ![c.object] = c.state] /\ UNCHANGED host
    BY DEF Check
<1>3. StatesFit'
    <2>1. /\ host \in [DOMAIN HostContacts -> HostStates] /\ DOMAIN host = DOMAIN HostContacts
          /\ service \in [DOMAIN HostOf -> ServiceStates] /\ DOMAIN service = DOMAIN HostOf
        BY DEF AgreeInv, StatesFit
    <2>2. \/ c.object \in DOMAIN HostContacts /\ c.state \in HostStates
          \/ c.object \in DOMAIN HostOf /\ c.state \in ServiceStates
        BY AnswerAssumption
    <2>3. CASE c.object \in DOMAIN HostContacts
        <3>1. c.object \notin DOMAIN HostOf
            BY <2>3, ObjectsAssumption
        <3>2. host' = [host EXCEPT ![c.object] = c.state] /\ service' = service
            BY <1>2, <2>1, <2>3
        <3> QED BY <2>1, <2>2, <3>1, <3>2 DEF StatesFit
    <2>4. CASE c.object \notin DOMAIN HostContacts
        <3>1. service' = [service EXCEPT ![c.object] = c.state] /\ host' = host
            BY <1>2, <2>1, <2>4
        <3> QED BY <2>1, <2>2, <2>4, <3>1 DEF StatesFit
    <2> QED BY <2>3, <2>4
<1>4. Grows(aggregates, aggregates') /\ SumsKnown'
    BY <1>1, GrowsReflexive DEF AgreeInv, SumsKnown
<1>5. ShownAgree' /\ SortedPass' /\ NothingSorted' /\ FilteredPass' /\ PrintedAgree'
    BY <1>1, <1>4, QuietAgrees
<1> QED BY <1>3, <1>4, <1>5 DEF AgreeInv

LEMMA ReadHeadersAgrees == ASSUME AgreeInv, ReadHeaders, VisibleInv' PROVE AgreeInv'
<1>1. /\ pc = "headers" /\ pc' \in {"refused", "start"}
      /\ UNCHANGED <<host, service, aggregates, shown, heap, outbuf>>
    BY DEF ReadHeaders, core, printing, sorter
<1>2. shown = <<>> /\ heap = <<>> /\ outbuf = <<>>
    BY <1>1 DEF AgreeInv, VisibleInv, NothingYet, NothingSorted
<1>3. StatesFit' /\ SumsKnown' /\ NothingSorted' /\ FilteredPass' /\ PrintedAgree'
    BY <1>1 DEF AgreeInv, StatesFit, SumsKnown, NothingSorted, FilteredPass, PrintedAgree
<1>4. PICK S : S = {}
    OBVIOUS
<1>5. shown' \in Seq(S) /\ \A e \in S : Agrees(aggregates, e)'
    BY <1>1, <1>2, <1>4
<1>6. heap' \in Seq(S) /\ outbuf' \in Seq(S) /\ \A e \in S : PassesAll(aggregates, e.row)'
    BY <1>1, <1>2, <1>4
<1>7. ShownAgree' /\ SortedPass'
    BY <1>5, <1>6 DEF ShownAgree, SortedPass
<1> QED BY <1>3, <1>7 DEF AgreeInv

\* Steps that learn nothing, and neither sort nor show a row.
LEMMA IdleAgrees ==
    ASSUME AgreeInv, VisibleInv', pc' \notin {"headers", "filter", "print"},
           UNCHANGED <<host, service, asked, aggregates, shown, heap, outbuf>>
    PROVE  AgreeInv'
<1>1. Grows(aggregates, aggregates') /\ SumsKnown'
    BY GrowsReflexive DEF AgreeInv, SumsKnown
<1>2. StatesFit' /\ ShownAgree' /\ SortedPass' /\ NothingSorted' /\ FilteredPass' /\ PrintedAgree'
    BY <1>1, QuietAgrees
<1> QED BY <1>1, <1>2 DEF AgreeInv

LEMMA WalkAgrees ==
    ASSUME AgreeInv, VisibleInv',
           Start \/ NextList \/ Unauthorized \/ CountRow \/ RefuseRow \/ ConsumeEnd \/ PrintTrailer
    PROVE  AgreeInv'
<1>1. CASE Start
    BY <1>1, IdleAgrees DEF Start, core, stats
<1>2. CASE NextList
    BY <1>2, IdleAgrees DEF NextList, core, printing, sorter
<1>3. CASE Unauthorized
    BY <1>3, IdleAgrees DEF Unauthorized, core, printing, sorter
<1>4. CASE CountRow
    BY <1>4, IdleAgrees DEF CountRow, Accept, core, printing, sorter
<1>5. CASE RefuseRow
    BY <1>5, IdleAgrees DEF RefuseRow, Accept, core, printing
<1>6. CASE ConsumeEnd
    BY <1>6, IdleAgrees DEF ConsumeEnd, core, printing, sorter
<1>7. CASE PrintTrailer
    BY <1>7, IdleAgrees DEF PrintTrailer, core, sorter
<1> QED BY <1>1, <1>2, <1>3, <1>4, <1>5, <1>6, <1>7

LEMMA NextRowAgrees == ASSUME AgreeInv, NextRow, VisibleInv' PROVE AgreeInv'
<1>1. /\ pc' = "filter" /\ k' = 1
      /\ UNCHANGED <<host, service, asked, aggregates, shown, heap, outbuf>>
    BY DEF NextRow, core, printing, sorter
<1>2. Grows(aggregates, aggregates') /\ SumsKnown'
    BY <1>1, GrowsReflexive DEF AgreeInv, SumsKnown
<1>3. StatesFit' /\ ShownAgree' /\ SortedPass' /\ NothingSorted' /\ PrintedAgree'
    BY <1>1, <1>2, QuietAgrees
<1>4. \A m \in 1 .. k' - 1 : FALSE
    BY <1>1
<1>5. FilteredPass'
    BY <1>4 DEF FilteredPass
<1> QED BY <1>2, <1>3, <1>5 DEF AgreeInv

\* A filter that a row passes is known for good.
LEMMA FilterAgrees == ASSUME AgreeInv, Filter, VisibleInv' PROVE AgreeInv'
<1>1. /\ pc = "filter" /\ k <= Len(query.filter) /\ aggregates' = Learnt(query.filter[k].column, row)
      /\ IF FilterValue(query.filter[k].column, row) \in query.filter[k].accepts
         THEN k' = k + 1 /\ pc' = pc ELSE pc' = "row" /\ k' = k
      /\ UNCHANGED <<host, service, asked, row, shown, heap, outbuf>>
    BY DEF Filter, core, walk, printing, sorter
<1>2. PICK F, filter : filter = query.filter /\ filter \in Seq(F)
                       /\ \A f \in F : ColumnFits(request.table, f.column)
    BY DEF AgreeInv, VisibleInv, AskedFits, QueryFits
<1>3. k \in 1 .. Len(filter) /\ k \in Nat /\ row \in RowsHere
    BY <1>1, <1>2 DEF AgreeInv, VisibleInv, WalkFits
<1>4. PICK f \in F : f = filter[k]
    BY <1>2, <1>3
<1>5. PICK c : c = f.column /\ ColumnFits(request.table, c)
    BY <1>2
<1>6. Grows(aggregates, aggregates') /\ SumsKnown' /\ Settled(aggregates', c, row, ValueOf(c, row))
    <2>1. aggregates' = Learnt(c, row)
        BY <1>1, <1>2, <1>4, <1>5
    <2> QED BY <1>3, <1>5, <2>1, LearntSums DEF SumsKnown
<1>7. StatesFit' /\ ShownAgree' /\ SortedPass' /\ NothingSorted' /\ PrintedAgree'
    BY <1>1, <1>6, QuietAgrees
<1>8. FilteredPass'
    <2>1. CASE pc' = "row"
        BY <2>1 DEF FilteredPass
    <2>2. CASE pc' # "row"
        <3>1. k' = k + 1 /\ FilterValue(c, row) \in f.accepts
            BY <1>1, <1>2, <1>4, <1>5, <2>2
        <3>2. PICK r, n : r = row /\ n = k
            OBVIOUS
        <3>3. Passes(aggregates', f, r)
            <4>1. SUFFICES ASSUME Counted(c)
                           PROVE  Asked(aggregates', c, r) /\ ValueFrom(aggregates', c, r) \in f.accepts
                BY <1>5 DEF Passes
            <4>2. FilterValue(c, row) = ValueOf(c, row)
                BY <4>1 DEF Counted, FilterValue
            <4> QED BY <1>6, <3>1, <3>2, <4>1, <4>2 DEF Settled
        <3>4. Passes(aggregates, f, r)'
            BY <1>1, <1>6, <3>3, StillAgree
        <3>5. \A m \in 1 .. n - 1 : Passes(aggregates, filter[m], r)'
            BY <1>1, <1>2, <1>6, <3>2, StillAgree DEF AgreeInv, FilteredPass
        <3>6. \A m \in 1 .. n : m = n \/ m \in 1 .. n - 1
            BY <1>3, <3>2
        <3>7. k' - 1 = n /\ row' = r /\ query'.filter = filter
            BY <1>1, <1>2, <1>3, <3>1, <3>2 DEF asked
        <3>8. \A m \in 1 .. n : Passes(aggregates, filter[m], r)'
            BY <1>4, <3>2, <3>4, <3>5, <3>6
        <3> QED BY <3>7, <3>8 DEF FilteredPass
    <2> QED BY <2>1, <2>2
<1> QED BY <1>6, <1>7, <1>8 DEF AgreeInv

\* A row in the sorter passed the filters.
LEMMA SortRowAgrees == ASSUME AgreeInv, SortRow, VisibleInv' PROVE AgreeInv'
<1>1. /\ Accept("row") /\ InsertRow(row) /\ pc' = "row"
      /\ UNCHANGED <<host, service, asked, aggregates, shown, outbuf>>
    BY DEF SortRow, Accept, core, walk, printing
<1>2. Grows(aggregates, aggregates') /\ SumsKnown'
    BY <1>1, GrowsReflexive DEF AgreeInv, SumsKnown
<1>3. StatesFit' /\ ShownAgree' /\ NothingSorted' /\ FilteredPass' /\ PrintedAgree' /\ (DoStats' <=> DoStats)
    BY <1>1, <1>2, QuietAgrees
<1>4. PassesAll(aggregates, row)
    BY <1>1, AcceptedPasses
<1>5. SortedPass'
    <2>1. SUFFICES ASSUME ~DoStats
                   PROVE  /\ \E S : heap' \in Seq(S) /\ \A e \in S : PassesAll(aggregates, e.row)'
                          /\ \E S : outbuf' \in Seq(S) /\ \A e \in S : PassesAll(aggregates, e.row)'
        BY <1>3 DEF SortedPass
    <2>2. PICK S : heap \in Seq(S) /\ \A e \in S : PassesAll(aggregates, e.row)
        BY <2>1 DEF AgreeInv, SortedPass
    <2>3. PICK O : outbuf \in Seq(O) /\ \A e \in O : PassesAll(aggregates, e.row)
        BY <2>1 DEF AgreeInv, SortedPass
    <2>4. PICK e : e = [key |-> SortKey(row), row |-> row]
        OBVIOUS
    <2>5. PICK T : T = S \cup {e}
        OBVIOUS
    <2>6. heap \in Seq(T) /\ e \in T /\ \A x \in T : PassesAll(aggregates, x.row)
        BY <1>4, <2>2, <2>4, <2>5
    <2>7. heap' = Insert(heap, e, query.limit + query.offset)
        BY <1>1, <2>4 DEF InsertRow
    <2>8. heap' \in Seq(T)
        BY <2>6, <2>7, InsertKeeps
    <2>9. /\ \A x \in T : PassesAll(aggregates, x.row)'
          /\ \A x \in O : PassesAll(aggregates, x.row)'
        BY <1>1, <1>2, <2>3, <2>6, StillAgree
    <2> QED BY <1>1, <2>3, <2>8, <2>9
<1> QED BY <1>2, <1>3, <1>5 DEF AgreeInv

LEMMA PlainRowAgrees == ASSUME AgreeInv, PlainRow, VisibleInv' PROVE AgreeInv'
<1>1. PICK next \in {"row", "print"} : Accept(next)
    BY DEF PlainRow
<1>2. /\ pc' = next /\ k' = 1
      /\ UNCHANGED <<host, service, asked, row, aggregates, shown, heap, outbuf>>
    BY <1>1 DEF PlainRow, Accept, core, walk, printing
<1>3. Grows(aggregates, aggregates') /\ SumsKnown'
    BY <1>2, GrowsReflexive DEF AgreeInv, SumsKnown
<1>4. StatesFit' /\ ShownAgree' /\ SortedPass' /\ NothingSorted' /\ FilteredPass'
    BY <1>2, <1>3, QuietAgrees
<1>5. PrintedAgree'
    <2>1. PassesAll(aggregates, row)
        BY <1>1, AcceptedPasses
    <2>2. PICK r : r = row
        OBVIOUS
    <2>3. PassesAll(aggregates, r)'
        BY <1>2, <1>3, <2>1, <2>2, StillAgree
    <2>4. r = row' /\ \A m \in 1 .. k' - 1 : FALSE
        BY <1>2, <2>2
    <2> QED BY <2>3, <2>4 DEF PrintedAgree
<1> QED BY <1>3, <1>4, <1>5 DEF AgreeInv

\* A column of the query: what is learnt of it, and that its value is known for good.
LEMMA ColumnSettled ==
    ASSUME AgreeInv, k <= Len(query.columns), row \in RowsHere, aggregates' = Learnt(Column, row)
    PROVE  /\ Grows(aggregates, aggregates') /\ SumsKnown'
           /\ Settled(aggregates', Column, row, ValueOf(Column, row))
<1>1. PICK C, columns : columns = query.columns /\ columns \in Seq(C)
                        /\ \A c \in C : ColumnFits(request.table, c)
    BY DEF AgreeInv, VisibleInv, AskedFits, QueryFits
<1>2. k \in 1 .. Len(columns)
    BY <1>1 DEF AgreeInv, VisibleInv, WalkFits
<1>3. PICK c \in C : c = columns[k] /\ ColumnFits(request.table, c)
    BY <1>1, <1>2
<1>4. c = Column
    BY <1>1, <1>3 DEF Column
<1>5. /\ Grows(aggregates, Learnt(c, row)) /\ SumsFit(Learnt(c, row))
      /\ Settled(Learnt(c, row), c, row, ValueOf(c, row))
    BY <1>3, LearntSums
<1> QED BY <1>4, <1>5 DEF SumsKnown

LEMMA PrintColumnAgrees == ASSUME AgreeInv, PrintColumn, VisibleInv' PROVE AgreeInv'
<1>1. /\ pc = "print" /\ pc' = "print" /\ k <= Len(query.columns)
      /\ values' = Append(values, ValueOf(Column, row)) /\ aggregates' = Learnt(Column, row)
      /\ k' = k + 1
      /\ UNCHANGED <<host, service, asked, row, shown, heap, outbuf>>
    BY DEF PrintColumn, core, walk, sorter
<1>2. row \in RowsHere /\ k \in Nat \ {0}
    BY <1>1 DEF AgreeInv, VisibleInv, WalkFits
<1>3. /\ Grows(aggregates, aggregates') /\ SumsKnown'
      /\ Settled(aggregates', Column, row, ValueOf(Column, row))
    BY <1>1, <1>2, ColumnSettled
<1>4. /\ StatesFit' /\ ShownAgree' /\ SortedPass' /\ NothingSorted' /\ FilteredPass'
      /\ (DoStats' <=> DoStats)
    BY <1>1, <1>3, QuietAgrees
<1>5. ASSUME ~DoStats
      PROVE  /\ PassesAll(aggregates, row)'
             /\ \A m \in 1 .. k' - 1 : Settled(aggregates, query.columns[m], row, values[m])'
    <2>1. PICK S : values \in Seq(S) /\ Len(values) = k - 1
        BY <1>1 DEF AgreeInv, VisibleInv, ValuesTell
    <2>2. PICK v, T : v = ValueOf(Column, row) /\ T = S \cup {v}
        OBVIOUS
    <2>3. values \in Seq(T) /\ v \in T
        BY <2>1, <2>2
    <2>4. PICK n \in Nat : n = k /\ n >= 1
        BY <1>2
    <2>5. values'[n] = v /\ \A m \in 1 .. n - 1 : values'[m] = values[m]
        BY <1>1, <2>1, <2>2, <2>3, <2>4, AppendedSeq
    <2>6. PICK columns, r, printed : columns = query.columns /\ r = row /\ printed = values'
        OBVIOUS
    <2>7. \A m \in 1 .. n - 1 : Settled(aggregates, columns[m], r, printed[m])
        BY <1>1, <1>5, <2>4, <2>5, <2>6 DEF AgreeInv, PrintedAgree
    <2>8. \A m \in 1 .. n - 1 : Settled(aggregates, columns[m], r, printed[m])'
        BY <1>1, <1>3, <2>7, StillAgree
    <2>9. Settled(aggregates', columns[n], r, printed[n])
        BY <1>3, <2>2, <2>4, <2>5, <2>6 DEF Column
    <2>10. Settled(aggregates, columns[n], r, printed[n])'
        BY <1>1, <1>3, <2>9, StillAgree
    <2>11. \A m \in 1 .. n : m = n \/ m \in 1 .. n - 1
        OBVIOUS
    <2>12. k' - 1 = n /\ r = row' /\ columns = query'.columns /\ printed = values'
        BY <1>1, <2>4, <2>6 DEF asked
    <2>13. \A m \in 1 .. n : Settled(aggregates, columns[m], r, printed[m])'
        BY <2>8, <2>10, <2>11
    <2>14. PassesAll(aggregates, r)'
        BY <1>1, <1>3, <1>5, <2>6, StillAgree DEF AgreeInv, PrintedAgree
    <2> QED BY <2>12, <2>13, <2>14
<1>6. PrintedAgree'
    BY <1>4, <1>5 DEF PrintedAgree
<1> QED BY <1>3, <1>4, <1>6 DEF AgreeInv

LEMMA PrintEndAgrees == ASSUME AgreeInv, PrintEnd, VisibleInv' PROVE AgreeInv'
<1>1. /\ pc = "print" /\ k > Len(query.columns) /\ pc' \in {"output", "row"}
      /\ shown' = Append(shown, [row |-> row, values |-> values, results |-> <<>>])
      /\ UNCHANGED <<host, service, asked, aggregates, heap, outbuf>>
    BY DEF PrintEnd, core, walk, sorter
<1>2. Grows(aggregates, aggregates') /\ SumsKnown'
    BY <1>1, GrowsReflexive DEF AgreeInv, SumsKnown
<1>3. /\ StatesFit' /\ SortedPass' /\ NothingSorted' /\ FilteredPass' /\ PrintedAgree'
      /\ (DoStats' <=> DoStats)
    BY <1>1, <1>2, QuietAgrees
<1>4. ShownAgree'
    <2>1. SUFFICES ASSUME ~DoStats
                   PROVE  \E S : shown' \in Seq(S) /\ \A entry \in S : Agrees(aggregates, entry)'
        BY <1>3 DEF ShownAgree
    <2>2. PICK S : shown \in Seq(S) /\ \A entry \in S : Agrees(aggregates, entry)
        BY <2>1 DEF AgreeInv, ShownAgree
    <2>3. PICK e : e = [row |-> row, values |-> values, results |-> <<>>]
        OBVIOUS
    <2>4. Agrees(aggregates, e)
        <3>1. PICK C : query.columns \in Seq(C)
            BY DEF AgreeInv, VisibleInv, AskedFits, QueryFits
        <3>2. DOMAIN query.columns = 1 .. Len(query.columns) /\ Len(query.columns) \in Nat
            BY <3>1
        <3>3. k = Len(query.columns) + 1
            <4>1. k <= Len(query.columns) + 1 /\ k \in Nat
                BY <1>1 DEF AgreeInv, VisibleInv, WalkFits, ValuesTell
            <4> QED BY <1>1, <3>2, <4>1
        <3>4. /\ PassesAll(aggregates, row)
              /\ \A m \in 1 .. k - 1 : Settled(aggregates, query.columns[m], row, values[m])
            BY <1>1, <2>1 DEF AgreeInv, PrintedAgree
        <3>5. \A m \in DOMAIN query.columns : Settled(aggregates, query.columns[m], row, values[m])
            BY <3>2, <3>3, <3>4
        <3>6. e.row = row /\ e.values = values
            BY <2>3
        <3> QED BY <3>4, <3>5, <3>6 DEF Agrees
    <2>5. PICK T : T = S \cup {e}
        OBVIOUS
    <2>6. shown \in Seq(T) /\ e \in T /\ \A entry \in T : Agrees(aggregates, entry)
        BY <2>2, <2>4, <2>5
    <2>7. shown' \in Seq(T)
        BY <1>1, <2>3, <2>6, AppendedSeq
    <2>8. \A entry \in T : Agrees(aggregates, entry)'
        BY <1>1, <1>2, <2>6, StillAgree
    <2> QED BY <2>7, <2>8
<1> QED BY <1>2, <1>3, <1>4 DEF AgreeInv

\* Steps that learn something, and neither filter, sort nor show.
LEMMA LearnsAgrees ==
    ASSUME AgreeInv, VisibleInv', pc' \notin {"headers", "filter", "print"},
           Grows(aggregates, aggregates'), SumsKnown',
           UNCHANGED <<host, service, asked, shown, heap, outbuf>>
    PROVE  AgreeInv'
<1>1. StatesFit' /\ ShownAgree' /\ SortedPass' /\ NothingSorted' /\ FilteredPass' /\ PrintedAgree'
    BY QuietAgrees
<1> QED BY <1>1 DEF AgreeInv

LEMMA GroupColumnAgrees == ASSUME AgreeInv, GroupColumn, VisibleInv' PROVE AgreeInv'
<1>1. /\ pc \in {"group", "regroup"} /\ pc' = pc /\ k <= Len(query.columns)
      /\ aggregates' = Learnt(Column, row)
      /\ UNCHANGED <<host, service, asked, shown, heap, outbuf>>
    BY DEF GroupColumn, core, walk, printing, sorter
<1>2. row \in RowsHere
    BY <1>1 DEF AgreeInv, VisibleInv, WalkFits
<1>3. Grows(aggregates, aggregates') /\ SumsKnown'
    BY <1>1, <1>2, ColumnSettled
<1> QED BY <1>1, <1>3, LearnsAgrees

\* Groups are sorted by their first rows, of which no value is shown.
LEMMA StatsGroupAgrees == ASSUME AgreeInv, StatsGroup, VisibleInv' PROVE AgreeInv'
<1>1. /\ pc = "group" /\ pc' = "consume"
      /\ UNCHANGED <<host, service, asked, aggregates, shown>>
    BY DEF StatsGroup, core, walk, printing
<1>2. DoStats
    BY <1>1 DEF AgreeInv, VisibleInv, GroupsCount
<1>3. Grows(aggregates, aggregates') /\ SumsKnown'
    BY <1>1, GrowsReflexive DEF AgreeInv, SumsKnown
<1>4. StatesFit' /\ ShownAgree' /\ NothingSorted' /\ FilteredPass' /\ PrintedAgree' /\ DoStats'
    BY <1>1, <1>2, <1>3, QuietAgrees
<1>5. SortedPass'
    BY <1>4 DEF SortedPass
<1> QED BY <1>3, <1>4, <1>5 DEF AgreeInv

LEMMA ConsumeColumnAgrees == ASSUME AgreeInv, ConsumeColumn, VisibleInv' PROVE AgreeInv'
<1>1. /\ pc = "consume" /\ pc' = pc /\ k <= Len(query.stats)
      /\ aggregates' = IF query.stats[k].kind = "other" THEN aggregates
                       ELSE Learnt(query.stats[k].column, row)
      /\ UNCHANGED <<host, service, asked, shown, heap, outbuf>>
    BY DEF ConsumeColumn, core, walk, printing, sorter
<1>2. row \in RowsHere
    BY <1>1 DEF AgreeInv, VisibleInv, WalkFits
<1>3. PICK S, all : all = query.stats /\ all \in Seq(S)
                    /\ \A x \in S : x.kind # "other" => ColumnFits(request.table, x.column)
    BY DEF AgreeInv, VisibleInv, AskedFits, QueryFits
<1>4. k \in 1 .. Len(all)
    BY <1>1, <1>3 DEF AgreeInv, VisibleInv, WalkFits
<1>5. PICK s \in S : s = all[k] /\ (s.kind # "other" => ColumnFits(request.table, s.column))
    BY <1>3, <1>4
<1>6. Grows(aggregates, aggregates') /\ SumsKnown'
    <2>1. CASE s.kind = "other"
        <3>1. aggregates' = aggregates
            BY <1>1, <1>3, <1>5, <2>1
        <3> QED BY <3>1, GrowsReflexive DEF AgreeInv, SumsKnown
    <2>2. CASE s.kind # "other"
        <3>1. PICK c : c = s.column /\ ColumnFits(request.table, c)
            BY <1>5, <2>2
        <3>2. aggregates' = Learnt(c, row)
            BY <1>1, <1>3, <1>5, <2>2, <3>1
        <3> QED BY <1>2, <3>1, <3>2, LearntSums DEF SumsKnown
    <2> QED BY <2>1, <2>2
<1> QED BY <1>1, <1>6, LearnsAgrees

LEMMA FinishAgrees == ASSUME AgreeInv, Finish, VisibleInv' PROVE AgreeInv'
<1>1. /\ outbuf' = Extracted /\ heap' = <<>> /\ pc' = "output"
      /\ UNCHANGED <<host, service, asked, aggregates, shown>>
    BY DEF Finish, core, walk, printing
<1>2. Grows(aggregates, aggregates') /\ SumsKnown'
    BY <1>1, GrowsReflexive DEF AgreeInv, SumsKnown
<1>3. StatesFit' /\ ShownAgree' /\ NothingSorted' /\ FilteredPass' /\ PrintedAgree' /\ (DoStats' <=> DoStats)
    BY <1>1, <1>2, QuietAgrees
<1>4. SortedPass'
    <2>1. SUFFICES ASSUME ~DoStats
                   PROVE  /\ \E S : heap' \in Seq(S) /\ \A e \in S : PassesAll(aggregates, e.row)'
                          /\ \E S : outbuf' \in Seq(S) /\ \A e \in S : PassesAll(aggregates, e.row)'
        BY <1>3 DEF SortedPass
    <2>2. PICK S : heap \in Seq(S) /\ \A e \in S : PassesAll(aggregates, e.row)
        BY <2>1 DEF AgreeInv, SortedPass
    <2>3. query.limit \in Nat \cup {-1} /\ query.offset \in Nat
        BY DEF AgreeInv, VisibleInv, AskedFits, QueryFits
    <2>4. outbuf' \in Seq(S) /\ heap' \in Seq(S)
        BY <1>1, <2>2, <2>3, ExtractedKeeps
    <2>5. \A e \in S : PassesAll(aggregates, e.row)'
        BY <1>1, <1>2, <2>2, StillAgree
    <2> QED BY <2>4, <2>5
<1> QED BY <1>2, <1>3, <1>4 DEF AgreeInv

LEMMA OutputNextAgrees == ASSUME AgreeInv, OutputNext, VisibleInv' PROVE AgreeInv'
<1>1. /\ outbuf # <<>> /\ row' = Last(outbuf).row /\ outbuf' = Front(outbuf)
      /\ k' = 1 /\ pc' \in {"regroup", "print"}
      /\ UNCHANGED <<host, service, asked, aggregates, shown, heap>>
    BY DEF OutputNext, core, printing
<1>2. Grows(aggregates, aggregates') /\ SumsKnown'
    BY <1>1, GrowsReflexive DEF AgreeInv, SumsKnown
<1>3. StatesFit' /\ ShownAgree' /\ NothingSorted' /\ FilteredPass' /\ (DoStats' <=> DoStats)
    BY <1>1, <1>2, QuietAgrees
<1>4. ASSUME ~DoStats
      PROVE  SortedPass' /\ PassesAll(aggregates, row)'
    <2>1. PICK S, buffer : /\ buffer = outbuf /\ buffer \in Seq(S)
                           /\ \A e \in S : PassesAll(aggregates, e.row)
        BY <1>4 DEF AgreeInv, SortedPass
    <2>2. SubSeq(buffer, 1, Len(buffer) - 1) \in Seq(S)
        BY <2>1, ShorterSeq
    <2>3. outbuf' \in Seq(S)
        BY <1>1, <2>1, <2>2 DEF Front
    <2>4. PICK e \in S : e = buffer[Len(buffer)]
        BY <1>1, <2>1
    <2>5. PICK r : r = e.row /\ r = row'
        BY <1>1, <2>1, <2>4 DEF Last
    <2>6. \A x \in S : PassesAll(aggregates, x.row)'
        BY <1>1, <1>2, <2>1, StillAgree
    <2>7. PassesAll(aggregates, r)'
        BY <1>1, <1>2, <2>1, <2>5, StillAgree
    <2>8. PICK T : heap \in Seq(T) /\ \A x \in T : PassesAll(aggregates, x.row)
        BY <1>4 DEF AgreeInv, SortedPass
    <2>9. heap' \in Seq(T) /\ \A x \in T : PassesAll(aggregates, x.row)'
        BY <1>1, <1>2, <2>8, StillAgree
    <2>10. SortedPass'
        BY <2>3, <2>6, <2>9 DEF SortedPass
    <2> QED BY <2>5, <2>7, <2>10
<1>5. \A m \in 1 .. k' - 1 : FALSE
    BY <1>1
<1>6. SortedPass' /\ PrintedAgree'
    BY <1>3, <1>4, <1>5 DEF SortedPass, PrintedAgree
<1> QED BY <1>2, <1>3, <1>6 DEF AgreeInv

\* Results of statistics are shown.
LEMMA ResultsAgree ==
    ASSUME AgreeInv, VisibleInv', OutputGroup \/ OutputEnd
    PROVE  AgreeInv'
<1>1. /\ pc' \in {"output", "trailer"} /\ (DoStats \/ UNCHANGED shown)
      /\ UNCHANGED <<host, service, asked, aggregates, heap, outbuf>>
    <2>1. CASE OutputGroup
        <3>1. DoStats
            BY <2>1 DEF OutputGroup, AgreeInv, VisibleInv, GroupsCount
        <3> QED BY <2>1, <3>1 DEF OutputGroup, core, sorter
    <2>2. CASE OutputEnd
        BY <2>2 DEF OutputEnd, core, printing, sorter
    <2> QED BY <2>1, <2>2
<1>2. Grows(aggregates, aggregates') /\ SumsKnown'
    BY <1>1, GrowsReflexive DEF AgreeInv, SumsKnown
<1>3. /\ StatesFit' /\ SortedPass' /\ NothingSorted' /\ FilteredPass' /\ PrintedAgree'
      /\ (UNCHANGED shown => ShownAgree') /\ (DoStats' <=> DoStats)
    BY <1>1, <1>2, QuietAgrees
<1>4. ShownAgree'
    BY <1>1, <1>3 DEF ShownAgree
<1> QED BY <1>2, <1>3, <1>4 DEF AgreeInv

LEMMA StutterAgrees == ASSUME AgreeInv, UNCHANGED vars, VisibleInv' PROVE AgreeInv'
<1>1. UNCHANGED <<host, service, asked, pc, row, k, aggregates, shown, values, heap, outbuf>>
    BY DEF vars, core, walk, printing, sorter
<1>2. Grows(aggregates, aggregates') /\ SumsKnown'
    BY <1>1, GrowsReflexive DEF AgreeInv, SumsKnown
<1>3. StatesFit' /\ ShownAgree' /\ SortedPass' /\ FilteredPass' /\ PrintedAgree'
    BY <1>1, <1>2, QuietAgrees
<1>4. NothingSorted'
    BY <1>1 DEF AgreeInv, NothingSorted
<1> QED BY <1>2, <1>3, <1>4 DEF AgreeInv

\* Before the query.
LEMMA AgreeAtFirst == ASSUME Init PROVE AgreeInv
<1>1. PICK b \in Beginnings : host = b.host /\ service = b.service
    BY DEF Init
<1>2. StatesFit
    BY <1>1, AnswerAssumption DEF StatesFit
<1>3. /\ pc = "headers" /\ aggregates = <<>> /\ heap = <<>> /\ outbuf = <<>> /\ shown = <<>>
    BY DEF Init
<1>4. SumsKnown /\ NothingSorted /\ FilteredPass /\ PrintedAgree
    BY <1>3 DEF SumsKnown, SumsFit, NothingSorted, FilteredPass, PrintedAgree
<1>5. PICK S : S = {}
    OBVIOUS
<1>6. /\ heap \in Seq(S) /\ outbuf \in Seq(S) /\ shown \in Seq(S)
      /\ \A e \in S : PassesAll(aggregates, e.row) /\ Agrees(aggregates, e)
    BY <1>3, <1>5
<1>7. SortedPass /\ ShownAgree
    BY <1>6 DEF SortedPass, ShownAgree
<1> QED BY <1>2, <1>4, <1>7, VisibleAtFirst DEF AgreeInv

\* Every step.
LEMMA AgreeKept == ASSUME AgreeInv, [Next]_vars PROVE AgreeInv'
<1>0. VisibleInv'
    BY VisibleKept DEF AgreeInv
<1>1. CASE Check BY <1>0, <1>1, CheckAgrees
<1>2. CASE ReadHeaders BY <1>0, <1>2, ReadHeadersAgrees
<1>3. CASE Start \/ NextList \/ Unauthorized \/ CountRow \/ RefuseRow \/ ConsumeEnd \/ PrintTrailer
    BY <1>0, <1>3, WalkAgrees
<1>4. CASE NextRow BY <1>0, <1>4, NextRowAgrees
<1>5. CASE Filter BY <1>0, <1>5, FilterAgrees
<1>6. CASE SortRow BY <1>0, <1>6, SortRowAgrees
<1>7. CASE PlainRow BY <1>0, <1>7, PlainRowAgrees
<1>8. CASE PrintColumn BY <1>0, <1>8, PrintColumnAgrees
<1>9. CASE PrintEnd BY <1>0, <1>9, PrintEndAgrees
<1>10. CASE GroupColumn BY <1>0, <1>10, GroupColumnAgrees
<1>11. CASE StatsGroup BY <1>0, <1>11, StatsGroupAgrees
<1>12. CASE ConsumeColumn BY <1>0, <1>12, ConsumeColumnAgrees
<1>13. CASE Finish BY <1>0, <1>13, FinishAgrees
<1>14. CASE OutputNext BY <1>0, <1>14, OutputNextAgrees
<1>15. CASE OutputGroup \/ OutputEnd BY <1>0, <1>15, ResultsAgree
<1>16. CASE Done \/ UNCHANGED vars BY <1>0, <1>16, StutterAgrees DEF Done
<1> QED BY <1>1, <1>2, <1>3, <1>4, <1>5, <1>6, <1>7, <1>8, <1>9, <1>10, <1>11, <1>12, <1>13, <1>14,
           <1>15, <1>16 DEF Next

\* The cells of a row that shows the sum of the column c together with all its summands.
SumIsShown(known, r, cells, c) ==
    /\ SumsFit(known)
    /\ \A cell \in cells : Settled(known, cell[1], r, cell[2])
    /\ c = [kind |-> c.kind, of |-> c.of, type |-> c.type, parts |-> c.parts]
    /\ Total(c)
    /\ \A d \in Summands(c) : {x \in cells : x[1] = d} # {}

\* Each cell of that column shows the sum.
LEMMA ShownCellsAgree ==
    ASSUME NEW known, NEW r, NEW cells, NEW c, SumIsShown(known, r, cells, c)
    PROVE  \A cell \in cells : cell[1] = c => cell[2] = ShownSum(cells, Summands(c))
<1> SUFFICES ASSUME NEW cell \in cells, c = cell[1] PROVE cell[2] = ShownSum(cells, Summands(c))
    OBVIOUS
<1> QED BY CellsAgree DEF SumIsShown

\* The invariant implies that the columns agree.
LEMMA AgreeImplies == ASSUME AgreeInv PROVE ColumnsAgree
<1> SUFFICES ASSUME NEW n \in DOMAIN shown, ~DoStats
             PROVE  LET cells == {<<query.columns[m], shown[n].values[m]>> : m \in DOMAIN query.columns}
                        shownAs(c) == {cell \in cells : cell[1] = c}
                    IN
                    /\ \A cell \in cells :
                        Total(cell[1]) /\ (\A c \in Summands(cell[1]) : shownAs(c) # {}) =>
                            cell[2] = ShownSum(cells, Summands(cell[1]))
                    /\ \A m \in DOMAIN query.filter :
                        LET f == query.filter[m] IN
                        f.column.kind \in {"services", "hostgroup"} =>
                            \A cell \in shownAs(f.column) : cell[2] \in f.accepts
    BY Zenon DEF ColumnsAgree, ShownSum
<1>1. PICK S : shown \in Seq(S) /\ \A entry \in S : Agrees(aggregates, entry)
    BY DEF AgreeInv, ShownAgree
<1>2. PICK entry \in S : entry = shown[n] /\ Agrees(aggregates, entry)
    BY <1>1
<1>3. PICK cells : cells = {<<query.columns[m], shown[n].values[m]>> : m \in DOMAIN query.columns}
    OBVIOUS
<1>4. PICK C, columns : columns = query.columns /\ columns \in Seq(C)
                        /\ \A c \in C : ColumnFits(request.table, c)
    BY DEF AgreeInv, VisibleInv, AskedFits, QueryFits
<1>5. ASSUME NEW cell \in cells
      PROVE  /\ Settled(aggregates, cell[1], entry.row, cell[2])
             /\ cell[1] = [kind |-> cell[1].kind, of |-> cell[1].of, type |-> cell[1].type, parts |-> cell[1].parts]
    <2>1. PICK m \in DOMAIN columns : cell = <<columns[m], entry.values[m]>>
        BY <1>2, <1>3, <1>4
    <2>2. cell[1] = columns[m] /\ cell[2] = entry.values[m] /\ cell[1] \in C
        BY <1>4, <2>1
    <2>3. Settled(aggregates, columns[m], entry.row, entry.values[m])
        BY <1>2, <1>4 DEF Agrees
    <2>4. ColumnFits(request.table, cell[1])
        BY <1>4, <2>2
    <2> QED BY <2>2, <2>3, <2>4 DEF ColumnFits
<1>6. ASSUME NEW cell \in cells, Total(cell[1]),
             \A c \in Summands(cell[1]) : {d \in cells : d[1] = c} # {}
      PROVE  cell[2] = ShownSum(cells, Summands(cell[1]))
    <2>1. PICK c : c = cell[1]
        OBVIOUS
    <2>2. SumsFit(aggregates)
        BY DEF AgreeInv, SumsKnown
    <2>3. \A d \in cells : Settled(aggregates, d[1], entry.row, d[2])
        BY <1>5
    <2>4. c = [kind |-> c.kind, of |-> c.of, type |-> c.type, parts |-> c.parts]
        BY <1>5, <2>1
    <2>5. Total(c) /\ \A d \in Summands(c) : {x \in cells : x[1] = d} # {}
        BY <1>6, <2>1
    <2>6. SumIsShown(aggregates, entry.row, cells, c)
        BY <2>2, <2>3, <2>4, <2>5 DEF SumIsShown
    <2>7. cell[2] = ShownSum(cells, Summands(c))
        BY <2>1, <2>6, ShownCellsAgree
    <2> QED BY <2>1, <2>7
<1>7. ASSUME NEW m \in DOMAIN query.filter, query.filter[m].column.kind \in {"services", "hostgroup"},
             NEW cell \in cells, cell[1] = query.filter[m].column
      PROVE  cell[2] \in query.filter[m].accepts
    <2>1. PICK f : f = query.filter[m]
        OBVIOUS
    <2>2. Passes(aggregates, f, entry.row)
        BY <1>2, <2>1 DEF Agrees, PassesAll
    <2>3. Counted(f.column)
        BY <1>7, <2>1 DEF Counted
    <2>4. Settled(aggregates, f.column, entry.row, cell[2])
        BY <1>5, <1>7, <2>1
    <2> QED BY <2>1, <2>2, <2>3, <2>4 DEF Passes, Settled
<1> QED BY <1>3, <1>6, <1>7

\* Whatever the core's objects are, whichever table is asked with whichever headers and
\* for whichever user, and however checks change the states while the query runs: the
\* counts of a list that a row shows fit together, and with the filters that the row
\* passed (Query::serviceAggregates() and hostAggregates(), that are computed once).
THEOREM ShownColumnsAgree == Spec => []ColumnsAgree
<1>1. Init => AgreeInv
    BY AgreeAtFirst
<1>2. AgreeInv /\ [Next]_vars => AgreeInv'
    BY AgreeKept
<1>3. AgreeInv => ColumnsAgree
    BY AgreeImplies
<1> QED BY <1>1, <1>2, <1>3, PTL DEF Spec
==============================================================================
