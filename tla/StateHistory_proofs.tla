--------------------------- MODULE StateHistory_proofs ---------------------------
(***************************************************************************)
(* What the table "statehist" says is proved for every set of hosts,       *)
(* services and timeperiods, every log and every range of the query.       *)
(*                                                                         *)
(* An entry's work on an object is seen as what it does to the object's    *)
(* fields (Updated) and as a trail of rows that say how the object came    *)
(* to be as it is (Trail).  Every turn of the loop starts from the states  *)
(* that the entry finds (Based) and reports what became of them            *)
(* (Reported), so that every step is one of five: the core's, a turn that  *)
(* leaves all objects as they were, one that switches a period, one about  *)
(* an object, and the final reports (StepsAre).  The invariants are proved *)
(* along these.                                                            *)
(***************************************************************************)
EXTENDS StateHistory, FiniteSetTheorems, NaturalsInduction, TLAPS

-----------------------------------------------------------------------------
(* Sums: what the fold over a list's durations adds up to                  *)

\* The fold that sums the values of a function.
Total(f) == FoldFunction(+, 0, f)

\* A set of numbers has a least one.
LEMMA Least ==
    ASSUME NEW T, T \subseteq Nat, T # {}
    PROVE  \E n \in T : \A m \in T : n <= m
<1>1. \E n \in T : \A m \in T : ~(<<m, n>> \in OpToRel(<, Nat))
    BY NatLessThanWellFounded, WFMin
<1>2. PICK n \in T : \A m \in T : ~(m < n)
    BY <1>1 DEF OpToRel
<1>3. \A m \in T : m \in Nat /\ n \in Nat
    OBVIOUS
<1> QED BY <1>2, <1>3

\* The element that a fold takes first.
First(s) == CHOOSE x \in s : TRUE

\* iter adds up what f has at the elements of a set.
Adds(f, S, iter) ==
    iter = [s \in SUBSET S |-> IF s = {} THEN 0 ELSE f[First(s)] + iter[s \ {First(s)}]]

\* The recursion of the fold, if there is one.
Sums(f) == CHOOSE iter : Adds(f, DOMAIN f, iter)

\* A sum is the recursion's value for the whole domain.
LEMMA TotalIs ==
    ASSUME NEW f PROVE Total(f) = Sums(f)[DOMAIN f]
BY DEF Total, FoldFunction, FoldFunctionOnSet, MapThenFoldSet, Adds, Sums, First

\* A fold takes an element of the set, and goes on with one less.
LEMMA FirstIs ==
    ASSUME NEW s, IsFiniteSet(s), s # {}
    PROVE  /\ First(s) \in s
           /\ IsFiniteSet(s \ {First(s)})
           /\ Cardinality(s) \in Nat /\ Cardinality(s \ {First(s)}) = Cardinality(s) - 1
<1>1. First(s) \in s
    BY DEF First
<1> QED BY <1>1, FS_RemoveElement, FS_CardinalityType

\* The sums of the subsets with at most k elements.
AddsTo(f, S, k, g) ==
    g = [s \in {t \in SUBSET S : Cardinality(t) <= k} |->
            IF s = {} THEN 0 ELSE f[First(s)] + g[s \ {First(s)}]]

\* A recursion on small sets can be extended to larger ones.
LEMMA AddsToMore ==
    ASSUME NEW S, IsFiniteSet(S), NEW f, NEW k \in Nat, NEW g, AddsTo(f, S, k, g)
    PROVE  \E h : AddsTo(f, S, k + 1, h)
<1>1. PICK h : h = [s \in {t \in SUBSET S : Cardinality(t) <= k + 1} |->
                        IF s = {} THEN 0 ELSE f[First(s)] + g[s \ {First(s)}]]
    OBVIOUS
<1>2. ASSUME NEW s \in SUBSET S
      PROVE  IsFiniteSet(s) /\ Cardinality(s) \in Nat
    BY FS_Subset, FS_CardinalityType
<1>3. ASSUME NEW s \in SUBSET S, Cardinality(s) <= k
      PROVE  h[s] = g[s]
    <2>1. Cardinality(s) <= k + 1
        BY <1>2, <1>3
    <2>2. g[s] = IF s = {} THEN 0 ELSE f[First(s)] + g[s \ {First(s)}]
        BY <1>3 DEF AddsTo
    <2> QED BY <1>1, <2>1, <2>2
<1>4. ASSUME NEW s \in SUBSET S, Cardinality(s) <= k + 1, s # {}
      PROVE  h[s \ {First(s)}] = g[s \ {First(s)}]
    <2>1. s \ {First(s)} \in SUBSET S /\ Cardinality(s \ {First(s)}) <= k
        BY <1>2, <1>4, FirstIs
    <2> QED BY <1>3, <2>1
<1>5. h = [s \in {t \in SUBSET S : Cardinality(t) <= k + 1} |->
                IF s = {} THEN 0 ELSE f[First(s)] + h[s \ {First(s)}]]
    BY <1>1, <1>4
<1> QED BY <1>5 DEF AddsTo

\* So that there is one for every size: no smallest size is without.
LEMMA AddsToAny ==
    ASSUME NEW S, IsFiniteSet(S), NEW f, NEW k \in Nat
    PROVE  \E g : AddsTo(f, S, k, g)
<1>1. PICK T : T = {n \in Nat : ~ \E g : AddsTo(f, S, n, g)}
    OBVIOUS
<1>2. SUFFICES ASSUME T # {} PROVE FALSE
    BY <1>1, <1>2
<1>3. PICK n \in T : \A m \in T : n <= m
    BY <1>1, <1>2, Least
<1>4. n \in Nat /\ ~ \E g : AddsTo(f, S, n, g)
    BY <1>1
<1>5. CASE n = 0
    <2>1. PICK g : g = [s \in {t \in SUBSET S : Cardinality(t) <= 0} |-> 0]
        OBVIOUS
    <2>2. ASSUME NEW s \in SUBSET S, Cardinality(s) <= 0
          PROVE  s = {}
        BY <2>2, FS_Subset, FS_CardinalityType, FS_EmptySet
    <2>3. AddsTo(f, S, 0, g)
        BY <2>1, <2>2 DEF AddsTo
    <2> QED BY <1>4, <1>5, <2>3
<1>6. CASE n # 0
    <2>1. n - 1 \in Nat /\ ~(n <= n - 1) /\ n = (n - 1) + 1
        BY <1>4, <1>6
    <2>2. PICK g : AddsTo(f, S, n - 1, g)
        BY <1>1, <1>3, <2>1
    <2>3. \E h : AddsTo(f, S, (n - 1) + 1, h)
        BY <2>1, <2>2, AddsToMore
    <2> QED BY <1>4, <2>1, <2>3
<1> QED BY <1>5, <1>6

\* The fold of a finite function is what it seems: each set's sum is that of all
\* but one, and that one.
LEMMA SumsAdd ==
    ASSUME NEW f, IsFiniteSet(DOMAIN f)
    PROVE  Adds(f, DOMAIN f, Sums(f))
<1>1. PICK S : S = DOMAIN f
    OBVIOUS
<1>2. PICK k \in Nat : k = Cardinality(S)
    BY <1>1, FS_CardinalityType
<1>3. PICK g : AddsTo(f, S, k, g)
    BY <1>1, <1>2, AddsToAny
<1>4. {t \in SUBSET S : Cardinality(t) <= k} = SUBSET S
    BY <1>1, <1>2, FS_Subset
<1>5. Adds(f, S, g)
    BY <1>3, <1>4 DEF AddsTo, Adds
<1> QED BY <1>1, <1>5 DEF Sums

\* The sum of a set, one step of the recursion at a time.
LEMMA SumOf ==
    ASSUME NEW f, IsFiniteSet(DOMAIN f), NEW s \in SUBSET DOMAIN f
    PROVE  /\ s = {} => Sums(f)[s] = 0
           /\ s # {} => Sums(f)[s] = f[First(s)] + Sums(f)[s \ {First(s)}]
<1>1. PICK iter : iter = Sums(f)
    OBVIOUS
<1>2. iter = [t \in SUBSET DOMAIN f |-> IF t = {} THEN 0 ELSE f[First(t)] + iter[t \ {First(t)}]]
    BY <1>1, SumsAdd DEF Adds
<1> QED BY <1>1, <1>2

\* Integers have an integer for their sum.
LEMMA SumType ==
    ASSUME NEW f, IsFiniteSet(DOMAIN f), NEW s \in SUBSET DOMAIN f,
           \A x \in DOMAIN f : f[x] \in Int
    PROVE  Sums(f)[s] \in Int
<1>1. PICK Q : Q = {n \in Nat : \E t \in SUBSET DOMAIN f : Cardinality(t) = n /\ Sums(f)[t] \notin Int}
    OBVIOUS
<1>2. ASSUME NEW t \in SUBSET DOMAIN f
      PROVE  IsFiniteSet(t) /\ Cardinality(t) \in Nat
    BY FS_Subset, FS_CardinalityType
<1>3. CASE Q = {}
    BY <1>1, <1>2, <1>3
<1>4. CASE Q # {}
    <2>1. PICK n \in Q : \A m \in Q : n <= m
        BY <1>1, <1>4, Least
    <2>2. PICK t \in SUBSET DOMAIN f : Cardinality(t) = n /\ Sums(f)[t] \notin Int
        BY <1>1, <2>1
    <2>3. t # {} /\ Sums(f)[t] = f[First(t)] + Sums(f)[t \ {First(t)}]
        BY <2>2, SumOf
    <2>4. First(t) \in DOMAIN f /\ t \ {First(t)} \in SUBSET DOMAIN f
          /\ n \in Nat /\ Cardinality(t \ {First(t)}) = n - 1
        BY <1>1, <1>2, <2>2, <2>3, FirstIs
    <2>5. Sums(f)[t \ {First(t)}] \in Int
        <3>1. Cardinality(t \ {First(t)}) \in Nat
            BY <1>2, <2>4
        <3>2. SUFFICES ASSUME Sums(f)[t \ {First(t)}] \notin Int PROVE FALSE
            OBVIOUS
        <3>3. Cardinality(t \ {First(t)}) \in Q
            BY <1>1, <2>4, <3>1, <3>2
        <3> QED BY <2>1, <2>4, <3>3
    <2>6. f[First(t)] \in Int
        BY <2>4
    <2> QED BY <2>2, <2>3, <2>5, <2>6
<1> QED BY <1>3, <1>4

\* Two functions that agree on a set have the same sum of it.
LEMMA SumSame ==
    ASSUME NEW f, IsFiniteSet(DOMAIN f), NEW g, IsFiniteSet(DOMAIN g),
           NEW u \in SUBSET DOMAIN f, u \in SUBSET DOMAIN g, \A x \in u : f[x] = g[x]
    PROVE  Sums(f)[u] = Sums(g)[u]
<1>1. PICK Q : Q = {n \in Nat : \E t \in SUBSET u : Cardinality(t) = n /\ Sums(f)[t] # Sums(g)[t]}
    OBVIOUS
<1>2. ASSUME NEW t \in SUBSET u
      PROVE  IsFiniteSet(t) /\ Cardinality(t) \in Nat /\ t \in SUBSET DOMAIN f /\ t \in SUBSET DOMAIN g
    BY FS_Subset, FS_CardinalityType
<1>3. CASE Q = {}
    BY <1>1, <1>2, <1>3
<1>4. CASE Q # {}
    <2>1. PICK n \in Q : \A m \in Q : n <= m
        BY <1>1, <1>4, Least
    <2>2. PICK t \in SUBSET u : Cardinality(t) = n /\ Sums(f)[t] # Sums(g)[t]
        BY <1>1, <2>1
    <2>3. t \in SUBSET DOMAIN f /\ t \in SUBSET DOMAIN g
        BY <1>2
    <2>4. t # {}
        BY <2>2, <2>3, SumOf
    <2>5. /\ Sums(f)[t] = f[First(t)] + Sums(f)[t \ {First(t)}]
          /\ Sums(g)[t] = g[First(t)] + Sums(g)[t \ {First(t)}]
        BY <2>3, <2>4, SumOf
    <2>6. First(t) \in u /\ t \ {First(t)} \in SUBSET u
          /\ n \in Nat /\ Cardinality(t \ {First(t)}) = n - 1
        BY <1>1, <1>2, <2>2, <2>4, FirstIs
    <2>7. Sums(f)[t \ {First(t)}] = Sums(g)[t \ {First(t)}]
        <3>1. Cardinality(t \ {First(t)}) \in Nat
            BY <1>2, <2>6
        <3>2. SUFFICES ASSUME Sums(f)[t \ {First(t)}] # Sums(g)[t \ {First(t)}] PROVE FALSE
            OBVIOUS
        <3>3. Cardinality(t \ {First(t)}) \in Q
            BY <1>1, <2>6, <3>1, <3>2
        <3> QED BY <2>1, <2>6, <3>3
    <2>8. f[First(t)] = g[First(t)]
        BY <2>6
    <2> QED BY <2>2, <2>5, <2>7, <2>8
<1> QED BY <1>3, <1>4
\* Any element may be taken out of a sum.
LEMMA SumWithout ==
    ASSUME NEW f, IsFiniteSet(DOMAIN f), \A x \in DOMAIN f : f[x] \in Int,
           NEW u \in SUBSET DOMAIN f, NEW e \in u
    PROVE  Sums(f)[u] = f[e] + Sums(f)[u \ {e}]
<1>1. PICK Q : Q = {n \in Nat : \E t \in SUBSET DOMAIN f : \E x \in t :
                        Cardinality(t) = n /\ Sums(f)[t] # f[x] + Sums(f)[t \ {x}]}
    OBVIOUS
<1>2. ASSUME NEW t \in SUBSET DOMAIN f
      PROVE  IsFiniteSet(t) /\ Cardinality(t) \in Nat
    BY FS_Subset, FS_CardinalityType
<1>3. CASE Q = {}
    BY <1>1, <1>2, <1>3
<1>4. CASE Q # {}
    <2>1. PICK n \in Q : \A m \in Q : n <= m
        BY <1>1, <1>4, Least
    <2>2. PICK t \in SUBSET DOMAIN f : \E x \in t : Cardinality(t) = n /\ Sums(f)[t] # f[x] + Sums(f)[t \ {x}]
        BY <1>1, <2>1
    <2>3. PICK x \in t : Cardinality(t) = n /\ Sums(f)[t] # f[x] + Sums(f)[t \ {x}]
        BY <2>2
    <2>4. PICK c : c = First(t)
        OBVIOUS
    <2>5. Sums(f)[t] = f[c] + Sums(f)[t \ {c}]
        BY <2>3, <2>4, SumOf
    <2>6. c \in t /\ n \in Nat /\ Cardinality(t \ {c}) = n - 1 /\ c # x
        BY <1>1, <1>2, <2>3, <2>4, <2>5, FirstIs
    <2>7. /\ t \ {c} \in SUBSET DOMAIN f /\ x \in t \ {c}
          /\ t \ {x} \in SUBSET DOMAIN f /\ c \in t \ {x}
          /\ (t \ {c}) \ {x} = (t \ {x}) \ {c} /\ (t \ {c}) \ {x} \in SUBSET DOMAIN f
        BY <2>6
    <2>8. Cardinality(t \ {x}) = n - 1
        BY <1>2, <2>3, FS_RemoveElement
    <2>9. n - 1 \in Nat /\ n - 1 \notin Q
        BY <1>2, <2>1, <2>6, <2>7
    <2>10. Sums(f)[t \ {c}] = f[x] + Sums(f)[(t \ {c}) \ {x}]
        BY <1>1, <2>6, <2>7, <2>9
    <2>11. Sums(f)[t \ {x}] = f[c] + Sums(f)[(t \ {x}) \ {c}]
        BY <1>1, <2>7, <2>8, <2>9
    <2>12. PICK r : r = Sums(f)[(t \ {c}) \ {x}]
        OBVIOUS
    <2>13. r \in Int /\ f[x] \in Int /\ f[c] \in Int
        BY <2>3, <2>6, <2>7, <2>12, SumType
    <2>14. Sums(f)[t] = f[c] + (f[x] + r) /\ Sums(f)[t \ {x}] = f[c] + r
        BY <2>5, <2>7, <2>10, <2>11, <2>12
    <2> QED BY <2>3, <2>13, <2>14
<1> QED BY <1>3, <1>4

\* Nothing adds up to nothing.
LEMMA TotalEmpty ==
    ASSUME NEW f, DOMAIN f = {} PROVE Total(f) = 0
BY TotalIs, SumOf, FS_EmptySet

\* The sum of integers is an integer.
LEMMA TotalType ==
    ASSUME NEW f, IsFiniteSet(DOMAIN f), \A x \in DOMAIN f : f[x] \in Int
    PROVE  Total(f) \in Int
BY TotalIs, SumType

\* The total of a function is that of its restriction and one more value.
LEMMA TotalMore ==
    ASSUME NEW f, IsFiniteSet(DOMAIN f), \A x \in DOMAIN f : f[x] \in Int, NEW e \in DOMAIN f,
           NEW g, DOMAIN g = DOMAIN f \ {e}, \A x \in DOMAIN g : g[x] = f[x]
    PROVE  Total(f) = f[e] + Total(g)
<1>1. IsFiniteSet(DOMAIN g) /\ DOMAIN g \in SUBSET DOMAIN f
    BY FS_RemoveElement
<1>2. Sums(f)[DOMAIN g] = Sums(g)[DOMAIN g]
    BY <1>1, SumSame
<1>3. Sums(f)[DOMAIN f] = f[e] + Sums(f)[DOMAIN f \ {e}]
    BY SumWithout
<1> QED BY <1>2, <1>3, TotalIs

-----------------------------------------------------------------------------
(* Entries                                                                 *)

\* A letter's code is one of the states' numbers.
LEMMA CodeIs ==
    ASSUME NEW codes, \A l \in DOMAIN codes : codes[l] \in 0 .. 4, NEW letter, NEW other \in 0 .. 4
    PROVE  Code(codes, letter, other) \in 0 .. 4
BY DEF Code

\* Whatever a field holds, its state is a number from 0 to 4.
LEMMA StatesAreNumbers ==
    ASSUME NEW field
    PROVE  ServiceStateToInt(field) \in 0 .. 4 /\ HostStateToInt(field) \in 0 .. 4
<1>1. PICK N : N = 0 .. 4
    OBVIOUS
<1>2. Code([K |-> 0, Y |-> 0, G |-> 1, L |-> 2, N |-> 3], Ending[field], 4) \in N
    BY <1>1, CodeIs
<1>3. Code([P |-> 0, Y |-> 0, N |-> 1, E |-> 2], Ending[field], 3) \in N
    BY <1>1, CodeIs
<1>4. 2 \in N /\ 3 \in N
    BY <1>1
<1>5. ServiceStateToInt(field) \in N
    BY <1>2, <1>4, Zenon DEF ServiceStateToInt
<1>6. HostStateToInt(field) \in N
    BY <1>3, <1>4, Zenon DEF HostStateToInt
<1> QED BY <1>1, <1>5, <1>6

\* The fields of a LogEntry.
EntryFields == {"class", "type", "host", "svc", "contact", "command", "stateType", "state"}

\* Every line, well formed or not, has a state between 0 and 4.
LEMMA EntryIs ==
    ASSUME NEW line
    PROVE  DOMAIN Entry(line) = EntryFields /\ Entry(line).state \in 0 .. 4
<1>1. PICK kind : kind = KindOf(line)
    OBVIOUS
<1>2. PICK svc \in BOOLEAN : svc = (\E n \in DOMAIN kind.names : kind.names[n] = "svc")
    OBVIOUS
<1>3. PICK first : first = Named(line, "stateType")
    OBVIOUS
<1>4. PICK swap \in BOOLEAN :
        swap = (kind.class = "notification" /\ Swapped(svc, IF first = Null THEN "" ELSE first))
    BY DEF Swapped
<1>5. PICK stateType : stateType = IF swap THEN Named(line, "command") ELSE first
    OBVIOUS
<1>6. PICK stated \in BOOLEAN : stated = (\E n \in DOMAIN kind.names : kind.names[n] = "state")
    OBVIOUS
<1>7. PICK state : state = Named(line, "state")
    OBVIOUS
<1>8. PICK number : number = CASE stated -> StateToInt(svc, IF state = Null THEN "" ELSE state)
                     [] ~stated /\ kind.class = "notification" -> StateToInt(svc, stateType)
                     [] ~stated /\ kind.class = "passivecheck" -> ReturnCode(Named(line, "code"))
                     [] OTHER -> 0
    OBVIOUS
<1>9. number \in 0 .. 4
    <2>1. \A field : StateToInt(svc, field) \in 0 .. 4
        BY StatesAreNumbers DEF StateToInt
    <2>2. ReturnCode(Named(line, "code")) \in 0 .. 4
        <3>1. PICK code : code = Named(line, "code")
            OBVIOUS
        <3>2. CASE code = "1"
            BY <3>1, <3>2 DEF ReturnCode
        <3>3. CASE code = "2"
            BY <3>1, <3>3 DEF ReturnCode
        <3>4. CASE code # "1" /\ code # "2"
            BY <3>1, <3>4 DEF ReturnCode
        <3> QED BY <3>2, <3>3, <3>4
    <2>3. PICK N : N = 0 .. 4
        OBVIOUS
    <2>4. 0 \in N
        BY <2>3
    <2>5. (\A field : StateToInt(svc, field) \in N) /\ ReturnCode(Named(line, "code")) \in N
        BY <2>1, <2>2, <2>3
    <2>6. number \in N
        BY <1>8, <2>4, <2>5, Zenon
    <2> QED BY <2>3, <2>6
<1>10. Entry(line) =
        [class |-> kind.class, type |-> kind.type,
         host |-> Named(line, "host"), svc |-> Named(line, "svc"),
         contact |-> Named(line, "contact"),
         command |-> IF swap THEN first ELSE Named(line, "command"),
         stateType |-> stateType, state |-> number]
    BY <1>1, <1>2, <1>3, <1>4, <1>5, <1>6, <1>7, <1>8 DEF Entry
<1> QED BY <1>9, <1>10 DEF EntryFields

\* An entry that is read now has its fields and the time.
LEMMA NowIs ==
    ASSUME NEW entry, DOMAIN entry = EntryFields
    PROVE  /\ Now(entry).time = minute /\ DOMAIN Now(entry) = EntryFields \cup {"time"}
           /\ \A f \in EntryFields : Now(entry)[f] = entry[f]
BY DEF Now, With, EntryFields

\* The fields of a transition leave the others alone.
LEMMA TransitionIs ==
    ASSUME NEW entry, DOMAIN entry = EntryFields \cup {"time"}, NEW p, NEW to
    PROVE  LET e == With(entry, [period |-> p, to |-> to]) IN
           /\ e.period = p /\ e.to = to
           /\ \A f \in EntryFields \cup {"time"} : e[f] = entry[f]
BY DEF With, EntryFields

\* The core's transitions are understood as that.
LEMMA TransitionType ==
    ASSUME NEW line, line.text = "TIMEPERIOD TRANSITION"
    PROVE  Entry(line).type = "TIMEPERIOD_TRANSITION"
<1>1. KindOf(line).type = "TIMEPERIOD_TRANSITION"
    BY DEF KindOf, Transition, Kind
<1> QED BY <1>1 DEF Entry

-----------------------------------------------------------------------------
(* Rows                                                                    *)

\* The type of a row.
RowType == [from : Nat, until : Nat, state : -1 .. 4, hostDown : BOOLEAN,
            inPeriod : [Kinds -> 0 .. 1], inDowntime : BOOLEAN, inHostDowntime : BOOLEAN,
            flapping : BOOLEAN]

\* What a list of rows covers is the sum of their durations.
LEMMA SpentIs == ASSUME NEW list PROVE Spent(list) = Total(Durations(list))
BY DEF Spent, Total

\* No rows cover nothing.
LEMMA SpentNothing == Spent(<<>>) = 0
<1>1. DOMAIN Durations(<<>>) = {}
    BY DEF Durations
<1> QED BY <1>1, SpentIs, TotalEmpty

\* What rows cover is an integer.
LEMMA SpentType ==
    ASSUME NEW list \in Seq(RowType) PROVE Spent(list) \in Int
<1>1. DOMAIN list = 1 .. Len(list) /\ Len(list) \in Nat /\ \A n \in 1 .. Len(list) : list[n] \in RowType
    OBVIOUS
<1>2. DOMAIN Durations(list) = 1 .. Len(list) /\ IsFiniteSet(1 .. Len(list))
    BY <1>1, FS_Interval DEF Durations
<1>3. \A n \in 1 .. Len(list) : list[n].until \in Int /\ list[n].from \in Int
    BY <1>1 DEF RowType
<1>4. \A n \in 1 .. Len(list) : Durations(list)[n] \in Int
    BY <1>1, <1>3 DEF Durations
<1> QED BY <1>2, <1>4, SpentIs, TotalType

\* One more row covers its duration more.
LEMMA SpentMore ==
    ASSUME NEW list \in Seq(RowType), NEW row \in RowType
    PROVE  Spent(Append(list, row)) = Spent(list) + (row.until - row.from)
<1>1. PICK more : more = Append(list, row)
    OBVIOUS
<1>2. more \in Seq(RowType) /\ Len(more) = Len(list) + 1 /\ more[Len(list) + 1] = row
      /\ \A n \in 1 .. Len(list) : more[n] = list[n]
    BY <1>1
<1>3. PICK f : f = Durations(more)
    OBVIOUS
<1>4. PICK g : g = Durations(list)
    OBVIOUS
<1>5. PICK e : e = Len(list) + 1
    OBVIOUS
<1>6. DOMAIN f = 1 .. e /\ DOMAIN g = 1 .. Len(list) /\ IsFiniteSet(1 .. e) /\ e \in Nat
    BY <1>2, <1>3, <1>4, <1>5, FS_Interval DEF Durations
<1>7. \A x \in DOMAIN f : f[x] \in Int
    <2>1. \A x \in 1 .. e : more[x] \in RowType
        BY <1>2, <1>5
    <2>2. \A x \in 1 .. e : more[x].until \in Int /\ more[x].from \in Int
        BY <2>1 DEF RowType
    <2>3. DOMAIN more = 1 .. e
        BY <1>2, <1>5
    <2> QED BY <1>3, <1>6, <2>2, <2>3 DEF Durations
<1>8. e \in DOMAIN f /\ DOMAIN g = DOMAIN f \ {e}
    BY <1>5, <1>6
<1>9. \A x \in DOMAIN g : g[x] = f[x]
    BY <1>2, <1>3, <1>4, <1>5, <1>6 DEF Durations
<1>10. Total(f) = f[e] + Total(g)
    BY <1>6, <1>7, <1>8, <1>9, TotalMore
<1>11. f[e] = row.until - row.from
    BY <1>2, <1>3, <1>5, <1>6 DEF Durations
<1>12. Total(g) \in Int
    BY <1>4, SpentIs, SpentType
<1>13. row.until - row.from \in Int
    BY DEF RowType
<1> QED BY <1>1, <1>3, <1>4, <1>10, <1>11, <1>12, <1>13, SpentIs

-----------------------------------------------------------------------------
(* Work on an object                                                       *)

\* The fields of a HostServiceState, and those that a row shows.
Fields == {"from", "until", "state", "hostDown", "inPeriod", "inDowntime", "inHostDowntime",
           "flapping", "services", "mayNoLongerExist", "hasVanished", "lastKnown"}
Shown == {"state", "hostDown", "inPeriod", "inDowntime", "inHostDowntime", "flapping"}

\* The type of work on an object.
IsWork(w) ==
    /\ DOMAIN w = {"st", "rows", "changed"}
    /\ w.st \in HostServiceState /\ w.rows \in Seq(RowType) /\ w.changed \in BOOLEAN

\* The rows of w say how a became w.st; they end at times of T.
Trail(a, w, T) ==
    /\ Spent(w.rows) = w.st.from - a.from
    /\ w.st.from \in T \cup {a.from}
    /\ \A n \in DOMAIN w.rows : w.rows[n].until \in T /\ w.rows[n].from \in T \cup {a.from}
    /\ w.rows = <<>> => w.st.from = a.from /\ \A f \in Shown : w.st[f] = a[f]
    /\ w.rows # <<>> => /\ w.st.from = w.rows[Len(w.rows)].until
                        /\ \A f \in Shown : w.rows[1][f] = a[f]

\* Before the range nothing is reported.
History(a, w, quiet, T) ==
    IF quiet THEN w.rows = <<>> /\ w.st.from = a.from ELSE Trail(a, w, T)

\* A row shows what it is made of.
LEMMA RowIs ==
    ASSUME NEW st \in HostServiceState
    PROVE  /\ Row(st) \in RowType /\ Row(st).from = st.from /\ Row(st).until = st.until
           /\ \A f \in Shown : Row(st)[f] = st[f]
BY DEF HostServiceState, RowType, Row, Shown

\* The types of an object's fields.
LEMMA FieldsAre ==
    ASSUME NEW st \in HostServiceState
    PROVE  /\ DOMAIN st = Fields
           /\ st.from \in Nat /\ st.until \in Nat /\ st.state \in -1 .. 4 /\ st.hostDown \in BOOLEAN
           /\ st.inPeriod \in [Kinds -> 0 .. 1] /\ st.inDowntime \in BOOLEAN
           /\ st.inHostDowntime \in BOOLEAN /\ st.flapping \in BOOLEAN
           /\ st.services \in SUBSET Services /\ st.mayNoLongerExist \in BOOLEAN
           /\ st.hasVanished \in BOOLEAN /\ st.lastKnown \in Nat
BY DEF HostServiceState, Fields

\* Work begins with nothing reported.
LEMMA WorkIs ==
    ASSUME NEW st \in HostServiceState
    PROVE  IsWork(Work(st)) /\ Work(st).st = st /\ Work(st).rows = <<>> /\ Work(st).changed = TRUE
BY DEF IsWork, Work

\* And with nothing to report.
LEMMA TrailStarts ==
    ASSUME NEW a \in HostServiceState, NEW w, w.rows = <<>>, w.st.from = a.from,
           \A f \in Shown : w.st[f] = a[f], NEW T, NEW quiet \in BOOLEAN
    PROVE  History(a, w, quiet, T)
<1>1. a.from \in Nat
    BY FieldsAre
<1> QED BY <1>1, SpentNothing DEF History, Trail

\* process() appends a row and moves _from to its end.
LEMMA ProcessIs ==
    ASSUME NEW w, IsWork(w)
    PROVE  /\ IsWork(Process(w)) /\ Process(w).changed = w.changed
           /\ Process(w).rows = Append(w.rows, Row(w.st)) /\ Process(w).st.from = w.st.until
           /\ \A f \in Fields \ {"from"} : Process(w).st[f] = w.st[f]
<1>1. PICK st \in HostServiceState : st = w.st
    BY DEF IsWork
<1>2. PICK rs \in Seq(RowType) : rs = w.rows
    BY DEF IsWork
<1>3. PICK more : more = Append(rs, Row(st))
    OBVIOUS
<1>4. PICK new : new = [st EXCEPT !.from = st.until]
    OBVIOUS
<1>5. Process(w) = [w EXCEPT !.rows = more, !.st.from = st.until]
    BY <1>1, <1>2, <1>3 DEF Process
<1>6. /\ DOMAIN Process(w) = {"st", "rows", "changed"} /\ Process(w).changed = w.changed
      /\ Process(w).rows = more /\ Process(w).st = new
    BY <1>1, <1>4, <1>5 DEF IsWork
<1>7. new \in HostServiceState /\ new.from = st.until /\ \A f \in Fields \ {"from"} : new[f] = st[f]
    BY <1>4 DEF HostServiceState, Fields
<1>8. more \in Seq(RowType)
    BY <1>3, RowIs
<1>9. w.changed \in BOOLEAN
    BY DEF IsWork
<1> QED BY <1>1, <1>2, <1>3, <1>6, <1>7, <1>8, <1>9 DEF IsWork

\* A row that is reported continues the trail.
LEMMA TrailProcess ==
    ASSUME NEW a \in HostServiceState, NEW T, NEW w, IsWork(w), Trail(a, w, T), w.st.until \in T
    PROVE  Trail(a, Process(w), T) /\ Process(w).rows # <<>>
<1>1. PICK st \in HostServiceState : st = w.st
    BY DEF IsWork
<1>2. PICK rs \in Seq(RowType) : rs = w.rows
    BY DEF IsWork
<1>3. PICK v : v = Process(w)
    OBVIOUS
<1>4. PICK row \in RowType : row = Row(st)
    BY RowIs
<1>5. v.rows = Append(rs, row) /\ v.st.from = st.until
    BY <1>1, <1>2, <1>3, <1>4, ProcessIs
<1>6. row.from = st.from /\ row.until = st.until /\ \A f \in Shown : row[f] = st[f]
    BY <1>4, RowIs
<1>7. st.from \in Nat /\ st.until \in Nat /\ a.from \in Nat
    BY FieldsAre
<1>8. /\ Spent(rs) = st.from - a.from
      /\ st.from \in T \cup {a.from}
      /\ \A n \in DOMAIN rs : rs[n].until \in T /\ rs[n].from \in T \cup {a.from}
      /\ rs = <<>> => \A f \in Shown : st[f] = a[f]
      /\ rs # <<>> => \A f \in Shown : rs[1][f] = a[f]
    BY <1>1, <1>2 DEF Trail
<1>9. Spent(v.rows) = Spent(rs) + (st.until - st.from)
    BY <1>5, <1>6, SpentMore
<1>10. Spent(v.rows) = v.st.from - a.from
    BY <1>5, <1>7, <1>8, <1>9
<1>11. /\ Len(v.rows) = Len(rs) + 1 /\ DOMAIN v.rows = 1 .. Len(rs) + 1 /\ DOMAIN rs = 1 .. Len(rs)
       /\ v.rows[Len(rs) + 1] = row /\ \A n \in 1 .. Len(rs) : v.rows[n] = rs[n]
    BY <1>5
<1>12. \A n \in DOMAIN v.rows : v.rows[n].until \in T /\ v.rows[n].from \in T \cup {a.from}
    BY <1>1, <1>6, <1>8, <1>11
<1>13. v.rows # <<>> /\ v.st.from = v.rows[Len(v.rows)].until
    BY <1>5, <1>6, <1>11
<1>14. \A f \in Shown : v.rows[1][f] = a[f]
    <2>1. CASE rs = <<>>
        BY <2>1, <1>6, <1>8, <1>11
    <2>2. CASE rs # <<>>
        BY <2>2, <1>8, <1>11
    <2> QED BY <2>1, <2>2
<1>15. v.st.from \in T \cup {a.from}
    BY <1>1, <1>5
<1> QED BY <1>3, <1>10, <1>12, <1>13, <1>14, <1>15 DEF Trail

\* Reporting a row changes nothing but _from.
LEMMA ReportIs ==
    ASSUME NEW quiet \in BOOLEAN, NEW w, IsWork(w)
    PROVE  /\ IsWork(Report(w, quiet)) /\ Report(w, quiet).changed = w.changed
           /\ \A f \in Fields \ {"from"} : Report(w, quiet).st[f] = w.st[f]
BY ProcessIs DEF Report

\* What is reported before a change is the history of the change.
LEMMA ReportedChange ==
    ASSUME NEW a \in HostServiceState, NEW T, NEW quiet \in BOOLEAN, NEW w, IsWork(w),
           History(a, w, quiet, T), w.st.until \in T,
           NEW v, v.rows = Report(w, quiet).rows, v.st.from = Report(w, quiet).st.from
    PROVE  History(a, v, quiet, T)
<1>1. CASE quiet
    BY <1>1 DEF History, Report
<1>2. CASE ~quiet
    <2>1. Trail(a, Process(w), T) /\ Process(w).rows # <<>>
        BY <1>2, TrailProcess DEF History
    <2>2. v.rows = Process(w).rows /\ v.st.from = Process(w).st.from
        BY <1>2 DEF Report
    <2> QED BY <1>2, <2>1, <2>2 DEF History, Trail
<1> QED BY <1>1, <1>2

\* What is not shown changes without a row.
LEMMA QuietChange ==
    ASSUME NEW a, NEW T, NEW quiet \in BOOLEAN, NEW w, History(a, w, quiet, T),
           NEW v, v.rows = w.rows, v.st.from = w.st.from, \A f \in Shown : v.st[f] = w.st[f]
    PROVE  History(a, v, quiet, T)
BY DEF History, Trail

-----------------------------------------------------------------------------
(* What an entry does to an object                                         *)

\* A field may have a value.
Fits(field, value) ==
    \A st \in HostServiceState : [st EXCEPT ![field] = value] \in HostServiceState

\* Which values the fields take.
LEMMA FitsType ==
    /\ \A f \in {"hostDown", "inDowntime", "inHostDowntime", "flapping"}, x \in BOOLEAN : Fits(f, x)
    /\ \A x \in -1 .. 4 : Fits("state", x)
BY DEF Fits, HostServiceState

\* A field that becomes a value has it, and the row before it is reported.
LEMMA BecomeIs ==
    ASSUME NEW quiet \in BOOLEAN, NEW w, IsWork(w), NEW a \in HostServiceState, NEW T,
           History(a, w, quiet, T), w.st.until \in T, NEW field \in Shown, NEW value,
           Fits(field, value),
           NEW v, v = Become(w, quiet, field, value)
    PROVE  /\ IsWork(v) /\ v.changed = w.changed /\ History(a, v, quiet, T)
           /\ v.st[field] = value
           /\ \A f \in Fields \ {"from", field} : v.st[f] = w.st[f]
<1>1. CASE w.st[field] = value
    BY <1>1 DEF Become
<1>2. CASE w.st[field] # value
    <2>1. PICK r : r = Report(w, quiet)
        OBVIOUS
    <2>2. v = [r EXCEPT !.st[field] = value]
        BY <1>2, <2>1 DEF Become
    <2>3. IsWork(r) /\ r.changed = w.changed /\ \A f \in Fields \ {"from"} : r.st[f] = w.st[f]
        BY <2>1, ReportIs
    <2>4. PICK new : new = [r.st EXCEPT ![field] = value]
        OBVIOUS
    <2>5. /\ new \in HostServiceState /\ field \in Fields /\ field # "from" /\ new[field] = value
          /\ \A f \in Fields \ {field} : new[f] = r.st[f]
        BY <2>3, <2>4, FieldsAre DEF IsWork, Fields, Shown, Fits
    <2>6. /\ DOMAIN v = {"st", "rows", "changed"} /\ v.st = new
          /\ v.rows = r.rows /\ v.changed = r.changed
        BY <2>2, <2>3, <2>4 DEF IsWork
    <2>7. IsWork(v) /\ v.st.from = r.st.from
        BY <2>3, <2>5, <2>6 DEF Fields, IsWork
    <2>8. History(a, v, quiet, T)
        BY <2>1, <2>6, <2>7, ReportedChange
    <2> QED BY <2>3, <2>5, <2>6, <2>7, <2>8
<1> QED BY <1>1, <1>2

\* changed tells whether the services are concerned.
Same(v, w, touched) == \A f \in Fields \ ({"from"} \cup touched) : v.st[f] = w.st[f]

\* That the services are not concerned is no history.
LEMMA UnchangedIs ==
    ASSUME NEW quiet \in BOOLEAN, NEW w, IsWork(w), NEW a, NEW T, History(a, w, quiet, T),
           NEW v, v = [w EXCEPT !.changed = FALSE]
    PROVE  IsWork(v) /\ v.changed = FALSE /\ History(a, v, quiet, T) /\ Same(v, w, {})
<1>1. IsWork(v) /\ v.changed = FALSE /\ v.st = w.st /\ v.rows = w.rows
    BY DEF IsWork
<1> QED BY <1>1, QuietChange DEF Same

\* What a host's state does to the host, or to one of its services.
LEMMA HostEntryIs ==
    ASSUME NEW quiet \in BOOLEAN, NEW w, IsWork(w), NEW a \in HostServiceState, NEW T,
           History(a, w, quiet, T), w.st.until \in T, NEW o, NEW e, e.state \in 0 .. 4,
           NEW v, v = HostEntry(w, quiet, o, e)
    PROVE  /\ IsWork(v) /\ History(a, v, quiet, T) /\ Same(v, w, {"state", "hostDown"})
           /\ o \in Services => v.st.hostDown = (e.state > 0) /\ v.st.state = w.st.state
           /\ o \notin Services =>
                /\ v.st.state = e.state
                /\ v.st.hostDown = (IF w.st.state = e.state THEN w.st.hostDown ELSE e.state > 0)
                /\ v.changed = (w.changed /\ w.st.state # e.state)
<1>1. PICK down \in BOOLEAN : down = (e.state > 0)
    <2>1. CASE e.state > 0
        BY <2>1
    <2>2. CASE ~(e.state > 0)
        <3>1. FALSE = (e.state > 0)
            BY <2>2
        <3>2. FALSE \in BOOLEAN
            OBVIOUS
        <3> QED BY <3>1, <3>2, Zenon
    <2> QED BY <2>1, <2>2
<1>2. CASE o \in Services
    <2>1. v = Become(w, quiet, "hostDown", down)
        BY <1>1, <1>2 DEF HostEntry
    <2>2. "hostDown" \in Shown
        BY DEF Shown
    <2>3. Fits("hostDown", down)
        BY FitsType
    <2>4. /\ IsWork(v) /\ v.changed = w.changed /\ History(a, v, quiet, T)
          /\ v.st["hostDown"] = down
          /\ \A f \in Fields \ {"from", "hostDown"} : v.st[f] = w.st[f]
        BY <2>1, <2>2, <2>3, BecomeIs
    <2> QED BY <1>1, <1>2, <2>4 DEF Same, Fields
<1>3. CASE o \notin Services /\ w.st.state = e.state
    <2>1. v = [w EXCEPT !.changed = FALSE]
        BY <1>3 DEF HostEntry
    <2>2. IsWork(v) /\ v.changed = FALSE /\ History(a, v, quiet, T) /\ Same(v, w, {})
        BY <2>1, UnchangedIs
    <2> QED BY <1>3, <2>2 DEF Same, Fields
<1>4. CASE o \notin Services /\ w.st.state # e.state
    <2>1. PICK r : r = Report(w, quiet)
        OBVIOUS
    <2>2. IsWork(r) /\ r.changed = w.changed /\ \A f \in Fields \ {"from"} : r.st[f] = w.st[f]
        BY <2>1, ReportIs
    <2>3. v = [r EXCEPT !.st.state = e.state, !.st.hostDown = down]
        BY <1>1, <1>4, <2>1 DEF HostEntry
    <2>4. PICK new : new = [r.st EXCEPT !.state = e.state, !.hostDown = down]
        OBVIOUS
    <2>5. r.st \in HostServiceState /\ DOMAIN r.st = Fields
        BY <2>2, FieldsAre DEF IsWork
    <2>6. new \in HostServiceState
        <3>1. e.state \in -1 .. 4
            OBVIOUS
        <3> QED BY <2>4, <2>5, <3>1 DEF HostServiceState
    <2>7. /\ new.state = e.state /\ new.hostDown = down
          /\ \A f \in Fields \ {"state", "hostDown"} : new[f] = r.st[f]
        BY <2>4, <2>5 DEF Fields
    <2>8. /\ DOMAIN v = {"st", "rows", "changed"} /\ v.st = new
          /\ v.rows = r.rows /\ v.changed = r.changed
        BY <2>2, <2>3, <2>4 DEF IsWork
    <2>9. IsWork(v) /\ v.st.from = r.st.from
        BY <2>2, <2>6, <2>7, <2>8 DEF Fields, IsWork
    <2>10. History(a, v, quiet, T)
        BY <2>1, <2>8, <2>9, ReportedChange
    <2>11. Same(v, w, {"state", "hostDown"})
        BY <2>2, <2>7, <2>8 DEF Same
    <2>12. v.changed \in BOOLEAN /\ w.changed \in BOOLEAN
        BY <2>9 DEF IsWork
    <2> QED BY <1>1, <1>4, <2>2, <2>7, <2>8, <2>9, <2>10, <2>11, <2>12
<1> QED BY <1>2, <1>3, <1>4

\* A downtime or flapping starts or stops.
LEMMA StartedType == ASSUME NEW e PROVE Started(e) \in BOOLEAN
BY DEF Started

\* What a host's downtime does to the host, or to one of its services.
LEMMA HostDowntimeIs ==
    ASSUME NEW quiet \in BOOLEAN, NEW w, IsWork(w), NEW a \in HostServiceState, NEW T,
           History(a, w, quiet, T), w.st.until \in T, NEW o, NEW e,
           NEW v, v = HostDowntime(w, quiet, o, e)
    PROVE  /\ IsWork(v) /\ History(a, v, quiet, T) /\ Same(v, w, {"inHostDowntime", "inDowntime"})
           /\ v.st.inHostDowntime = Started(e)
           /\ v.st.inDowntime = IF o \in Hosts /\ w.st.inHostDowntime # Started(e) THEN Started(e)
                                ELSE w.st.inDowntime
           /\ v.changed = (w.changed /\ w.st.inHostDowntime # Started(e))
<1>1. PICK x \in BOOLEAN : x = Started(e)
    BY StartedType
<1>2. CASE w.st.inHostDowntime = x
    <2>1. v = [w EXCEPT !.changed = FALSE]
        BY <1>1, <1>2 DEF HostDowntime
    <2>2. IsWork(v) /\ v.changed = FALSE /\ History(a, v, quiet, T) /\ Same(v, w, {})
        BY <2>1, UnchangedIs
    <2> QED BY <1>1, <1>2, <2>2 DEF Same, Fields
<1>3. CASE w.st.inHostDowntime # x
    <2>1. PICK r : r = Report(w, quiet)
        OBVIOUS
    <2>2. IsWork(r) /\ r.changed = w.changed /\ \A f \in Fields \ {"from"} : r.st[f] = w.st[f]
        BY <2>1, ReportIs
    <2>3. v = [r EXCEPT !.st.inHostDowntime = x, !.st.inDowntime = IF o \in Hosts THEN x ELSE @]
        BY <1>1, <1>3, <2>1 DEF HostDowntime
    <2>4. r.st \in HostServiceState /\ DOMAIN r.st = Fields /\ r.st.inDowntime \in BOOLEAN
        BY <2>2, FieldsAre DEF IsWork
    <2>5. PICK y \in BOOLEAN : y = IF o \in Hosts THEN x ELSE r.st.inDowntime
        BY <2>4
    <2>6. PICK new : new = [r.st EXCEPT !.inHostDowntime = x, !.inDowntime = y]
        OBVIOUS
    <2>7. new \in HostServiceState
        BY <2>4, <2>6 DEF HostServiceState
    <2>8. /\ new.inHostDowntime = x /\ new.inDowntime = y
          /\ \A f \in Fields \ {"inHostDowntime", "inDowntime"} : new[f] = r.st[f]
        BY <2>4, <2>6 DEF Fields
    <2>9. /\ DOMAIN v = {"st", "rows", "changed"} /\ v.st = new
          /\ v.rows = r.rows /\ v.changed = r.changed
        BY <2>2, <2>3, <2>5, <2>6 DEF IsWork
    <2>10. IsWork(v) /\ v.st.from = r.st.from
        BY <2>2, <2>7, <2>8, <2>9 DEF Fields, IsWork
    <2>11. History(a, v, quiet, T)
        BY <2>1, <2>9, <2>10, ReportedChange
    <2>12. Same(v, w, {"inHostDowntime", "inDowntime"})
        BY <2>2, <2>8, <2>9 DEF Same
    <2>13. v.changed \in BOOLEAN /\ w.changed \in BOOLEAN
        BY <2>10 DEF IsWork
    <2>14. r.st.inDowntime = w.st.inDowntime
        BY <2>2 DEF Fields
    <2> QED BY <1>1, <1>3, <2>2, <2>5, <2>8, <2>9, <2>10, <2>11, <2>12, <2>13, <2>14
<1> QED BY <1>2, <1>3

\* What flapping does to its object.
LEMMA FlappingIs ==
    ASSUME NEW quiet \in BOOLEAN, NEW w, IsWork(w), NEW a \in HostServiceState, NEW T,
           History(a, w, quiet, T), w.st.until \in T, NEW e, NEW v, v = Flapping(w, quiet, e)
    PROVE  /\ IsWork(v) /\ History(a, v, quiet, T) /\ Same(v, w, {"flapping"})
           /\ v.st.flapping = Started(e)
<1>1. CASE w.st.flapping = Started(e)
    <2>1. v = [w EXCEPT !.changed = FALSE]
        BY <1>1 DEF Flapping
    <2>2. IsWork(v) /\ v.changed = FALSE /\ History(a, v, quiet, T) /\ Same(v, w, {})
        BY <2>1, UnchangedIs
    <2> QED BY <1>1, <2>2 DEF Same, Fields
<1>2. CASE w.st.flapping # Started(e)
    <2>1. v = Become(w, quiet, "flapping", Started(e))
        BY <1>2 DEF Flapping
    <2>2. "flapping" \in Shown /\ Fits("flapping", Started(e))
        BY StartedType, FitsType DEF Shown
    <2>3. /\ IsWork(v) /\ History(a, v, quiet, T) /\ v.st["flapping"] = Started(e)
          /\ \A f \in Fields \ {"from", "flapping"} : v.st[f] = w.st[f]
        BY <2>1, <2>2, BecomeIs
    <2> QED BY <2>3 DEF Same
<1> QED BY <1>1, <1>2

\* The period of one kind is switched.
Switched(w, quiet, o, e, kind) ==
    IF PeriodOf[kind][o] # e.period \/ w.st.inPeriod[kind] = e.to THEN w
    ELSE [Report(w, quiet) EXCEPT !.st.inPeriod[kind] = e.to]

\* A transition switches the period of one kind, if it is the object's.
LEMMA SwitchedIs ==
    ASSUME NEW quiet \in BOOLEAN, NEW w, IsWork(w), NEW a \in HostServiceState, NEW T,
           History(a, w, quiet, T), w.st.until \in T, NEW o, NEW e, e.to \in 0 .. 1,
           NEW kind \in Kinds, NEW v, v = Switched(w, quiet, o, e, kind)
    PROVE  /\ IsWork(v) /\ History(a, v, quiet, T) /\ Same(v, w, {"inPeriod"})
           /\ v.st.inPeriod[kind] = IF PeriodOf[kind][o] = e.period THEN e.to ELSE w.st.inPeriod[kind]
           /\ \A k \in Kinds \ {kind} : v.st.inPeriod[k] = w.st.inPeriod[k]
<1>1. CASE PeriodOf[kind][o] # e.period \/ w.st.inPeriod[kind] = e.to
    <2>1. v = w
        BY <1>1 DEF Switched
    <2> QED BY <1>1, <2>1 DEF Same
<1>2. CASE ~(PeriodOf[kind][o] # e.period \/ w.st.inPeriod[kind] = e.to)
    <2>1. PICK r : r = Report(w, quiet)
        OBVIOUS
    <2>2. IsWork(r) /\ r.changed = w.changed /\ \A f \in Fields \ {"from"} : r.st[f] = w.st[f]
        BY <2>1, ReportIs
    <2>3. v = [r EXCEPT !.st.inPeriod[kind] = e.to]
        BY <1>2, <2>1 DEF Switched
    <2>4. r.st \in HostServiceState /\ DOMAIN r.st = Fields /\ r.st.inPeriod \in [Kinds -> 0 .. 1]
        BY <2>2, FieldsAre DEF IsWork
    <2>5. PICK p : p = [r.st.inPeriod EXCEPT ![kind] = e.to]
        OBVIOUS
    <2>6. PICK new : new = [r.st EXCEPT !.inPeriod = p]
        OBVIOUS
    <2>7. p \in [Kinds -> 0 .. 1] /\ p[kind] = e.to /\ \A k \in Kinds \ {kind} : p[k] = r.st.inPeriod[k]
        BY <2>4, <2>5
    <2>8. new \in HostServiceState
        BY <2>4, <2>6, <2>7 DEF HostServiceState
    <2>9. new.inPeriod = p /\ \A f \in Fields \ {"inPeriod"} : new[f] = r.st[f]
        BY <2>4, <2>6 DEF Fields
    <2>10. /\ DOMAIN v = {"st", "rows", "changed"} /\ v.st = new
           /\ v.rows = r.rows /\ v.changed = r.changed
        BY <2>2, <2>3, <2>5, <2>6 DEF IsWork
    <2>11. IsWork(v) /\ v.st.from = r.st.from
        BY <2>2, <2>8, <2>9, <2>10 DEF Fields, IsWork
    <2>12. History(a, v, quiet, T)
        BY <2>1, <2>10, <2>11, ReportedChange
    <2>13. Same(v, w, {"inPeriod"})
        BY <2>2, <2>9, <2>10 DEF Same
    <2>14. r.st.inPeriod = w.st.inPeriod
        BY <2>2 DEF Fields
    <2> QED BY <1>2, <2>7, <2>9, <2>10, <2>11, <2>12, <2>13, <2>14
<1> QED BY <1>1, <1>2

\* A transition switches both of an object's periods, one after the other.
LEMMA PeriodEntryIs ==
    ASSUME NEW quiet \in BOOLEAN, NEW w, IsWork(w), NEW a \in HostServiceState, NEW T,
           History(a, w, quiet, T), w.st.until \in T, NEW o, NEW e, e.to \in 0 .. 1,
           NEW v, v = PeriodEntry(w, quiet, o, e)
    PROVE  /\ IsWork(v) /\ History(a, v, quiet, T) /\ Same(v, w, {"inPeriod"})
           /\ \A kind \in Kinds : v.st.inPeriod[kind] =
                IF PeriodOf[kind][o] = e.period THEN e.to ELSE w.st.inPeriod[kind]
<1>1. PICK u : u = Switched(w, quiet, o, e, "notification")
    OBVIOUS
<1>2. v = Switched(u, quiet, o, e, "service")
    BY <1>1 DEF PeriodEntry, Switched
<1>3. "notification" \in Kinds /\ "service" \in Kinds
    BY DEF Kinds
<1>4. /\ IsWork(u) /\ History(a, u, quiet, T) /\ Same(u, w, {"inPeriod"})
      /\ u.st.inPeriod["notification"] =
            IF PeriodOf["notification"][o] = e.period THEN e.to ELSE w.st.inPeriod["notification"]
      /\ \A k \in Kinds \ {"notification"} : u.st.inPeriod[k] = w.st.inPeriod[k]
    BY <1>1, <1>3, SwitchedIs
<1>5. u.st.until \in T
    BY <1>4 DEF Same, Fields
<1>6. /\ IsWork(v) /\ History(a, v, quiet, T) /\ Same(v, u, {"inPeriod"})
      /\ v.st.inPeriod["service"] =
            IF PeriodOf["service"][o] = e.period THEN e.to ELSE u.st.inPeriod["service"]
      /\ \A k \in Kinds \ {"service"} : v.st.inPeriod[k] = u.st.inPeriod[k]
    BY <1>2, <1>3, <1>4, <1>5, SwitchedIs
<1>7. Same(v, w, {"inPeriod"})
    BY <1>4, <1>6 DEF Same
<1> QED BY <1>4, <1>6, <1>7 DEF Kinds

\* A history with more times is one.
LEMMA HistoryMore ==
    ASSUME NEW a, NEW w, NEW quiet \in BOOLEAN, NEW T, NEW U, T \subseteq U, History(a, w, quiet, T)
    PROVE  History(a, w, quiet, U)
BY DEF History, Trail

\* The object had vanished, and is back.
Back(st, e) == e.type # "TIMEPERIOD_TRANSITION" /\ st.hasVanished

\* The periods of an object as they are known.
PeriodsNow(o) == [kind \in Kinds |-> PeriodNow(o, kind)]

\* What is forgotten of an object that was gone.
Reset(st, o) ==
    /\ st.mayNoLongerExist = FALSE /\ st.hasVanished = FALSE /\ st.state = -1
    /\ st.inDowntime = FALSE /\ st.flapping = FALSE /\ st.inPeriod = PeriodsNow(o)

\* An object that had not vanished is left alone.
LEMMA NotRevived ==
    ASSUME NEW quiet \in BOOLEAN, NEW a \in HostServiceState, NEW o, NEW e, ~Back(a, e)
    PROVE  Revived(Work(a), quiet, o, e) = Work(a)
BY WorkIs DEF Revived, Back

\* An object that is back is reset, after a row up to its last trace.
LEMMA RevivedIs ==
    ASSUME NEW quiet \in BOOLEAN, NEW a \in HostServiceState, NEW o, NEW e, Back(a, e),
           PeriodsNow(o) \in [Kinds -> 0 .. 1],
           NEW v, v = Revived(Work(a), quiet, o, e)
    PROVE  /\ IsWork(v) /\ v.changed = TRUE /\ History(a, v, quiet, {a.lastKnown})
           /\ Same(v, Work(a), {"until", "mayNoLongerExist", "hasVanished", "state", "inDowntime",
                                "flapping", "inPeriod"})
           /\ Reset(v.st, o)
<1>1. IsWork(Work(a)) /\ Work(a).st = a /\ Work(a).rows = <<>> /\ Work(a).changed = TRUE
    BY WorkIs
<1>2. DOMAIN a = Fields /\ a.hasVanished \in BOOLEAN /\ a.lastKnown \in Nat
    BY FieldsAre
<1>3. PICK w : w = [Work(a) EXCEPT !.st.until = a.lastKnown]
    OBVIOUS
<1>4. PICK st : st = [a EXCEPT !.until = a.lastKnown]
    OBVIOUS
<1>5. /\ st \in HostServiceState /\ st.until = a.lastKnown
      /\ \A f \in Fields \ {"until"} : st[f] = a[f]
    BY <1>2, <1>4 DEF HostServiceState, Fields
<1>6. /\ DOMAIN w = {"st", "rows", "changed"} /\ w.st = st
      /\ w.rows = <<>> /\ w.changed = TRUE
    BY <1>1, <1>3, <1>4 DEF IsWork
<1>7. IsWork(w)
    BY <1>1, <1>5, <1>6 DEF IsWork
<1>8. w.st.from = a.from /\ \A f \in Shown : w.st[f] = a[f]
    BY <1>5, <1>6 DEF Fields, Shown
<1>9. History(a, w, quiet, {a.lastKnown})
    BY <1>6, <1>8, TrailStarts
<1>10. PICK r : r = Report(w, quiet)
    OBVIOUS
<1>11. IsWork(r) /\ r.changed = TRUE /\ \A f \in Fields \ {"from"} : r.st[f] = w.st[f]
    BY <1>6, <1>7, <1>10, ReportIs
<1>12. PICK p : p = PeriodsNow(o)
    OBVIOUS
<1>13. p \in [Kinds -> 0 .. 1]
    BY <1>12
<1>14. v = [r EXCEPT !.st.mayNoLongerExist = FALSE, !.st.hasVanished = FALSE,
                     !.st.state = -1, !.st.inDowntime = FALSE, !.st.flapping = FALSE,
                     !.st.inPeriod = p]
    BY <1>1, <1>3, <1>10, <1>12 DEF Revived, Back, PeriodsNow
<1>15. PICK new : new = [r.st EXCEPT !.mayNoLongerExist = FALSE, !.hasVanished = FALSE,
                     !.state = -1, !.inDowntime = FALSE, !.flapping = FALSE, !.inPeriod = p]
    OBVIOUS
<1>16. r.st \in HostServiceState /\ DOMAIN r.st = Fields
    BY <1>11, FieldsAre DEF IsWork
<1>17. new \in HostServiceState
    <2>1. -1 \in -1 .. 4
        OBVIOUS
    <2>2. PICK minus \in -1 .. 4 : minus = -1
        BY <2>1
    <2> QED BY <1>13, <1>15, <1>16, <2>2 DEF HostServiceState
<1>18. /\ new.mayNoLongerExist = FALSE /\ new.hasVanished = FALSE /\ new.state = -1
       /\ new.inDowntime = FALSE /\ new.flapping = FALSE /\ new.inPeriod = p
       /\ \A f \in Fields \ {"mayNoLongerExist", "hasVanished", "state", "inDowntime",
                             "flapping", "inPeriod"} : new[f] = r.st[f]
    BY <1>15, <1>16 DEF Fields
<1>19. /\ DOMAIN v = {"st", "rows", "changed"} /\ v.st = new
       /\ v.rows = r.rows /\ v.changed = r.changed
    BY <1>11, <1>14, <1>15 DEF IsWork
<1>20. IsWork(v) /\ v.st.from = r.st.from
    BY <1>11, <1>17, <1>18, <1>19 DEF Fields, IsWork
<1>21. History(a, v, quiet, {a.lastKnown})
    BY <1>5, <1>6, <1>7, <1>9, <1>10, <1>19, <1>20, ReportedChange
<1>22. Same(v, Work(a), {"until", "mayNoLongerExist", "hasVanished", "state", "inDowntime",
                                 "flapping", "inPeriod"})
    BY <1>1, <1>5, <1>6, <1>11, <1>18, <1>19 DEF Same
<1>23. Reset(v.st, o)
    BY <1>12, <1>18, <1>19 DEF Reset
<1> QED BY <1>11, <1>19, <1>20, <1>21, <1>22, <1>23

\* What every kind of entry begins with.
Begin(st, quiet, o, e) ==
    [Revived(Work(st), quiet, o, e) EXCEPT
        !.st.until = e.time, !.st.mayNoLongerExist = @ /\ e.type = "TIMEPERIOD_TRANSITION"]

\* The fields of an object that has vanished are reset when it is back.
Was(a, b, o, e) ==
    /\ \A f \in {"hostDown", "inHostDowntime", "services", "lastKnown"} : b[f] = a[f]
    /\ b.until = e.time
    /\ b.mayNoLongerExist = (a.mayNoLongerExist /\ ~Back(a, e) /\ e.type = "TIMEPERIOD_TRANSITION")
    /\ IF Back(a, e)
       THEN /\ b.hasVanished = FALSE /\ b.state = -1 /\ b.inDowntime = FALSE /\ b.flapping = FALSE
            /\ b.inPeriod = PeriodsNow(o)
       ELSE \A f \in {"hasVanished", "state", "inDowntime", "flapping", "inPeriod"} : b[f] = a[f]

\* When rows may end that an entry reports of an object.
TimesOf(a, e) == {e.time} \cup IF Back(a, e) THEN {a.lastKnown} ELSE {}

\* What every kind of entry begins with resets the object, and no more.
LEMMA BeginIs ==
    ASSUME NEW quiet \in BOOLEAN, NEW a \in HostServiceState, NEW o, NEW e, e.time \in Nat,
           PeriodsNow(o) \in [Kinds -> 0 .. 1],
           NEW v, v = Begin(a, quiet, o, e)
    PROVE  /\ IsWork(v) /\ v.changed = TRUE /\ History(a, v, quiet, TimesOf(a, e))
           /\ Was(a, v.st, o, e)
<1>1. PICK r : r = Revived(Work(a), quiet, o, e)
    OBVIOUS
<1>16. ASSUME ~Back(a, e)
       PROVE  r = Work(a) /\ r.st = a /\ IsWork(r) /\ r.changed = TRUE /\ History(a, r, quiet, {})
    <2>1. r = Work(a)
        BY <1>1, <1>16, NotRevived
    <2>2. IsWork(Work(a)) /\ Work(a).st = a /\ Work(a).rows = <<>> /\ Work(a).changed = TRUE
        BY WorkIs
    <2>3. History(a, Work(a), quiet, {})
        BY <2>2, TrailStarts
    <2> QED BY <2>1, <2>2, <2>3
<1>15. ASSUME Back(a, e)
       PROVE  /\ IsWork(r) /\ r.changed = TRUE /\ History(a, r, quiet, {a.lastKnown})
              /\ Same(r, Work(a), {"until", "mayNoLongerExist", "hasVanished", "state", "inDowntime",
                                   "flapping", "inPeriod"})
              /\ Reset(r.st, o)
    BY <1>1, <1>15, RevivedIs
<1>2. IsWork(r) /\ r.changed = TRUE
    BY <1>15, <1>16
<1>3. History(a, r, quiet, TimesOf(a, e))
    <2>1. CASE Back(a, e)
        BY <1>15, <2>1, HistoryMore DEF TimesOf
    <2>2. CASE ~Back(a, e)
        BY <1>16, <2>2, HistoryMore DEF TimesOf
    <2> QED BY <2>1, <2>2
<1>4. PICK may \in BOOLEAN : may = (r.st.mayNoLongerExist /\ e.type = "TIMEPERIOD_TRANSITION")
    BY <1>2, FieldsAre DEF IsWork
<1>5. v = [r EXCEPT !.st.until = e.time, !.st.mayNoLongerExist = may]
    BY <1>1, <1>4 DEF Begin
<1>6. PICK new : new = [r.st EXCEPT !.until = e.time, !.mayNoLongerExist = may]
    OBVIOUS
<1>7. r.st \in HostServiceState /\ DOMAIN r.st = Fields
    BY <1>2, FieldsAre DEF IsWork
<1>8. new \in HostServiceState
    BY <1>6, <1>7 DEF HostServiceState
<1>9. /\ new.until = e.time /\ new.mayNoLongerExist = may
      /\ \A f \in Fields \ {"until", "mayNoLongerExist"} : new[f] = r.st[f]
    BY <1>6, <1>7 DEF Fields
<1>10. /\ DOMAIN v = {"st", "rows", "changed"} /\ v.st = new
       /\ v.rows = r.rows /\ v.changed = r.changed
    BY <1>2, <1>5, <1>6 DEF IsWork
<1>11. IsWork(v)
    BY <1>2, <1>8, <1>10 DEF IsWork
<1>12. v.st.from = r.st.from /\ \A f \in Shown : v.st[f] = r.st[f]
    BY <1>9, <1>10 DEF Fields, Shown
<1>13. History(a, v, quiet, TimesOf(a, e))
    BY <1>3, <1>10, <1>12, QuietChange
<1>14. Was(a, v.st, o, e)
    <2>1. CASE Back(a, e)
        <3>1. /\ \A f \in Fields \ {"from", "until", "mayNoLongerExist", "hasVanished", "state",
                                    "inDowntime", "flapping", "inPeriod"} : r.st[f] = Work(a).st[f]
              /\ r.st.mayNoLongerExist = FALSE /\ r.st.hasVanished = FALSE /\ r.st.state = -1
              /\ r.st.inDowntime = FALSE /\ r.st.flapping = FALSE /\ r.st.inPeriod = PeriodsNow(o)
            BY <1>2, <1>15, <2>1 DEF Same, Reset
        <3>2. Work(a).st = a
            BY WorkIs
        <3> QED BY <1>4, <1>9, <1>10, <2>1, <3>1, <3>2 DEF Was, Fields
    <2>2. CASE ~Back(a, e)
        <3>1. r.st = a
            BY <1>16, <2>2
        <3> QED BY <1>4, <1>9, <1>10, <2>2, <3>1 DEF Was, Fields
    <2> QED BY <2>1, <2>2
<1> QED BY <1>2, <1>10, <1>11, <1>13, <1>14

\* The types of entries.
ServiceStateTypes == {"STATE_SERVICE", "STATE_SERVICE_INITIAL", "ALERT_SERVICE"}
ObjectTypes == ServiceTypes \cup HostTypes
UpdateTypes == ObjectTypes \cup {"TIMEPERIOD_TRANSITION"}

\* The state before an entry.
StateWas(a, e) == IF Back(a, e) THEN -1 ELSE a.state

\* What an entry does to an object.
Updated(a, st, changed, o, e) ==
    /\ st.services = a.services /\ st.lastKnown = a.lastKnown
    /\ st.mayNoLongerExist = (a.mayNoLongerExist /\ ~Back(a, e) /\ e.type = "TIMEPERIOD_TRANSITION")
    /\ st.hasVanished = (a.hasVanished /\ ~Back(a, e))
    /\ st.state = IF \/ e.type \in ServiceStateTypes
                     \/ e.type \in HostStateTypes /\ o \notin Services THEN e.state ELSE StateWas(a, e)
    /\ st.hostDown = IF e.type \in HostStateTypes /\ (o \in Services \/ StateWas(a, e) # e.state)
                     THEN e.state > 0 ELSE a.hostDown
    /\ st.inHostDowntime = IF e.type = "DOWNTIME_ALERT_HOST" THEN Started(e) ELSE a.inHostDowntime
    /\ st.inDowntime = IF \/ e.type = "DOWNTIME_ALERT_SERVICE"
                          \/ /\ e.type = "DOWNTIME_ALERT_HOST" /\ o \in Hosts
                             /\ a.inHostDowntime # Started(e)
                       THEN Started(e) ELSE a.inDowntime /\ ~Back(a, e)
    /\ st.flapping = IF e.type \in {"FLAPPING_HOST", "FLAPPING_SERVICE"}
                     THEN Started(e) ELSE a.flapping /\ ~Back(a, e)
    /\ \A kind \in Kinds : st.inPeriod[kind] =
            IF e.type = "TIMEPERIOD_TRANSITION" /\ PeriodOf[kind][o] = e.period THEN e.to
            ELSE IF Back(a, e) THEN PeriodNow(o, kind) ELSE a.inPeriod[kind]
    /\ e.type \in HostStateTypes /\ o \notin Services => changed = (StateWas(a, e) # e.state)
    /\ e.type = "DOWNTIME_ALERT_HOST" => changed = (a.inHostDowntime # Started(e))

\* The fields before an entry, one by one.
LEMMA WasIs ==
    ASSUME NEW a \in HostServiceState, NEW b \in HostServiceState, NEW o, NEW e, Was(a, b, o, e)
    PROVE  /\ b.services = a.services /\ b.lastKnown = a.lastKnown
           /\ b.hostDown = a.hostDown /\ b.inHostDowntime = a.inHostDowntime
           /\ b.mayNoLongerExist = (a.mayNoLongerExist /\ ~Back(a, e) /\ e.type = "TIMEPERIOD_TRANSITION")
           /\ b.hasVanished = (a.hasVanished /\ ~Back(a, e))
           /\ b.state = StateWas(a, e)
           /\ b.inDowntime = (a.inDowntime /\ ~Back(a, e)) /\ b.flapping = (a.flapping /\ ~Back(a, e))
           /\ \A kind \in Kinds : b.inPeriod[kind] = IF Back(a, e) THEN PeriodNow(o, kind) ELSE a.inPeriod[kind]
<1>1. /\ a.inDowntime \in BOOLEAN /\ a.flapping \in BOOLEAN /\ a.hasVanished \in BOOLEAN
      /\ b.inDowntime \in BOOLEAN /\ b.flapping \in BOOLEAN /\ b.hasVanished \in BOOLEAN
    BY FieldsAre
<1>2. CASE Back(a, e)
    <2>1. b.hasVanished = FALSE /\ b.state = -1 /\ b.inDowntime = FALSE /\ b.flapping = FALSE
          /\ b.inPeriod = [kind \in Kinds |-> PeriodNow(o, kind)]
        BY <1>2 DEF Was, PeriodsNow
    <2>2. \A kind \in Kinds : b.inPeriod[kind] = PeriodNow(o, kind)
        BY <2>1
    <2> QED BY <1>1, <1>2, <2>1, <2>2 DEF Was, StateWas
<1>3. CASE ~Back(a, e)
    BY <1>1, <1>3 DEF Was, StateWas
<1> QED BY <1>2, <1>3

\* updateHostServiceState() does what Updated says, and its rows are a history of it.
LEMMA UpdateIs ==
    ASSUME NEW quiet \in BOOLEAN, NEW a \in HostServiceState, NEW o, o \in Hosts \/ o \in Services,
           NEW e, e.type \in UpdateTypes, e.time \in Nat, e.state \in 0 .. 4,
           e.type = "TIMEPERIOD_TRANSITION" => e.to \in 0 .. 1, PeriodsNow(o) \in [Kinds -> 0 .. 1],
           NEW v, v = UpdateState(a, quiet, o, e)
    PROVE  /\ IsWork(v) /\ History(a, v, quiet, TimesOf(a, e))
           /\ Updated(a, v.st, v.changed, o, e)
<1>1. PICK w : w = Begin(a, quiet, o, e)
    OBVIOUS
<1>2. PICK T : T = TimesOf(a, e)
    OBVIOUS
<1>3. IsWork(w) /\ w.changed = TRUE /\ History(a, w, quiet, T) /\ Was(a, w.st, o, e)
    BY <1>1, <1>2, BeginIs
<1>4. PICK b \in HostServiceState : b = w.st
    BY <1>3 DEF IsWork
<1>5. /\ b.services = a.services /\ b.lastKnown = a.lastKnown
      /\ b.hostDown = a.hostDown /\ b.inHostDowntime = a.inHostDowntime
      /\ b.mayNoLongerExist = (a.mayNoLongerExist /\ ~Back(a, e) /\ e.type = "TIMEPERIOD_TRANSITION")
      /\ b.hasVanished = (a.hasVanished /\ ~Back(a, e))
      /\ b.state = StateWas(a, e)
      /\ b.inDowntime = (a.inDowntime /\ ~Back(a, e)) /\ b.flapping = (a.flapping /\ ~Back(a, e))
      /\ \A kind \in Kinds : b.inPeriod[kind] = IF Back(a, e) THEN PeriodNow(o, kind) ELSE a.inPeriod[kind]
    BY <1>3, <1>4, WasIs
<1>6. w.st.until \in T
    BY <1>2, <1>3 DEF Was, TimesOf
<1>7. CASE e.type \in HostStateTypes
    <2>1. v = HostEntry(w, quiet, o, e)
        BY <1>1, <1>7 DEF UpdateState, Begin, HostStateTypes
    <2>2. /\ IsWork(v) /\ History(a, v, quiet, T) /\ Same(v, w, {"state", "hostDown"})
          /\ o \in Services => v.st.hostDown = (e.state > 0) /\ v.st.state = w.st.state
          /\ o \notin Services =>
                /\ v.st.state = e.state
                /\ v.st.hostDown = (IF w.st.state = e.state THEN w.st.hostDown ELSE e.state > 0)
                /\ v.changed = (w.changed /\ w.st.state # e.state)
        BY <1>3, <1>6, <2>1, HostEntryIs
    <2>3. \A f \in Fields \ {"from", "state", "hostDown"} : v.st[f] = b[f]
        BY <1>4, <2>2 DEF Same
    <2> QED BY <1>2, <1>3, <1>4, <1>5, <1>7, <2>2, <2>3 DEF Updated, Fields, HostStateTypes, ServiceStateTypes
<1>8. CASE e.type \in ServiceStateTypes
    <2>1. v = Become(w, quiet, "state", e.state)
        BY <1>1, <1>8 DEF UpdateState, Begin, ServiceStateTypes
    <2>2. "state" \in Shown /\ Fits("state", e.state)
        <3>1. e.state \in -1 .. 4
            OBVIOUS
        <3> QED BY <3>1, FitsType DEF Shown
    <2>3. /\ IsWork(v) /\ History(a, v, quiet, T) /\ v.st["state"] = e.state
          /\ \A f \in Fields \ {"from", "state"} : v.st[f] = w.st[f]
        BY <1>3, <1>6, <2>1, <2>2, BecomeIs
    <2> QED BY <1>2, <1>4, <1>5, <1>8, <2>3 DEF Updated, Fields, HostStateTypes, ServiceStateTypes
<1>9. CASE e.type = "DOWNTIME_ALERT_HOST"
    <2>1. v = HostDowntime(w, quiet, o, e)
        BY <1>1, <1>9 DEF UpdateState, Begin
    <2>2. /\ IsWork(v) /\ History(a, v, quiet, T) /\ Same(v, w, {"inHostDowntime", "inDowntime"})
          /\ v.st.inHostDowntime = Started(e)
          /\ v.st.inDowntime = IF o \in Hosts /\ w.st.inHostDowntime # Started(e) THEN Started(e)
                               ELSE w.st.inDowntime
          /\ v.changed = (w.changed /\ w.st.inHostDowntime # Started(e))
        BY <1>3, <1>6, <2>1, HostDowntimeIs
    <2>3. \A f \in Fields \ {"from", "inHostDowntime", "inDowntime"} : v.st[f] = b[f]
        BY <1>4, <2>2 DEF Same
    <2> QED BY <1>2, <1>3, <1>4, <1>5, <1>9, <2>2, <2>3 DEF Updated, Fields, HostStateTypes, ServiceStateTypes
<1>10. CASE e.type = "DOWNTIME_ALERT_SERVICE"
    <2>1. v = Become(w, quiet, "inDowntime", Started(e))
        BY <1>1, <1>10 DEF UpdateState, Begin
    <2>2. "inDowntime" \in Shown /\ Fits("inDowntime", Started(e))
        BY StartedType, FitsType DEF Shown
    <2>3. /\ IsWork(v) /\ History(a, v, quiet, T) /\ v.st["inDowntime"] = Started(e)
          /\ \A f \in Fields \ {"from", "inDowntime"} : v.st[f] = w.st[f]
        BY <1>3, <1>6, <2>1, <2>2, BecomeIs
    <2> QED BY <1>2, <1>4, <1>5, <1>10, <2>3 DEF Updated, Fields, HostStateTypes, ServiceStateTypes
<1>11. CASE e.type \in {"FLAPPING_HOST", "FLAPPING_SERVICE"}
    <2>1. v = Flapping(w, quiet, e)
        BY <1>1, <1>11 DEF UpdateState, Begin
    <2>2. /\ IsWork(v) /\ History(a, v, quiet, T) /\ Same(v, w, {"flapping"})
          /\ v.st.flapping = Started(e)
        BY <1>3, <1>6, <2>1, FlappingIs
    <2>3. \A f \in Fields \ {"from", "flapping"} : v.st[f] = b[f]
        BY <1>4, <2>2 DEF Same
    <2> QED BY <1>2, <1>4, <1>5, <1>11, <2>2, <2>3 DEF Updated, Fields, HostStateTypes, ServiceStateTypes
<1>12. CASE e.type = "TIMEPERIOD_TRANSITION"
    <2>1. v = PeriodEntry(w, quiet, o, e)
        BY <1>1, <1>12 DEF UpdateState, Begin
    <2>2. /\ IsWork(v) /\ History(a, v, quiet, T) /\ Same(v, w, {"inPeriod"})
          /\ \A kind \in Kinds : v.st.inPeriod[kind] =
                IF PeriodOf[kind][o] = e.period THEN e.to ELSE w.st.inPeriod[kind]
        BY <1>3, <1>6, <1>12, <2>1, PeriodEntryIs
    <2>3. \A f \in Fields \ {"from", "inPeriod"} : v.st[f] = b[f]
        BY <1>4, <2>2 DEF Same
    <2> QED BY <1>2, <1>4, <1>5, <1>12, <2>2, <2>3 DEF Updated, Fields, HostStateTypes, ServiceStateTypes
<1> QED BY <1>7, <1>8, <1>9, <1>10, <1>11, <1>12
        DEF UpdateTypes, ObjectTypes, ServiceTypes, HostTypes, HostStateTypes, ServiceStateTypes

-----------------------------------------------------------------------------
(* The objects that are tracked                                            *)

\* The objects that are tracked, each with its state.
Tracks(I) == DOMAIN I \subseteq Objects /\ \A o \in DOMAIN I : I[o] \in HostServiceState

\* What is assumed of the constants.
LEMMA ObjectsAre ==
    /\ Objects = (Hosts \cup Services) \ Gone /\ Hosts \cap Services = {}
    /\ HostOf \in [Services -> Hosts] /\ Since \in Nat /\ Until \in Nat /\ Grace \in Nat
    /\ MaxRead \in Nat /\ Until > Since + 1 /\ MaxRead > 0 /\ Unwanted \subseteq Services
BY HistoryAssumption DEF Objects

\* J follows I with nothing but the fields of F changed.
Follows(J, I, F) ==
    /\ DOMAIN J = DOMAIN I /\ Tracks(J)
    /\ \A o \in DOMAIN I : \A f \in Fields \ F : J[o][f] = I[o][f]

\* At the start of the range every object starts anew, at the range's start.
LEMMA BegunIs ==
    ASSUME NEW time \in Nat, Tracks(info)
    PROVE  /\ Follows(Begun(time), info, {"from", "until"})
           /\ \A o \in DOMAIN info :
                Begun(time)[o].from = IF onlyUpdate /\ time >= Since THEN Since ELSE info[o].from
<1>1. PICK J : J = Begun(time)
    OBVIOUS
<1>2. CASE ~(onlyUpdate /\ time >= Since)
    <2>1. J = info
        BY <1>1, <1>2 DEF Begun
    <2> QED BY <1>1, <1>2, <2>1 DEF Follows
<1>3. CASE onlyUpdate /\ time >= Since
    <2>1. J = [o \in DOMAIN info |-> [info[o] EXCEPT !.from = Since, !.until = Since]]
        BY <1>1, <1>3 DEF Begun
    <2>2. ASSUME NEW o \in DOMAIN info
          PROVE  /\ J[o] \in HostServiceState /\ J[o].from = Since
                 /\ \A f \in Fields \ {"from", "until"} : J[o][f] = info[o][f]
        <3>1. PICK st \in HostServiceState : st = info[o]
            BY DEF Tracks
        <3>2. DOMAIN st = Fields /\ Since \in Nat
            BY FieldsAre, ObjectsAre
        <3>3. J[o] = [st EXCEPT !.from = Since, !.until = Since]
            BY <2>1, <3>1
        <3>4. J[o] \in HostServiceState
            BY <3>2, <3>3 DEF HostServiceState
        <3> QED BY <3>1, <3>2, <3>3, <3>4 DEF Fields
    <2>3. DOMAIN J = DOMAIN info /\ Tracks(J)
        BY <2>1, <2>2 DEF Tracks
    <2> QED BY <1>1, <1>3, <2>2, <2>3 DEF Follows
<1> QED BY <1>2, <1>3

\* The initial states end with the entry, which leaves an object behind.
Vanishes(o, e) == inInitial /\ e.type \notin InitialTypes /\ info[o].mayNoLongerExist

\* And at the end of the initial states those vanish that had none.
LEMMA SettledIs ==
    ASSUME NEW e, e.time \in Nat, Tracks(info), inInitial \in BOOLEAN
    PROVE  /\ Follows(Settled(e), info, {"from", "until", "hasVanished"})
           /\ \A o \in DOMAIN info :
                /\ Settled(e)[o].from = IF onlyUpdate /\ e.time >= Since THEN Since ELSE info[o].from
                /\ Settled(e)[o].hasVanished = (info[o].hasVanished \/ Vanishes(o, e))
<1>1. PICK J : J = Settled(e)
    OBVIOUS
<1>2. PICK I : I = Begun(e.time)
    OBVIOUS
<1>3. /\ Follows(I, info, {"from", "until"})
      /\ \A o \in DOMAIN info : I[o].from = IF onlyUpdate /\ e.time >= Since THEN Since ELSE info[o].from
    BY <1>2, BegunIs
<1>4. /\ DOMAIN I = DOMAIN info /\ Tracks(I)
      /\ \A o \in DOMAIN info : \A f \in Fields \ {"from", "until"} : I[o][f] = info[o][f]
    BY <1>3 DEF Follows
<1>5. \A o \in DOMAIN info : I[o].hasVanished = info[o].hasVanished /\ I[o].mayNoLongerExist = info[o].mayNoLongerExist
    BY <1>4 DEF Fields
<1>6. CASE ~(inInitial /\ e.type \notin InitialTypes)
    <2>1. J = I
        BY <1>1, <1>2, <1>6 DEF Settled
    <2>2. \A o \in DOMAIN info : J[o].hasVanished = (info[o].hasVanished \/ Vanishes(o, e))
        <3>1. \A o \in DOMAIN info : info[o].hasVanished \in BOOLEAN
            BY FieldsAre DEF Tracks
        <3> QED BY <1>5, <1>6, <2>1, <3>1 DEF Vanishes
    <2> QED BY <1>1, <1>3, <1>4, <2>1, <2>2 DEF Follows
<1>7. CASE inInitial /\ e.type \notin InitialTypes
    <2>1. J = [o \in DOMAIN I |-> [I[o] EXCEPT !.hasVanished = @ \/ I[o].mayNoLongerExist]]
        BY <1>1, <1>2, <1>7 DEF Settled
    <2>2. ASSUME NEW o \in DOMAIN info
          PROVE  /\ J[o] \in HostServiceState /\ J[o].from = I[o].from
                 /\ J[o].hasVanished = (info[o].hasVanished \/ Vanishes(o, e))
                 /\ \A f \in Fields \ {"hasVanished"} : J[o][f] = I[o][f]
        <3>1. PICK st \in HostServiceState : st = I[o]
            BY <1>4 DEF Tracks
        <3>2. DOMAIN st = Fields /\ st.hasVanished \in BOOLEAN /\ st.mayNoLongerExist \in BOOLEAN
            BY FieldsAre
        <3>3. PICK gone \in BOOLEAN : gone = (st.hasVanished \/ st.mayNoLongerExist)
            BY <3>2
        <3>4. J[o] = [st EXCEPT !.hasVanished = gone]
            BY <1>4, <2>1, <3>1, <3>3
        <3>5. J[o] \in HostServiceState
            BY <3>2, <3>4 DEF HostServiceState
        <3>6. /\ J[o].hasVanished = gone /\ J[o].from = st.from
              /\ \A f \in Fields \ {"hasVanished"} : J[o][f] = st[f]
            BY <3>2, <3>4 DEF Fields
        <3>7. gone = (info[o].hasVanished \/ Vanishes(o, e))
            BY <1>5, <1>7, <3>1, <3>3 DEF Vanishes
        <3> QED BY <3>1, <3>5, <3>6, <3>7
    <2>3. DOMAIN J = DOMAIN info
        BY <1>4, <2>1
    <2>4. Tracks(J)
        BY <1>4, <2>2, <2>3 DEF Tracks
    <2>5. \A o \in DOMAIN info : \A f \in Fields \ {"from", "until", "hasVanished"} : J[o][f] = info[o][f]
        BY <1>4, <2>2
    <2> QED BY <1>1, <1>3, <2>2, <2>3, <2>4, <2>5 DEF Follows
<1> QED BY <1>6, <1>7

\* The services of a host that are tracked.
ServicesOf(h, I) == {s \in Services \cap DOMAIN I : HostOf[s] = h}

\* A host reaches its services.
Listed(I) ==
    \A h \in Hosts \cap DOMAIN I : I[h].services = ServicesOf(h, I)

\* What is known of an object that is met for the first time.
IsNew(st, o, I) ==
    /\ st \in HostServiceState
    /\ st.from = Since /\ st.state \in {-1, 0}
    /\ st.inDowntime = FALSE /\ st.flapping = FALSE
    /\ st.inPeriod = PeriodsNow(o)
    /\ st.mayNoLongerExist = FALSE /\ st.hasVanished = FALSE /\ st.lastKnown = 0
    /\ o \in Services => /\ st.services = {}
                         /\ st.hostDown = (HostOf[o] \in DOMAIN I /\ I[HostOf[o]].hostDown)
                         /\ st.inHostDowntime = (HostOf[o] \in DOMAIN I /\ I[HostOf[o]].inHostDowntime)
    /\ o \in Hosts => /\ st.hostDown = FALSE /\ st.inHostDowntime = FALSE
                      /\ st.services = ServicesOf(o, I)

\* A new object takes its host's state from its host, if that is known.
LEMMA NewStateIs ==
    ASSUME NEW I, Tracks(I), NEW o \in Objects, NEW time \in Nat, NEW quiet \in BOOLEAN,
           PeriodsNow(o) \in [Kinds -> 0 .. 1],
           NEW st, st = NewState(o, time, quiet, I)
    PROVE  IsNew(st, o, I)
<1>1. PICK p \in [Kinds -> 0 .. 1] : p = PeriodsNow(o)
    OBVIOUS
<1>2. PICK host : host = IF o \in Services THEN HostOf[o] ELSE o
    OBVIOUS
<1>3. PICK knownHost \in BOOLEAN : knownHost = (o \in Services /\ host \in DOMAIN I)
    OBVIOUS
<1>4. PICK down \in BOOLEAN : down = (knownHost /\ I[host].hostDown)
    <2>1. knownHost => I[host].hostDown \in BOOLEAN
        BY <1>3, FieldsAre DEF Tracks
    <2> QED BY <1>3, <2>1
<1>5. PICK downtime \in BOOLEAN : downtime = (knownHost /\ I[host].inHostDowntime)
    <2>1. knownHost => I[host].inHostDowntime \in BOOLEAN
        BY <1>3, FieldsAre DEF Tracks
    <2> QED BY <1>3, <2>1
<1>6. PICK services \in SUBSET Services : services = IF o \in Services THEN {} ELSE ServicesOf(o, I)
    BY DEF ServicesOf
<1>7. PICK state \in -1 .. 4 : state = (IF ~quiet /\ time > Since + Grace THEN -1 ELSE 0) /\ state \in {-1, 0}
    OBVIOUS
<1>8. st = [from |-> Since, until |-> 0, state |-> state, hostDown |-> down,
            inHostDowntime |-> downtime, inPeriod |-> p, inDowntime |-> FALSE, flapping |-> FALSE,
            services |-> services, mayNoLongerExist |-> FALSE, hasVanished |-> FALSE, lastKnown |-> 0]
    BY <1>1, <1>2, <1>3, <1>4, <1>5, <1>6, <1>7 DEF NewState, PeriodsNow, ServicesOf
<1>9. st \in HostServiceState
    BY <1>8, ObjectsAre DEF HostServiceState
<1>10. /\ st.from = Since /\ st.state = state /\ st.hostDown = down /\ st.inHostDowntime = downtime
       /\ st.inDowntime = FALSE /\ st.flapping = FALSE /\ st.inPeriod = p /\ st.services = services
       /\ st.mayNoLongerExist = FALSE /\ st.hasVanished = FALSE /\ st.lastKnown = 0
    BY <1>8
<1>11. o \in Hosts => o \notin Services
    BY ObjectsAre
<1> QED BY <1>1, <1>2, <1>3, <1>4, <1>5, <1>6, <1>7, <1>9, <1>10, <1>11 DEF IsNew

\* The lists of services are kept when an object is met, whichever of a host and its
\* service comes first.
LEMMA TrackedIs ==
    ASSUME NEW I, Tracks(I), Listed(I), NEW o \in Objects, NEW time \in Nat, NEW quiet \in BOOLEAN,
           PeriodsNow(o) \in [Kinds -> 0 .. 1],
           NEW G, G = Tracked(o, time, quiet, I)
    PROVE  /\ DOMAIN G = DOMAIN I \cup {o} /\ Tracks(G) /\ Listed(G)
           /\ \A x \in DOMAIN I : \A f \in Fields \ {"services"} : G[x][f] = I[x][f]
           /\ o \notin DOMAIN I => IsNew(G[o], o, I)
<1>1. PICK new : new = NewState(o, time, quiet, I)
    OBVIOUS
<1>0. IsNew(new, o, I)
    BY <1>1, NewStateIs
<1>2. new \in HostServiceState
    BY <1>0 DEF IsNew
<1>3. o \in Services => new.services = {}
    BY <1>0 DEF IsNew
<1>4. o \in Hosts => new.services = ServicesOf(o, I)
    BY <1>0 DEF IsNew
<1>5. PICK B : B = Grown(o, time, quiet, I)
    OBVIOUS
<1>6. /\ DOMAIN B = DOMAIN I \cup {o} /\ \A x \in DOMAIN I : B[x] = I[x]
      /\ o \notin DOMAIN I => B[o] = new
    BY <1>1, <1>5 DEF Grown
<1>7. Tracks(B)
    BY <1>2, <1>6 DEF Tracks
<1>8. o \in Hosts \/ o \in Services
    BY ObjectsAre
<1>9. CASE ~(o \in Services /\ o \notin DOMAIN I /\ HostOf[o] \in DOMAIN I)
    <2>1. G = B
        BY <1>5, <1>9 DEF Tracked
    <2>2. Listed(G)
        <3>1. SUFFICES ASSUME NEW h \in Hosts \cap DOMAIN G
                       PROVE  G[h].services = {s \in Services \cap DOMAIN G : HostOf[s] = h}
            BY DEF Listed, ServicesOf
        <3>2. CASE h \in DOMAIN I
            <4>1. I[h].services = {s \in Services \cap DOMAIN I : HostOf[s] = h}
                BY <3>1, <3>2 DEF Listed, ServicesOf
            <4>2. \A s \in Services : s \in DOMAIN G /\ HostOf[s] = h => s \in DOMAIN I
                BY <1>6, <1>9, <2>1, <3>2
            <4> QED BY <1>6, <2>1, <3>2, <4>1, <4>2
        <3>3. CASE h \notin DOMAIN I
            <4>1. h = o /\ o \in Hosts /\ o \notin Services
                BY <1>6, <2>1, <3>1, <3>3, ObjectsAre
            <4>2. G[h].services = {s \in Services \cap DOMAIN I : HostOf[s] = o}
                BY <1>4, <1>6, <2>1, <3>3, <4>1 DEF ServicesOf
            <4>3. Services \cap DOMAIN G = Services \cap DOMAIN I
                BY <1>6, <2>1, <4>1
            <4> QED BY <4>1, <4>2, <4>3
        <3> QED BY <3>2, <3>3
    <2> QED BY <1>0, <1>6, <1>7, <2>1, <2>2
<1>10. CASE o \in Services /\ o \notin DOMAIN I /\ HostOf[o] \in DOMAIN I
    <2>1. PICK h : h = HostOf[o]
        OBVIOUS
    <2>2. h \in Hosts /\ h \in DOMAIN I /\ h # o
        BY <1>10, <2>1, ObjectsAre
    <2>3. PICK old \in HostServiceState : old = I[h]
        BY <2>2 DEF Tracks
    <2>4. old.services = {s \in Services \cap DOMAIN I : HostOf[s] = h}
        BY <2>2, <2>3 DEF Listed, ServicesOf
    <2>5. PICK list \in SUBSET Services : list = old.services \cup {o}
        BY <1>10, <2>3, FieldsAre
    <2>6. PICK st : st = [old EXCEPT !.services = list]
        OBVIOUS
    <2>7. G = [B EXCEPT ![h].services = @ \cup {o}]
        BY <1>5, <1>10, <2>1 DEF Tracked
    <2>8. B[h] = old
        BY <1>6, <2>2, <2>3
    <2>9. DOMAIN G = DOMAIN B /\ G[h] = st /\ \A x \in DOMAIN B : x # h => G[x] = B[x]
        BY <1>6, <2>2, <2>5, <2>6, <2>7, <2>8
    <2>10. /\ st \in HostServiceState /\ st.services = list
           /\ \A f \in Fields \ {"services"} : st[f] = old[f]
        <3>1. DOMAIN old = Fields
            BY FieldsAre
        <3>2. st \in HostServiceState
            BY <2>6, <3>1 DEF HostServiceState
        <3> QED BY <2>6, <3>1, <3>2 DEF Fields
    <2>11. Tracks(G)
        BY <1>7, <2>9, <2>10 DEF Tracks
    <2>12. Listed(G)
        <3>1. SUFFICES ASSUME NEW g \in Hosts \cap DOMAIN G
                       PROVE  G[g].services = {s \in Services \cap DOMAIN G : HostOf[s] = g}
            BY DEF Listed, ServicesOf
        <3>2. DOMAIN G = DOMAIN I \cup {o}
            BY <1>6, <2>9
        <3>3. CASE g = h
            <4>1. G[g].services = old.services \cup {o}
                BY <2>5, <2>9, <2>10, <3>3
            <4> QED BY <1>10, <2>1, <2>4, <3>2, <3>3, <4>1
        <3>4. CASE g # h
            <4>1. g # o /\ g \in DOMAIN I
                BY <1>10, <3>1, <3>2, ObjectsAre
            <4>2. G[g].services = I[g].services
                BY <1>6, <2>9, <3>4, <4>1
            <4>3. I[g].services = {s \in Services \cap DOMAIN I : HostOf[s] = g}
                BY <3>1, <4>1 DEF Listed, ServicesOf
            <4> QED BY <2>1, <3>2, <3>4, <4>2, <4>3
        <3> QED BY <3>3, <3>4
    <2>13. \A x \in DOMAIN I : \A f \in Fields \ {"services"} : G[x][f] = I[x][f]
        BY <1>6, <2>3, <2>8, <2>9, <2>10
    <2>14. G[o] = new
        BY <1>6, <1>10, <2>2, <2>9
    <2> QED BY <1>0, <1>6, <2>9, <2>11, <2>12, <2>13, <2>14
<1> QED BY <1>9, <1>10

\* A turn makes of the works the states, the rows and the totals.
LEMMA AnswerIs ==
    ASSUME NEW states, Tracks(states), NEW works, DOMAIN works \subseteq DOMAIN states,
           \A o \in DOMAIN works : IsWork(works[o]), total \in [Objects -> Int],
           Answer(states, works)
    PROVE  /\ DOMAIN info' = DOMAIN states /\ Tracks(info')
           /\ \A o \in DOMAIN works : info'[o] = works[o].st /\ rows'[o] = works[o].rows
           /\ \A o \in DOMAIN states : o \notin DOMAIN works => info'[o] = states[o]
           /\ \A o \in Objects : o \notin DOMAIN works => rows'[o] = <<>>
           /\ \A o \in Objects : total'[o] = total[o] + Spent(rows'[o]) /\ rows'[o] \in Seq(RowType)
           /\ total' \in [Objects -> Int] /\ aborted' \in BOOLEAN
<1>1. /\ info' = [o \in DOMAIN states |-> IF o \in DOMAIN works THEN works[o].st ELSE states[o]]
      /\ rows' = [o \in Objects |-> IF o \in DOMAIN works THEN works[o].rows ELSE <<>>]
      /\ total' = [o \in Objects |-> total[o] + Spent(rows'[o])]
      /\ aborted' \in BOOLEAN
    BY DEF Answer
<1>2. \A o \in DOMAIN works : works[o].st \in HostServiceState /\ works[o].rows \in Seq(RowType)
    BY DEF IsWork
<1>3. DOMAIN info' = DOMAIN states
      /\ \A o \in DOMAIN states : info'[o] = IF o \in DOMAIN works THEN works[o].st ELSE states[o]
    BY <1>1
<1>4. Tracks(info')
    BY <1>2, <1>3 DEF Tracks
<1>5. <<>> \in Seq(RowType)
    OBVIOUS
<1>6. \A o \in Objects : rows'[o] = IF o \in DOMAIN works THEN works[o].rows ELSE <<>>
    BY <1>1
<1>7. \A o \in Objects : rows'[o] \in Seq(RowType)
    BY <1>2, <1>5, <1>6
<1>8. \A o \in Objects : total'[o] = total[o] + Spent(rows'[o])
    BY <1>1
<1>9. \A o \in Objects : total[o] + Spent(rows'[o]) \in Int
    BY <1>7, SpentType
<1>10. total' \in [Objects -> Int]
    BY <1>1, <1>9
<1>11. DOMAIN works \subseteq Objects
    BY DEF Tracks
<1> QED BY <1>1, <1>3, <1>4, <1>6, <1>7, <1>8, <1>10, <1>11

\* Without works the states are those that were found.
LEMMA NothingIs ==
    ASSUME NEW states, Tracks(states), total \in [Objects -> Int], Answer(states, <<>>)
    PROVE  /\ DOMAIN info' = DOMAIN states /\ Tracks(info')
           /\ \A o \in DOMAIN states : info'[o] = states[o]
           /\ \A o \in Objects : rows'[o] = <<>> /\ total'[o] = total[o]
           /\ total' \in [Objects -> Int] /\ aborted' \in BOOLEAN
<1>1. PICK works : works = <<>>
    OBVIOUS
<1>2. DOMAIN works = {}
    BY <1>1
<1>3. /\ DOMAIN info' = DOMAIN states /\ Tracks(info')
      /\ \A o \in DOMAIN states : o \notin DOMAIN works => info'[o] = states[o]
      /\ \A o \in Objects : o \notin DOMAIN works => rows'[o] = <<>>
      /\ \A o \in Objects : total'[o] = total[o] + Spent(rows'[o])
      /\ total' \in [Objects -> Int] /\ aborted' \in BOOLEAN
    BY <1>1, <1>2, AnswerIs
<1>4. \A o \in Objects : rows'[o] = <<>>
    BY <1>2, <1>3
<1>5. \A o \in Objects : total'[o] = total[o]
    BY <1>3, <1>4, SpentNothing
<1> QED BY <1>2, <1>3, <1>4, <1>5

-----------------------------------------------------------------------------
(* The inductive invariant                                                 *)

\* The log's last word on an object.
ToldType == [state : 0 .. Unsaid, hostDown : BOOLEAN, inDowntime : BOOLEAN,
             inHostDowntime : BOOLEAN, flapping : BOOLEAN]

\* What was heard is remembered, and what is pending is a transition.
Types ==
    /\ TypeOK
    /\ heard \subseteq DOMAIN periods /\ \A p \in DOMAIN periods : periods[p] \in 0 .. 1
    /\ \A t \in pending : t.period \in Periods /\ t.to \in 0 .. 1
    /\ told \in [Objects -> ToldType]

\* The periods that were read of are those of the cache, but for what is pending.
PeriodsKept ==
    /\ \A p \in heard : (\A t \in pending : t.period # p) => periods[p] = Bit(InTimeperiod(p))
    /\ \A t \in pending : t.to = Bit(InTimeperiod(t.period))
    /\ \A o \in DOMAIN info, kind \in Kinds : PeriodOf[kind][o] \in heard =>
            info[o].inPeriod[kind] = periods[PeriodOf[kind][o]]

\* The log's last word on a service's host is that on the host.
ToldOfHost ==
    \A s \in Services \cap Objects :
        /\ told[s].hostDown = (HostOf[s] \in Objects /\ told[HostOf[s]].hostDown)
        /\ told[s].inHostDowntime = (HostOf[s] \in Objects /\ told[HostOf[s]].inHostDowntime)

\* Nothing was said of what is not tracked.
ToldOfTracked ==
    \A o \in Objects \ DOMAIN info :
        /\ told[o].state = Unsaid /\ ~told[o].inDowntime /\ ~told[o].flapping
        /\ o \in Hosts => ~told[o].hostDown /\ ~told[o].inHostDowntime

\* What services take from their host is right even when the host is in doubt.
HostIsTold ==
    \A h \in Hosts \cap Objects :
        /\ told[h].inDowntime = told[h].inHostDowntime
        /\ h \in DOMAIN info =>
            /\ info[h].hostDown = told[h].hostDown /\ info[h].inHostDowntime = told[h].inHostDowntime
            /\ info[h].state # -1 => info[h].hostDown = (info[h].state > 0)

\* What has vanished is in doubt.
VanishedKept ==
    place = "reading" => \A o \in DOMAIN info : info[o].hasVanished => o \in vague

\* What the log told, between two lines.
ToldKept ==
    place = "reading" =>
        /\ ToldOfHost /\ ToldOfTracked /\ HostIsTold

\* The range begins with the first line in it, and no trace is of the future.
TimesKept ==
    /\ ~onlyUpdate => Since <= minute
    /\ \A o \in DOMAIN info : info[o].lastKnown <= minute /\ info[o].lastKnown < Until

\* The durations of an object add up to the part of the range that is behind it.
TotalsKept ==
    place = "reading" =>
        /\ \A o \in Objects \ DOMAIN info : total[o] = 0
        /\ \A o \in DOMAIN info :
            /\ total[o] = info[o].from - Since /\ info[o].from < Until
            /\ IF onlyUpdate THEN info[o].from = Since ELSE info[o].from <= minute

-----------------------------------------------------------------------------
(* Turns of the loop                                                       *)

\* What an entry that is read now finds of the objects that are tracked.
Based(B, e) ==
    /\ Tracks(B) /\ DOMAIN info \subseteq DOMAIN B
    /\ \A x \in DOMAIN info :
        /\ \A f \in Fields \ {"from", "until", "hasVanished", "services"} : B[x][f] = info[x][f]
        /\ B[x].from = IF onlyUpdate /\ minute >= Since THEN Since ELSE info[x].from
        /\ B[x].hasVanished = (info[x].hasVanished \/ Vanishes(x, e))
    /\ \A x \in DOMAIN B : x \notin DOMAIN info => IsNew(B[x], x, info)

\* An entry that is read now.
IsLine(e) == e.time = minute /\ e.state \in 0 .. 4 /\ Reads(e)

\* The types, for the provers.
LEMMA TypesAre ==
    ASSUME Types
    PROVE  /\ Tracks(info) /\ minute \in Nat /\ onlyUpdate \in BOOLEAN /\ inInitial \in BOOLEAN
           /\ aborted \in BOOLEAN
           /\ total \in [Objects -> Int] /\ \A o : PeriodsNow(o) \in [Kinds -> 0 .. 1]
<1>1. DOMAIN info \subseteq Objects /\ \A o \in DOMAIN info : info[o] \in HostServiceState
    BY DEF Types, TypeOK
<1>2. minute \in Nat
    BY MinutesAssumption DEF Types, TypeOK, CacheTypeOK
<1>3. onlyUpdate \in BOOLEAN /\ inInitial \in BOOLEAN /\ aborted \in BOOLEAN /\ total \in [Objects -> Int]
    BY DEF Types, TypeOK
<1>4. ASSUME NEW o PROVE PeriodsNow(o) \in [Kinds -> 0 .. 1]
    <2>1. \A p \in DOMAIN periods : periods[p] \in 0 .. 1
        BY DEF Types
    <2>2. ASSUME NEW kind \in Kinds PROVE PeriodNow(o, kind) \in 0 .. 1
        BY <2>1 DEF PeriodNow
    <2> QED BY <2>2 DEF PeriodsNow
<1> QED BY <1>1, <1>2, <1>3, <1>4 DEF Tracks

\* Whether rows are reported does not change within a turn.
LEMMA QuietIs ==
    ASSUME Types, NEW e, IsLine(e)
    PROVE  Quiet(e.time) \in BOOLEAN /\ Quiet(e.time) = Quiet(minute) /\ onlyUpdate' = Quiet(minute)
BY TypesAre DEF Quiet, IsLine, Reads

\* What an entry finds before it looks for its object.
LEMMA SettledBased ==
    ASSUME Types, NEW e, IsLine(e)
    PROVE  Based(Settled(e), e) /\ DOMAIN Settled(e) = DOMAIN info
           /\ \A x \in DOMAIN info : Settled(e)[x].services = info[x].services
<1>1. PICK I : I = Settled(e)
    OBVIOUS
<1>2. e.time = minute /\ minute \in Nat /\ Tracks(info) /\ inInitial \in BOOLEAN
    BY TypesAre DEF IsLine
<1>3. /\ Follows(I, info, {"from", "until", "hasVanished"})
      /\ \A x \in DOMAIN info :
            /\ I[x].from = IF onlyUpdate /\ e.time >= Since THEN Since ELSE info[x].from
            /\ I[x].hasVanished = (info[x].hasVanished \/ Vanishes(x, e))
    BY <1>1, <1>2, SettledIs
<1>4. /\ DOMAIN I = DOMAIN info /\ Tracks(I)
      /\ \A x \in DOMAIN info : \A f \in Fields \ {"from", "until", "hasVanished"} : I[x][f] = info[x][f]
    BY <1>3 DEF Follows
<1>5. \A x \in DOMAIN info : I[x].services = info[x].services
    BY <1>4 DEF Fields
<1>6. Based(I, e)
    BY <1>2, <1>3, <1>4 DEF Based
<1> QED BY <1>1, <1>4, <1>5, <1>6

\* A new object takes from its host what settling leaves alone.
LEMMA IsNewSame ==
    ASSUME NEW st, NEW o \in Objects, NEW I, NEW J, DOMAIN I = DOMAIN J,
           \A x \in DOMAIN I : I[x].hostDown = J[x].hostDown /\ I[x].inHostDowntime = J[x].inHostDowntime,
           IsNew(st, o, I)
    PROVE  IsNew(st, o, J)
<1>1. ServicesOf(o, I) = ServicesOf(o, J)
    BY DEF ServicesOf
<1>2. o \in Services => /\ st.hostDown = (HostOf[o] \in DOMAIN J /\ J[HostOf[o]].hostDown)
                        /\ st.inHostDowntime = (HostOf[o] \in DOMAIN J /\ J[HostOf[o]].inHostDowntime)
    <2>1. CASE HostOf[o] \in DOMAIN J
        BY <2>1 DEF IsNew
    <2>2. CASE HostOf[o] \notin DOMAIN J
        BY <2>2 DEF IsNew
    <2> QED BY <2>1, <2>2
<1> QED BY <1>1, <1>2 DEF IsNew

\* And after it has.
LEMMA TrackedBased ==
    ASSUME Types, Listed(info), NEW e, IsLine(e), NEW o \in Objects,
           NEW G, G = Tracked(o, e.time, Quiet(e.time), Settled(e))
    PROVE  Based(G, e) /\ DOMAIN G = DOMAIN info \cup {o} /\ Listed(G)
<1>1. PICK I : I = Settled(e)
    OBVIOUS
<1>2. /\ Based(I, e) /\ DOMAIN I = DOMAIN info
      /\ \A x \in DOMAIN info : I[x].services = info[x].services
    BY <1>1, SettledBased
<1>3. Tracks(I)
    BY <1>2 DEF Based
<1>4. Listed(I)
    BY <1>2 DEF Listed, ServicesOf
<1>5. PICK time \in Nat : time = e.time
    BY TypesAre DEF IsLine
<1>6. PICK quiet \in BOOLEAN : quiet = Quiet(e.time)
    BY QuietIs
<1>7. PeriodsNow(o) \in [Kinds -> 0 .. 1]
    BY TypesAre
<1>8. G = Tracked(o, time, quiet, I)
    BY <1>1, <1>5, <1>6
<1>9. /\ DOMAIN G = DOMAIN I \cup {o} /\ Tracks(G) /\ Listed(G)
      /\ \A x \in DOMAIN I : \A f \in Fields \ {"services"} : G[x][f] = I[x][f]
      /\ o \notin DOMAIN I => IsNew(G[o], o, I)
    BY <1>3, <1>4, <1>7, <1>8, TrackedIs
<1>10. ASSUME NEW x \in DOMAIN info
       PROVE  /\ \A f \in Fields \ {"from", "until", "hasVanished", "services"} : G[x][f] = info[x][f]
              /\ G[x].from = IF onlyUpdate /\ minute >= Since THEN Since ELSE info[x].from
              /\ G[x].hasVanished = (info[x].hasVanished \/ Vanishes(x, e))
    <2>1. \A f \in Fields \ {"services"} : G[x][f] = I[x][f]
        BY <1>2, <1>9
    <2>2. G[x].from = I[x].from /\ G[x].hasVanished = I[x].hasVanished
        BY <2>1 DEF Fields
    <2>3. /\ \A f \in Fields \ {"from", "until", "hasVanished", "services"} : I[x][f] = info[x][f]
          /\ I[x].from = IF onlyUpdate /\ minute >= Since THEN Since ELSE info[x].from
          /\ I[x].hasVanished = (info[x].hasVanished \/ Vanishes(x, e))
        BY <1>2 DEF Based
    <2> QED BY <2>1, <2>2, <2>3
<1>11. ASSUME NEW x \in DOMAIN G, x \notin DOMAIN info
       PROVE  IsNew(G[x], x, info)
    <2>1. x = o
        BY <1>2, <1>9, <1>11
    <2>2. \A y \in DOMAIN info : \A f \in Fields \ {"from", "until", "hasVanished", "services"} : I[y][f] = info[y][f]
        BY <1>2 DEF Based
    <2>3. \A y \in DOMAIN I : I[y].hostDown = info[y].hostDown /\ I[y].inHostDowntime = info[y].inHostDowntime
        BY <1>2, <2>2 DEF Fields
    <2>4. IsNew(G[o], o, I)
        BY <1>2, <1>9, <1>11, <2>1
    <2>5. IsNew(G[o], o, info)
        BY <1>2, <2>3, <2>4, IsNewSame
    <2> QED BY <2>1, <2>5
<1>12. Based(G, e)
    <2>1. DOMAIN info \subseteq DOMAIN G
        BY <1>2, <1>9
    <2> QED BY <1>9, <1>10, <1>11, <2>1 DEF Based
<1> QED BY <1>2, <1>9, <1>12

\* What became of the objects is what the rows say.
Reported(B, e) ==
    /\ DOMAIN info' = DOMAIN B /\ Tracks(info')
    /\ \A x \in DOMAIN B :
        /\ History(B[x], [st |-> info'[x], rows |-> rows'[x]], Quiet(minute), TimesOf(B[x], e))
        /\ info'[x].lastKnown \in {B[x].lastKnown, minute}
    /\ \A x \in Objects :
        /\ rows'[x] \in Seq(RowType) /\ total'[x] = total[x] + Spent(rows'[x])
        /\ x \notin DOMAIN B => rows'[x] = <<>>
    /\ total' \in [Objects -> Int] /\ aborted' \in BOOLEAN

\* A turn of the loop that found B.
Step(B, e) ==
    /\ IsLine(e) /\ Based(B, e) /\ Reported(B, e)
    /\ place' = (IF aborted' THEN "done" ELSE "reading") /\ UNCHANGED tpVars

\* Nothing is said of the objects, though some may be found to have vanished.
Steady(e) ==
    /\ DOMAIN info' = DOMAIN info /\ UNCHANGED told /\ vague' = InDoubt(Null, e)
    /\ \A x \in DOMAIN info :
        /\ \A f \in {"state", "hostDown", "inDowntime", "inHostDowntime", "flapping", "services"} :
                info'[x][f] = info[x][f]
        /\ info'[x].hasVanished = (info[x].hasVanished \/ Vanishes(x, e))

\* An entry of the log that is read now is a line of now.
LEMMA EntriesAre ==
    ASSUME NEW entry \in Entries, NEW e, e = Now(entry)
    PROVE  e.time = minute /\ e.state \in 0 .. 4
<1>1. PICK l \in Lines : entry = Entry(l.line)
    BY DEF Entries
<1>2. DOMAIN entry = EntryFields /\ entry.state \in 0 .. 4
    BY <1>1, EntryIs
<1>3. e.time = minute /\ \A f \in EntryFields : e[f] = entry[f]
    BY <1>2, NowIs
<1>4. e.state = entry.state
    BY <1>3 DEF EntryFields
<1> QED BY <1>2, <1>3, <1>4

\* A history is of the state and the rows.
LEMMA HistoryOf ==
    ASSUME NEW a, NEW w, NEW quiet \in BOOLEAN, NEW T, History(a, w, quiet, T),
           NEW st, st = w.st, NEW list, list = w.rows
    PROVE  History(a, [st |-> st, rows |-> list], quiet, T)
BY DEF History, Trail

\* An object that shows the same has no history.
LEMMA NoHistory ==
    ASSUME NEW a \in HostServiceState, NEW st, st.from = a.from, \A f \in Shown : st[f] = a[f],
           NEW T, NEW quiet \in BOOLEAN, NEW list, list = <<>>
    PROVE  History(a, [st |-> st, rows |-> list], quiet, T)
<1>1. PICK w : w = [st |-> st, rows |-> list]
    OBVIOUS
<1>2. w.rows = <<>> /\ w.st = st
    BY <1>1
<1>3. History(a, w, quiet, T)
    BY <1>2, TrailStarts
<1> QED BY <1>1, <1>3

\* Nothing is reported of states that differ from B in what rows do not show.
LEMMA SilentTurn ==
    ASSUME Types, NEW e, IsLine(e), NEW B, Based(B, e), NEW states, Tracks(states),
           DOMAIN states = DOMAIN B,
           \A x \in DOMAIN B : /\ states[x].from = B[x].from
                               /\ \A f \in Shown : states[x][f] = B[x][f]
                               /\ states[x].lastKnown \in {B[x].lastKnown, minute},
           Turn(states, <<>>), UNCHANGED tpVars
    PROVE  Step(B, e) /\ \A x \in DOMAIN B : info'[x] = states[x]
<1>1. total \in [Objects -> Int]
    BY TypesAre
<1>2. Answer(states, <<>>) /\ place' = (IF aborted' THEN "done" ELSE "reading")
    BY DEF Turn
<1>3. /\ DOMAIN info' = DOMAIN states /\ Tracks(info')
      /\ \A o \in DOMAIN states : info'[o] = states[o]
      /\ \A o \in Objects : rows'[o] = <<>> /\ total'[o] = total[o]
      /\ total' \in [Objects -> Int] /\ aborted' \in BOOLEAN
    BY <1>1, <1>2, NothingIs
<1>4. PICK quiet \in BOOLEAN : quiet = Quiet(minute)
    BY QuietIs
<1>5. ASSUME NEW x \in DOMAIN B
      PROVE  /\ History(B[x], [st |-> info'[x], rows |-> rows'[x]], quiet, TimesOf(B[x], e))
             /\ info'[x].lastKnown \in {B[x].lastKnown, minute}
    <2>1. B[x] \in HostServiceState /\ x \in Objects
        BY DEF Based, Tracks
    <2>2. PICK a \in HostServiceState : a = B[x]
        BY <2>1
    <2>3. PICK st : st = info'[x]
        OBVIOUS
    <2>4. PICK list : list = rows'[x]
        OBVIOUS
    <2>5. st = states[x] /\ list = <<>>
        BY <1>3, <2>1, <2>3, <2>4
    <2>6. st.from = a.from /\ \A f \in Shown : st[f] = a[f]
        BY <2>2, <2>5
    <2>7. PICK T : T = TimesOf(B[x], e)
        OBVIOUS
    <2>8. History(a, [st |-> st, rows |-> list], quiet, T)
        BY <2>5, <2>6, NoHistory
    <2> QED BY <2>2, <2>3, <2>4, <2>5, <2>7, <2>8
<1>6. <<>> \in Seq(RowType)
    OBVIOUS
<1>7. \A x \in Objects : /\ rows'[x] \in Seq(RowType) /\ total'[x] = total[x] + Spent(rows'[x])
                         /\ x \notin DOMAIN B => rows'[x] = <<>>
    <2>1. ASSUME NEW x \in Objects
          PROVE  rows'[x] = <<>> /\ total'[x] = total[x] + Spent(rows'[x])
        <3>1. rows'[x] = <<>> /\ total'[x] = total[x] /\ total[x] \in Int
            BY <1>1, <1>3
        <3>2. Spent(rows'[x]) = 0
            BY <3>1, SpentNothing
        <3> QED BY <3>1, <3>2
    <2> QED BY <1>6, <2>1
<1>8. Reported(B, e)
    BY <1>3, <1>4, <1>5, <1>7 DEF Reported
<1> QED BY <1>2, <1>3, <1>8 DEF Step

\* A line about something else, or about an object that is filtered out, is a turn that
\* leaves all objects as they were.
LEMMA OtherIs ==
    ASSUME Types, ReadOther \/ ReadUnwanted
    PROVE  /\ \E e, B : Step(B, e) /\ Steady(e)
           /\ \A x \in DOMAIN info : info'[x].inPeriod = info[x].inPeriod
           /\ blacklist' \subseteq Unwanted /\ UNCHANGED <<periods, pending, heard>>
<1>1. PICK entry, e :
        /\ entry \in Entries /\ e = Now(entry) /\ Reads(e) /\ Turn(Settled(e), <<>>) /\ vague' = InDoubt(Null, e)
        /\ UNCHANGED <<periods, pending, heard, told, tpVars>>
        /\ blacklist' \subseteq blacklist \cup Unwanted
    <2>1. CASE ReadOther
        <3>1. PICK entry \in Entries :
                /\ Reads(Now(entry)) /\ Turn(Settled(Now(entry)), <<>>) /\ vague' = InDoubt(Null, Now(entry))
                /\ UNCHANGED <<periods, blacklist, pending, heard, told, tpVars>>
            BY <2>1 DEF ReadOther
        <3> QED BY <3>1
    <2>2. CASE ReadUnwanted
        <3>1. PICK entry \in Entries :
                /\ Reads(Now(entry)) /\ Turn(Settled(Now(entry)), <<>>) /\ vague' = InDoubt(Null, Now(entry))
                /\ UNCHANGED <<periods, pending, heard, told, tpVars>>
                /\ blacklist' = blacklist \cup Concerned(Now(entry))
                /\ Concerned(Now(entry)) \subseteq Unwanted
            BY <2>2 DEF ReadUnwanted
        <3> QED BY <3>1
    <2> QED BY <2>1, <2>2
<1>2. IsLine(e)
    BY <1>1, EntriesAre DEF IsLine
<1>3. PICK B : B = Settled(e)
    OBVIOUS
<1>4. /\ Based(B, e) /\ DOMAIN B = DOMAIN info
      /\ \A x \in DOMAIN info : B[x].services = info[x].services
    BY <1>2, <1>3, SettledBased
<1>5. Step(B, e) /\ \A x \in DOMAIN B : info'[x] = B[x]
    BY <1>1, <1>2, <1>3, <1>4, SilentTurn DEF Based
<1>6. DOMAIN info' = DOMAIN info
    BY <1>4, <1>5 DEF Step, Reported
<1>7. ASSUME NEW x \in DOMAIN info
      PROVE  /\ \A f \in {"state", "hostDown", "inDowntime", "inHostDowntime", "flapping", "services"} :
                    info'[x][f] = info[x][f]
             /\ info'[x].inPeriod = info[x].inPeriod
             /\ info'[x].hasVanished = (info[x].hasVanished \/ Vanishes(x, e))
    BY <1>4, <1>5 DEF Based, Fields
<1>8. Steady(e)
    BY <1>1, <1>6, <1>7 DEF Steady
<1>9. blacklist \subseteq Unwanted
    BY DEF Types, TypeOK
<1> QED BY <1>1, <1>5, <1>7, <1>8, <1>9

\* The rows of a turn are those of the works.
LEMMA WorkingTurn ==
    ASSUME Types, NEW e, IsLine(e), NEW B, Based(B, e), NEW W, DOMAIN W \subseteq DOMAIN B,
           \A x \in DOMAIN W : /\ IsWork(W[x]) /\ W[x].st.lastKnown = B[x].lastKnown
                               /\ History(B[x], W[x], Quiet(minute), TimesOf(B[x], e)),
           Turn(B, W), UNCHANGED tpVars
    PROVE  /\ Step(B, e) /\ \A x \in DOMAIN W : info'[x] = W[x].st
           /\ \A x \in DOMAIN B : x \notin DOMAIN W => info'[x] = B[x]
<1>1. total \in [Objects -> Int]
    BY TypesAre
<1>2. Answer(B, W) /\ place' = (IF aborted' THEN "done" ELSE "reading")
    BY DEF Turn
<1>3. Tracks(B)
    BY DEF Based
<1>4. \A x \in DOMAIN W : IsWork(W[x])
    OBVIOUS
<1>5. /\ DOMAIN info' = DOMAIN B /\ Tracks(info')
      /\ \A o \in DOMAIN W : info'[o] = W[o].st /\ rows'[o] = W[o].rows
      /\ \A o \in DOMAIN B : o \notin DOMAIN W => info'[o] = B[o]
      /\ \A o \in Objects : o \notin DOMAIN W => rows'[o] = <<>>
      /\ \A o \in Objects : total'[o] = total[o] + Spent(rows'[o]) /\ rows'[o] \in Seq(RowType)
      /\ total' \in [Objects -> Int] /\ aborted' \in BOOLEAN
    BY <1>1, <1>2, <1>3, <1>4, AnswerIs
<1>6. PICK quiet \in BOOLEAN : quiet = Quiet(minute)
    BY QuietIs
<1>7. ASSUME NEW x \in DOMAIN B
      PROVE  /\ History(B[x], [st |-> info'[x], rows |-> rows'[x]], quiet, TimesOf(B[x], e))
             /\ info'[x].lastKnown \in {B[x].lastKnown, minute}
    <2>1. B[x] \in HostServiceState /\ x \in Objects
        BY <1>3 DEF Tracks
    <2>2. PICK a \in HostServiceState : a = B[x]
        BY <2>1
    <2>3. PICK st : st = info'[x]
        OBVIOUS
    <2>4. PICK list : list = rows'[x]
        OBVIOUS
    <2>5. PICK T : T = TimesOf(B[x], e)
        OBVIOUS
    <2>6. CASE x \in DOMAIN W
        <3>1. PICK w : w = W[x]
            OBVIOUS
        <3>2. st = w.st /\ list = w.rows /\ w.st.lastKnown = a.lastKnown /\ History(a, w, quiet, T)
            BY <1>5, <1>6, <2>2, <2>3, <2>4, <2>5, <2>6, <3>1
        <3>3. History(a, [st |-> st, rows |-> list], quiet, T)
            BY <3>2, HistoryOf
        <3> QED BY <2>2, <2>3, <2>4, <2>5, <3>2, <3>3
    <2>7. CASE x \notin DOMAIN W
        <3>1. st = a /\ list = <<>>
            BY <1>5, <2>1, <2>2, <2>3, <2>4, <2>7
        <3>2. History(a, [st |-> st, rows |-> list], quiet, T)
            BY <3>1, NoHistory
        <3> QED BY <2>2, <2>3, <2>4, <2>5, <3>1, <3>2
    <2> QED BY <2>6, <2>7
<1>8. \A x \in Objects : x \notin DOMAIN B => rows'[x] = <<>>
    BY <1>5
<1>9. Reported(B, e)
    BY <1>5, <1>6, <1>7, <1>8 DEF Reported
<1> QED BY <1>2, <1>5, <1>9 DEF Step

\* So is the line that announces the initial states.
LEMMA InitialStatesIs ==
    ASSUME Types, ReadInitialStates
    PROVE  /\ \E e, B : Step(B, e) /\ Steady(e)
           /\ \A x \in DOMAIN info : info'[x].inPeriod = info[x].inPeriod
           /\ UNCHANGED <<periods, blacklist, pending, heard>>
<1>1. PICK entry, e :
        /\ entry \in Entries /\ e = Now(entry) /\ Reads(e) /\ vague' = InDoubt(Null, e)
        /\ Turn([o \in DOMAIN Settled(e) |->
                    IF Settled(e)[o].hasVanished THEN Settled(e)[o]
                    ELSE [Settled(e)[o] EXCEPT !.lastKnown = e.time, !.mayNoLongerExist = TRUE]], <<>>)
        /\ UNCHANGED <<periods, blacklist, pending, heard, told, tpVars>>
    BY DEF ReadInitialStates
<1>2. IsLine(e)
    BY <1>1, EntriesAre DEF IsLine
<1>3. PICK B : B = Settled(e)
    OBVIOUS
<1>4. /\ Based(B, e) /\ DOMAIN B = DOMAIN info
      /\ \A x \in DOMAIN info : B[x].services = info[x].services
    BY <1>2, <1>3, SettledBased
<1>5. PICK S : S = [o \in DOMAIN B |-> IF B[o].hasVanished THEN B[o]
                                       ELSE [B[o] EXCEPT !.lastKnown = e.time, !.mayNoLongerExist = TRUE]]
    OBVIOUS
<1>6. Turn(S, <<>>)
    BY <1>1, <1>3, <1>5
<1>7. e.time = minute /\ minute \in Nat
    BY <1>2, TypesAre DEF IsLine
<1>8. ASSUME NEW x \in DOMAIN B
      PROVE  /\ S[x] \in HostServiceState /\ S[x].lastKnown \in {B[x].lastKnown, minute}
             /\ \A f \in Fields \ {"lastKnown", "mayNoLongerExist"} : S[x][f] = B[x][f]
    <2>1. PICK a \in HostServiceState : a = B[x]
        BY <1>4 DEF Based, Tracks
    <2>2. PICK b : b = S[x]
        OBVIOUS
    <2>3. CASE a.hasVanished
        <3>1. b = a
            BY <1>5, <2>1, <2>2, <2>3
        <3> QED BY <2>1, <2>2, <3>1
    <2>4. CASE ~a.hasVanished
        <3>1. b = [a EXCEPT !.lastKnown = minute, !.mayNoLongerExist = TRUE]
            BY <1>5, <1>7, <2>1, <2>2, <2>4
        <3>2. DOMAIN a = Fields
            BY FieldsAre
        <3>3. b \in HostServiceState
            BY <1>7, <3>1 DEF HostServiceState
        <3>4. b.lastKnown = minute /\ \A f \in Fields \ {"lastKnown", "mayNoLongerExist"} : b[f] = a[f]
            BY <3>1, <3>2 DEF Fields
        <3> QED BY <2>1, <2>2, <3>3, <3>4
    <2> QED BY <2>3, <2>4
<1>9. DOMAIN S = DOMAIN B
    BY <1>5
<1>10. Tracks(S)
    BY <1>4, <1>8, <1>9 DEF Based, Tracks
<1>11. \A x \in DOMAIN B : /\ S[x].from = B[x].from /\ \A f \in Shown : S[x][f] = B[x][f]
                           /\ S[x].lastKnown \in {B[x].lastKnown, minute}
    BY <1>8 DEF Fields, Shown
<1>12. Step(B, e) /\ \A x \in DOMAIN B : info'[x] = S[x]
    <2>1. UNCHANGED tpVars /\ Based(B, e)
        BY <1>1, <1>4
    <2> QED BY <1>2, <1>6, <1>9, <1>10, <1>11, <2>1, SilentTurn
<1>13. DOMAIN info' = DOMAIN info
    BY <1>4, <1>12 DEF Step, Reported
<1>14. ASSUME NEW x \in DOMAIN info
       PROVE  /\ \A f \in {"state", "hostDown", "inDowntime", "inHostDowntime", "flapping", "services"} :
                    info'[x][f] = info[x][f]
              /\ info'[x].inPeriod = info[x].inPeriod
              /\ info'[x].hasVanished = (info[x].hasVanished \/ Vanishes(x, e))
    <2>1. \A f \in Fields \ {"lastKnown", "mayNoLongerExist"} : info'[x][f] = B[x][f]
        BY <1>4, <1>8, <1>12
    <2>2. /\ \A f \in Fields \ {"from", "until", "hasVanished", "services"} : B[x][f] = info[x][f]
          /\ B[x].hasVanished = (info[x].hasVanished \/ Vanishes(x, e))
          /\ B[x].services = info[x].services
        BY <1>4 DEF Based
    <2> QED BY <2>1, <2>2 DEF Fields
<1>15. Steady(e)
    BY <1>1, <1>13, <1>14 DEF Steady
<1> QED BY <1>1, <1>12, <1>14, <1>15

\* What an entry leaves alone of an object that had not vanished.
LEMMA TransitionUpdates ==
    ASSUME NEW a \in HostServiceState, NEW st, NEW changed, NEW o, NEW e,
           e.type = "TIMEPERIOD_TRANSITION", Updated(a, st, changed, o, e)
    PROVE  /\ \A f \in {"state", "hostDown", "inDowntime", "inHostDowntime", "flapping", "services",
                        "hasVanished", "lastKnown"} : st[f] = a[f]
           /\ \A kind \in Kinds : st.inPeriod[kind] =
                IF PeriodOf[kind][o] = e.period THEN e.to ELSE a.inPeriod[kind]
<1>1. ~Back(a, e)
    BY DEF Back
<1>2. a.inDowntime \in BOOLEAN /\ a.flapping \in BOOLEAN /\ a.hasVanished \in BOOLEAN
    BY FieldsAre
<1> QED BY <1>1, <1>2 DEF Updated, StateWas, ServiceStateTypes, HostStateTypes

\* A transition switches the periods of the objects, and what is known of it.
LEMMA TransitionIsRead ==
    ASSUME Types, ReadTransition
    PROVE  \E t \in pending :
            /\ \E e, B : Step(B, e) /\ Steady(e)
            /\ \A x \in DOMAIN info, kind \in Kinds : info'[x].inPeriod[kind] =
                    IF PeriodOf[kind][x] = t.period THEN t.to ELSE info[x].inPeriod[kind]
            /\ DOMAIN periods' = DOMAIN periods \cup {t.period}
            /\ \A p \in DOMAIN periods' : periods'[p] = IF p = t.period THEN t.to ELSE periods[p]
            /\ pending' = pending \ {t} /\ heard' = heard \cup {t.period} /\ UNCHANGED blacklist
<1>1. PICK t, line, e :
        /\ t \in pending /\ line = [text |-> "TIMEPERIOD TRANSITION", fields |-> <<>>]
        /\ e = With(Now(Entry(line)), [period |-> t.period, to |-> t.to])
        /\ Reads(e)
        /\ periods' = [p \in DOMAIN periods \cup {t.period} |->
                        IF p = t.period THEN t.to ELSE periods[p]]
        /\ Turn(Settled(e), [o \in DOMAIN Settled(e) |->
                                UpdateState(Settled(e)[o], Quiet(e.time), o, e)])
        /\ pending' = pending \ {t} /\ heard' = heard \cup {t.period}
        /\ vague' = InDoubt(Null, e)
        /\ UNCHANGED <<blacklist, told, tpVars>>
    BY DEF ReadTransition
<1>2. PICK entry : entry = Entry(line)
    OBVIOUS
<1>3. DOMAIN entry = EntryFields /\ entry.state \in 0 .. 4 /\ entry.type = "TIMEPERIOD_TRANSITION"
    BY <1>1, <1>2, EntryIs, TransitionType
<1>4. PICK now : now = Now(entry)
    OBVIOUS
<1>5. /\ now.time = minute /\ DOMAIN now = EntryFields \cup {"time"}
      /\ \A f \in EntryFields : now[f] = entry[f]
    BY <1>3, <1>4, NowIs
<1>6. e = With(now, [period |-> t.period, to |-> t.to])
    BY <1>1, <1>2, <1>4
<1>7. /\ e.period = t.period /\ e.to = t.to
      /\ \A f \in EntryFields \cup {"time"} : e[f] = now[f]
    BY <1>5, <1>6, TransitionIs
<1>8. e.time = minute /\ e.state \in 0 .. 4 /\ e.type = "TIMEPERIOD_TRANSITION"
    BY <1>3, <1>5, <1>7 DEF EntryFields
<1>9. IsLine(e)
    BY <1>1, <1>8 DEF IsLine
<1>10. PICK B : B = Settled(e)
    OBVIOUS
<1>11. /\ Based(B, e) /\ DOMAIN B = DOMAIN info
       /\ \A x \in DOMAIN info : B[x].services = info[x].services
    BY <1>9, <1>10, SettledBased
<1>12. PICK quiet \in BOOLEAN : quiet = Quiet(e.time) /\ quiet = Quiet(minute)
    BY <1>9, QuietIs
<1>13. PICK W : W = [o \in DOMAIN B |-> UpdateState(B[o], quiet, o, e)]
    OBVIOUS
<1>14. DOMAIN W = DOMAIN B /\ Turn(B, W)
    BY <1>1, <1>10, <1>12, <1>13
<1>15. ASSUME NEW x \in DOMAIN B
       PROVE  /\ IsWork(W[x]) /\ History(B[x], W[x], quiet, TimesOf(B[x], e))
              /\ \A f \in {"state", "hostDown", "inDowntime", "inHostDowntime", "flapping", "services",
                        "hasVanished", "lastKnown"} : W[x].st[f] = B[x][f]
              /\ \A kind \in Kinds : W[x].st.inPeriod[kind] =
                    IF PeriodOf[kind][x] = t.period THEN t.to ELSE B[x].inPeriod[kind]
    <2>1. PICK a \in HostServiceState : a = B[x]
        BY <1>11 DEF Based, Tracks
    <2>2. x \in Hosts \/ x \in Services
        BY <1>11, ObjectsAre DEF Based, Tracks
    <2>3. PICK w : w = W[x]
        OBVIOUS
    <2>4. w = UpdateState(a, quiet, x, e)
        BY <1>13, <2>1, <2>3
    <2>5. e.type \in UpdateTypes /\ e.time \in Nat /\ e.to \in 0 .. 1
        BY <1>1, <1>7, <1>8, TypesAre DEF UpdateTypes, Types
    <2>6. PeriodsNow(x) \in [Kinds -> 0 .. 1]
        BY TypesAre
    <2>7. IsWork(w) /\ History(a, w, quiet, TimesOf(a, e)) /\ Updated(a, w.st, w.changed, x, e)
        BY <1>8, <2>2, <2>4, <2>5, <2>6, UpdateIs
    <2>8. PICK st : st = w.st
        OBVIOUS
    <2>9. PICK changed : changed = w.changed
        OBVIOUS
    <2>10. /\ \A f \in {"state", "hostDown", "inDowntime", "inHostDowntime", "flapping", "services",
                        "hasVanished", "lastKnown"} : st[f] = a[f]
           /\ \A kind \in Kinds : st.inPeriod[kind] =
                IF PeriodOf[kind][x] = e.period THEN e.to ELSE a.inPeriod[kind]
        BY <1>8, <2>7, <2>8, <2>9, TransitionUpdates
    <2> QED BY <1>7, <2>1, <2>3, <2>7, <2>8, <2>10
<1>16. \A x \in DOMAIN W : /\ IsWork(W[x]) /\ W[x].st.lastKnown = B[x].lastKnown
                           /\ History(B[x], W[x], Quiet(minute), TimesOf(B[x], e))
    BY <1>12, <1>14, <1>15
<1>17. UNCHANGED tpVars /\ DOMAIN W \subseteq DOMAIN B
    BY <1>1, <1>14
<1>18. Step(B, e) /\ \A x \in DOMAIN W : info'[x] = W[x].st
    BY <1>9, <1>11, <1>14, <1>16, <1>17, WorkingTurn
<1>19. DOMAIN info' = DOMAIN info
    BY <1>11, <1>18 DEF Step, Reported
<1>20. ASSUME NEW x \in DOMAIN info
       PROVE  /\ \A f \in {"state", "hostDown", "inDowntime", "inHostDowntime", "flapping", "services"} :
                    info'[x][f] = info[x][f]
              /\ info'[x].hasVanished = (info[x].hasVanished \/ Vanishes(x, e))
              /\ B[x].inPeriod = info[x].inPeriod
    <2>1. \A f \in {"state", "hostDown", "inDowntime", "inHostDowntime", "flapping", "services",
                    "hasVanished", "lastKnown"} : info'[x][f] = B[x][f]
        BY <1>11, <1>14, <1>15, <1>18
    <2>2. /\ \A f \in Fields \ {"from", "until", "hasVanished", "services"} : B[x][f] = info[x][f]
          /\ B[x].hasVanished = (info[x].hasVanished \/ Vanishes(x, e))
          /\ B[x].services = info[x].services
        BY <1>11 DEF Based
    <2> QED BY <2>1, <2>2 DEF Fields
<1>21. Steady(e)
    BY <1>1, <1>19, <1>20 DEF Steady
<1>22. \A x \in DOMAIN info, kind \in Kinds : info'[x].inPeriod[kind] =
            IF PeriodOf[kind][x] = t.period THEN t.to ELSE info[x].inPeriod[kind]
    BY <1>11, <1>14, <1>15, <1>18, <1>20
<1>23. /\ DOMAIN periods' = DOMAIN periods \cup {t.period}
       /\ \A p \in DOMAIN periods' : periods'[p] = IF p = t.period THEN t.to ELSE periods[p]
    BY <1>1
<1> QED BY <1>1, <1>18, <1>21, <1>22, <1>23

\* An entry about the object o updates it and the objects F, of those it found.
Spoken(o, e, B, F) ==
    /\ o \in Concerned(e) /\ o \in Objects /\ e.type \in ObjectTypes
    /\ DOMAIN B = DOMAIN info \cup {o} /\ Listed(B)
    /\ \E changed \in BOOLEAN :
        /\ Updated(B[o], info'[o], changed, o, e)
        /\ F = IF changed /\ e.type \in {"ALERT_HOST", "STATE_HOST", "DOWNTIME_ALERT_HOST"}
               THEN B[o].services ELSE {}
    /\ F \subseteq DOMAIN B \cap Services
    /\ \A x \in F : x # o => \E changed \in BOOLEAN : Updated(B[x], info'[x], changed, x, e)
    /\ \A x \in DOMAIN B : x \notin F \cup {o} => info'[x] = B[x]
    /\ told' = Told(o, e) /\ vague' = InDoubt(o, e)

\* An entry concerns a host or a service, as its type says.
LEMMA ConcernedIs ==
    ASSUME NEW e, NEW o \in Concerned(e)
    PROVE  /\ o \in Objects
           /\ \/ e.type \in ServiceTypes /\ o \in Services /\ e.type \notin HostTypes
              \/ e.type \in HostTypes /\ o \in Hosts /\ e.type \notin ServiceTypes
<1>1. CASE e.type \in ServiceTypes
    <2>1. e.type \notin HostTypes
        BY <1>1 DEF ServiceTypes, HostTypes
    <2>2. Concerned(e) = ({e.svc} \cap Services) \ Gone
        BY <1>1, <2>1 DEF Concerned
    <2> QED BY <1>1, <2>1, <2>2 DEF Objects
<1>2. CASE e.type \in HostTypes
    <2>1. e.type \notin ServiceTypes
        BY <1>2 DEF ServiceTypes, HostTypes
    <2>2. Concerned(e) = ({e.host} \cap Hosts) \ Gone
        BY <1>2, <2>1 DEF Concerned
    <2> QED BY <1>2, <2>1, <2>2 DEF Objects
<1>3. CASE e.type \notin ServiceTypes /\ e.type \notin HostTypes
    <2>1. Concerned(e) = {}
        BY <1>3 DEF Concerned
    <2> QED BY <2>1
<1> QED BY <1>1, <1>2, <1>3

\* An entry about an object updates it, and those of its services it concerns.
LEMMA ObjectIsRead ==
    ASSUME Types, Listed(info), ReadObject
    PROVE  /\ \E o, e, B, F : Step(B, e) /\ Spoken(o, e, B, F)
           /\ UNCHANGED <<periods, blacklist, pending, heard>>
<1>1. PICK entry, e, o :
        /\ entry \in Entries /\ e = Now(entry) /\ o \in Concerned(e)
        /\ Reads(e) /\ ObjectEntry(o, e)
        /\ told' = Told(o, e) /\ vague' = InDoubt(o, e)
        /\ UNCHANGED <<periods, blacklist, pending, heard, tpVars>>
    BY DEF ReadObject
<1>2. e.time = minute /\ e.state \in 0 .. 4 /\ IsLine(e)
    BY <1>1, EntriesAre DEF IsLine
<1>3. /\ o \in Objects /\ e.type \in ObjectTypes
      /\ e.type \in {"ALERT_HOST", "STATE_HOST", "DOWNTIME_ALERT_HOST"} => o \in Hosts
    BY <1>1, ConcernedIs DEF ObjectTypes, ServiceTypes, HostTypes
<1>4. PICK B : B = Tracked(o, e.time, Quiet(e.time), Settled(e))
    OBVIOUS
<1>5. Based(B, e) /\ DOMAIN B = DOMAIN info \cup {o} /\ Listed(B)
    BY <1>2, <1>3, <1>4, TrackedBased
<1>6. PICK quiet \in BOOLEAN : quiet = Quiet(e.time) /\ quiet = Quiet(minute)
    BY <1>2, QuietIs
<1>7. ASSUME NEW x \in DOMAIN B, NEW w, w = UpdateState(B[x], quiet, x, e)
      PROVE  /\ IsWork(w) /\ History(B[x], w, quiet, TimesOf(B[x], e))
             /\ Updated(B[x], w.st, w.changed, x, e) /\ w.st.lastKnown = B[x].lastKnown
             /\ w.changed \in BOOLEAN
    <2>1. PICK a \in HostServiceState : a = B[x]
        BY <1>5 DEF Based, Tracks
    <2>2. x \in Hosts \/ x \in Services
        BY <1>5, ObjectsAre DEF Based, Tracks
    <2>3. e.type \in UpdateTypes /\ e.time \in Nat /\ e.type # "TIMEPERIOD_TRANSITION"
        BY <1>2, <1>3, TypesAre DEF UpdateTypes, ObjectTypes, ServiceTypes, HostTypes
    <2>4. PeriodsNow(x) \in [Kinds -> 0 .. 1]
        BY TypesAre
    <2>5. w = UpdateState(a, quiet, x, e)
        BY <1>7, <2>1
    <2>6. IsWork(w) /\ History(a, w, quiet, TimesOf(a, e)) /\ Updated(a, w.st, w.changed, x, e)
        BY <1>2, <2>2, <2>3, <2>4, <2>5, UpdateIs
    <2>7. w.st.lastKnown = a.lastKnown
        BY <2>6 DEF Updated
    <2>8. w.changed \in BOOLEAN
        BY <2>6 DEF IsWork
    <2> QED BY <2>1, <2>6, <2>7, <2>8
<1>8. PICK own : own = UpdateState(B[o], quiet, o, e)
    OBVIOUS
<1>9. /\ IsWork(own) /\ own.changed \in BOOLEAN /\ Updated(B[o], own.st, own.changed, o, e)
    BY <1>5, <1>7, <1>8
<1>10. PICK F : F = IF own.changed /\ e.type \in {"ALERT_HOST", "STATE_HOST", "DOWNTIME_ALERT_HOST"}
                    THEN B[o].services ELSE {}
    OBVIOUS
<1>11. PICK W : W = [s \in F \cup {o} |-> IF s = o THEN own ELSE UpdateState(B[s], quiet, s, e)]
    OBVIOUS
<1>12. Turn(B, W)
    BY <1>1, <1>4, <1>6, <1>8, <1>10, <1>11 DEF ObjectEntry
<1>13. F \subseteq DOMAIN B \cap Services
    <2>1. CASE F = {}
        BY <2>1
    <2>2. CASE F # {}
        <3>1. F = B[o].services /\ o \in Hosts
            BY <1>3, <1>10, <2>2
        <3>2. F = ServicesOf(o, B)
            BY <1>5, <3>1 DEF Listed
        <3> QED BY <3>2 DEF ServicesOf
    <2> QED BY <2>1, <2>2
<1>14. DOMAIN W = F \cup {o} /\ DOMAIN W \subseteq DOMAIN B
    BY <1>5, <1>11, <1>13
<1>15. \A x \in DOMAIN W : W[x] = UpdateState(B[x], quiet, x, e)
    BY <1>8, <1>11
<1>16. ASSUME NEW x \in DOMAIN W
       PROVE  /\ IsWork(W[x]) /\ W[x].st.lastKnown = B[x].lastKnown
              /\ History(B[x], W[x], quiet, TimesOf(B[x], e))
              /\ Updated(B[x], W[x].st, W[x].changed, x, e) /\ W[x].changed \in BOOLEAN
    <2>1. PICK w : w = W[x]
        OBVIOUS
    <2>2. w = UpdateState(B[x], quiet, x, e) /\ x \in DOMAIN B
        BY <1>14, <1>15, <2>1
    <2>3. /\ IsWork(w) /\ History(B[x], w, quiet, TimesOf(B[x], e))
          /\ Updated(B[x], w.st, w.changed, x, e) /\ w.st.lastKnown = B[x].lastKnown
          /\ w.changed \in BOOLEAN
        BY <1>7, <2>2
    <2> QED BY <2>1, <2>3
<1>17. \A x \in DOMAIN W : /\ IsWork(W[x]) /\ W[x].st.lastKnown = B[x].lastKnown
                           /\ History(B[x], W[x], Quiet(minute), TimesOf(B[x], e))
    BY <1>6, <1>16
<1>18. UNCHANGED tpVars /\ DOMAIN W \subseteq DOMAIN B /\ Based(B, e)
    BY <1>1, <1>5, <1>14
<1>19. /\ Step(B, e) /\ \A x \in DOMAIN W : info'[x] = W[x].st
       /\ \A x \in DOMAIN B : x \notin DOMAIN W => info'[x] = B[x]
    BY <1>2, <1>12, <1>17, <1>18, WorkingTurn
<1>20. Spoken(o, e, B, F)
    <2>1. W[o] = own /\ info'[o] = own.st
        BY <1>11, <1>14, <1>19
    <2>2. \E changed \in BOOLEAN :
            /\ Updated(B[o], info'[o], changed, o, e)
            /\ F = IF changed /\ e.type \in {"ALERT_HOST", "STATE_HOST", "DOWNTIME_ALERT_HOST"}
                   THEN B[o].services ELSE {}
        BY <1>9, <1>10, <2>1
    <2>3. ASSUME NEW x \in F PROVE \E changed \in BOOLEAN : Updated(B[x], info'[x], changed, x, e)
        <3>1. x \in DOMAIN W
            BY <1>14
        <3>2. info'[x] = W[x].st
            BY <1>19, <3>1
        <3>3. Updated(B[x], W[x].st, W[x].changed, x, e) /\ W[x].changed \in BOOLEAN
            BY <1>16, <3>1
        <3> QED BY <3>2, <3>3
    <2> QED BY <1>1, <1>3, <1>5, <1>13, <1>14, <1>19, <2>2, <2>3 DEF Spoken
<1> QED BY <1>1, <1>19, <1>20

-----------------------------------------------------------------------------
(* The final reports                                                       *)

\* The ends of the last rows of an object.
EndsOf(st) == {Until - 1} \cup IF st.mayNoLongerExist THEN {st.lastKnown} ELSE {}

\* What the rows that are made last leave alone.
Left == {"inPeriod", "services", "mayNoLongerExist", "lastKnown", "hasVanished"}

\* Work with another end.
EndsAt(w, time) == [w EXCEPT !.st.until = time]

\* A row that ends at a time is the history up to it.
LEMMA UntilIs ==
    ASSUME NEW a \in HostServiceState, NEW T, NEW w, IsWork(w), Trail(a, w, T), NEW time \in Nat,
           time \in T, NEW v, v = EndsAt(w, time)
    PROVE  IsWork(v) /\ Trail(a, v, T) /\ v.st.until = time
           /\ \A f \in Fields \ {"until"} : v.st[f] = w.st[f]
<1>1. w.st \in HostServiceState /\ DOMAIN w.st = Fields
    BY FieldsAre DEF IsWork
<1>2. PICK new : new = [w.st EXCEPT !.until = time]
    OBVIOUS
<1>3. new \in HostServiceState /\ new.until = time /\ \A f \in Fields \ {"until"} : new[f] = w.st[f]
    BY <1>1, <1>2 DEF HostServiceState, Fields
<1>4. /\ DOMAIN v = {"st", "rows", "changed"} /\ v.st = new
      /\ v.rows = w.rows /\ v.changed = w.changed
    BY <1>2 DEF IsWork, EndsAt
<1>5. IsWork(v)
    BY <1>3, <1>4 DEF IsWork
<1>6. v.st.from = w.st.from /\ \A f \in Shown : v.st[f] = w.st[f]
    BY <1>3, <1>4 DEF Fields, Shown
<1>7. Trail(a, v, T)
    BY <1>4, <1>6 DEF Trail
<1> QED BY <1>3, <1>4, <1>5, <1>7

\* The final reports cover the time up to the last trace, and up to the range's end.
LEMMA FinalIs ==
    ASSUME NEW a \in HostServiceState, NEW v, v = Final(a)
    PROVE  /\ IsWork(v) /\ Trail(a, v, EndsOf(a)) /\ v.st.from = Until - 1
           /\ \A f \in Left : v.st[f] = a[f]
<1>1. PICK T : T = EndsOf(a)
    OBVIOUS
<1>2. PICK work : work = Work(a)
    OBVIOUS
<1>3. /\ IsWork(work) /\ work.st = a /\ work.rows = <<>>
    BY <1>2, WorkIs
<1>4. a.lastKnown \in Nat /\ a.from \in Nat /\ a.mayNoLongerExist \in BOOLEAN
    BY FieldsAre
<1>5. PICK end \in Nat : end = Until - 1 /\ end \in T
    BY <1>1, ObjectsAre DEF EndsOf
<1>6. Trail(a, work, T)
    <2>1. FALSE \in BOOLEAN /\ \A f \in Shown : work.st[f] = a[f]
        BY <1>3
    <2>2. PICK quiet \in BOOLEAN : quiet = FALSE
        OBVIOUS
    <2>3. History(a, work, quiet, T)
        BY <1>3, <2>1, TrailStarts
    <2> QED BY <2>2, <2>3 DEF History
<1>7. PICK w : w = IF a.mayNoLongerExist
                   THEN [Process(EndsAt(work, a.lastKnown)) EXCEPT !.st.state = -1]
                   ELSE work
    OBVIOUS
<1>8. IsWork(w) /\ Trail(a, w, T) /\ \A f \in Left : w.st[f] = a[f]
    <2>1. CASE ~a.mayNoLongerExist
        <3>1. w = work
            BY <1>7, <2>1
        <3> QED BY <1>3, <1>6, <3>1
    <2>2. CASE a.mayNoLongerExist
        <3>1. PICK u : u = EndsAt(work, a.lastKnown)
            OBVIOUS
        <3>2. a.lastKnown \in T
            BY <1>1, <2>2 DEF EndsOf
        <3>3. /\ IsWork(u) /\ Trail(a, u, T) /\ u.st.until = a.lastKnown
              /\ \A f \in Fields \ {"until"} : u.st[f] = work.st[f]
            BY <1>3, <1>4, <1>6, <3>1, <3>2, UntilIs
        <3>4. PICK p : p = Process(u)
            OBVIOUS
        <3>5. /\ IsWork(p) /\ \A f \in Fields \ {"from"} : p.st[f] = u.st[f]
              /\ p.st.from = u.st.until
            BY <3>3, <3>4, ProcessIs
        <3>6. Trail(a, p, T) /\ p.rows # <<>>
            BY <3>2, <3>3, <3>4, TrailProcess
        <3>7. w = [p EXCEPT !.st.state = -1]
            BY <1>7, <2>2, <3>1, <3>4
        <3>8. p.st \in HostServiceState /\ DOMAIN p.st = Fields
            BY <3>5, FieldsAre DEF IsWork
        <3>9. PICK new : new = [p.st EXCEPT !.state = -1]
            OBVIOUS
        <3>10. new \in HostServiceState
            <4>1. PICK minus \in -1 .. 4 : minus = -1
                OBVIOUS
            <4> QED BY <3>8, <3>9, <4>1 DEF HostServiceState
        <3>11. \A f \in Fields \ {"state"} : new[f] = p.st[f]
            BY <3>8, <3>9 DEF Fields
        <3>12. /\ DOMAIN w = {"st", "rows", "changed"} /\ w.st = new
               /\ w.rows = p.rows /\ w.changed = p.changed
            BY <3>5, <3>7, <3>9 DEF IsWork
        <3>13. IsWork(w)
            BY <3>5, <3>10, <3>12 DEF IsWork
        <3>14. w.st.from = p.st.from
            BY <3>11, <3>12 DEF Fields
        <3>15. Trail(a, w, T)
            BY <3>6, <3>12, <3>14 DEF Trail
        <3>16. \A f \in Left : w.st[f] = a[f]
            BY <1>3, <3>3, <3>5, <3>11, <3>12 DEF Fields, Left
        <3> QED BY <3>13, <3>15, <3>16
    <2> QED BY <1>4, <2>1, <2>2
<1>9. PICK u : u = EndsAt(w, end)
    OBVIOUS
<1>10. /\ IsWork(u) /\ Trail(a, u, T) /\ u.st.until = end
       /\ \A f \in Fields \ {"until"} : u.st[f] = w.st[f]
    BY <1>5, <1>8, <1>9, UntilIs
<1>11. v = Process(u)
    <2>1. w = IF a.mayNoLongerExist
              THEN [Process(EndsAt(Work(a), a.lastKnown)) EXCEPT !.st.state = -1]
              ELSE Work(a)
        BY <1>2, <1>7
    <2>2. v = Process(EndsAt(w, Until - 1))
        BY <2>1 DEF Final, EndsAt
    <2> QED BY <1>5, <1>9, <2>2
<1>12. /\ IsWork(v) /\ v.st.from = end /\ \A f \in Fields \ {"from"} : v.st[f] = u.st[f]
    BY <1>10, <1>11, ProcessIs
<1>13. Trail(a, v, T)
    BY <1>5, <1>10, <1>11, TrailProcess
<1>14. \A f \in Left : v.st[f] = a[f]
    BY <1>8, <1>10, <1>12 DEF Fields, Left
<1> QED BY <1>1, <1>5, <1>12, <1>13, <1>14

\* The last rows of every object.
Finished ==
    /\ place = "reading" /\ place' = "done" /\ DOMAIN info' = DOMAIN info /\ Tracks(info')
    /\ \A x \in DOMAIN info :
        /\ Trail(info[x], [st |-> info'[x], rows |-> rows'[x]], EndsOf(info[x]))
        /\ info'[x].from = Until - 1 /\ \A f \in Left : info'[x][f] = info[x][f]
    /\ \A x \in Objects :
        /\ rows'[x] \in Seq(RowType) /\ total'[x] = total[x] + Spent(rows'[x])
        /\ x \notin DOMAIN info => rows'[x] = <<>>
    /\ total' \in [Objects -> Int] /\ aborted' \in BOOLEAN
    /\ UNCHANGED <<read, periods, blacklist, onlyUpdate, inInitial, pending, heard, told,
                   vague, tpVars>>

\* A trail is of the state and the rows.
LEMMA TrailOf ==
    ASSUME NEW a, NEW w, NEW T, Trail(a, w, T), NEW st, st = w.st, NEW list, list = w.rows
    PROVE  Trail(a, [st |-> st, rows |-> list], T)
BY DEF Trail

\* finish() makes the final reports of all objects.
LEMMA FinishIs ==
    ASSUME Types, Finish
    PROVE  Finished
<1>1. PICK W : W = [o \in DOMAIN info |-> Final(info[o])]
    OBVIOUS
<1>2. Answer(info, W)
    BY <1>1 DEF Finish
<1>3. Tracks(info) /\ total \in [Objects -> Int]
    BY TypesAre
<1>4. ASSUME NEW x \in DOMAIN info
      PROVE  /\ IsWork(W[x]) /\ Trail(info[x], W[x], EndsOf(info[x])) /\ W[x].st.from = Until - 1
             /\ \A f \in Left : W[x].st[f] = info[x][f]
    <2>1. PICK a \in HostServiceState : a = info[x]
        BY <1>3 DEF Tracks
    <2>2. PICK v : v = W[x]
        OBVIOUS
    <2>3. v = Final(a)
        BY <1>1, <2>1, <2>2
    <2>4. /\ IsWork(v) /\ Trail(a, v, EndsOf(a)) /\ v.st.from = Until - 1
          /\ \A f \in Left : v.st[f] = a[f]
        BY <2>3, FinalIs
    <2> QED BY <2>1, <2>2, <2>4
<1>5. DOMAIN W = DOMAIN info /\ \A o \in DOMAIN W : IsWork(W[o])
    BY <1>1, <1>4
<1>6. DOMAIN W \subseteq DOMAIN info
    BY <1>5
<1>7. /\ DOMAIN info' = DOMAIN info /\ Tracks(info')
      /\ \A o \in DOMAIN W : info'[o] = W[o].st /\ rows'[o] = W[o].rows
      /\ \A o \in Objects : o \notin DOMAIN W => rows'[o] = <<>>
      /\ \A o \in Objects : total'[o] = total[o] + Spent(rows'[o]) /\ rows'[o] \in Seq(RowType)
      /\ total' \in [Objects -> Int] /\ aborted' \in BOOLEAN
    BY <1>2, <1>3, <1>5, <1>6, AnswerIs
<1>8. ASSUME NEW x \in DOMAIN info
      PROVE  /\ Trail(info[x], [st |-> info'[x], rows |-> rows'[x]], EndsOf(info[x]))
             /\ info'[x].from = Until - 1 /\ \A f \in Left : info'[x][f] = info[x][f]
    <2>1. PICK st : st = info'[x]
        OBVIOUS
    <2>2. PICK list : list = rows'[x]
        OBVIOUS
    <2>3. st = W[x].st /\ list = W[x].rows
        BY <1>5, <1>7, <2>1, <2>2
    <2>4. PICK T : T = EndsOf(info[x])
        OBVIOUS
    <2>5. PICK a : a = info[x]
        OBVIOUS
    <2>6. PICK w : w = W[x]
        OBVIOUS
    <2>7. Trail(a, w, T) /\ st = w.st /\ list = w.rows
        BY <1>4, <2>3, <2>4, <2>5, <2>6
    <2>8. Trail(a, [st |-> st, rows |-> list], T)
        BY <2>7, TrailOf
    <2> QED BY <1>4, <2>1, <2>2, <2>3, <2>4, <2>5, <2>8
<1>9. \A x \in Objects : x \notin DOMAIN info => rows'[x] = <<>>
    BY <1>5, <1>7
<1>10. /\ place = "reading" /\ place' = "done"
       /\ UNCHANGED <<read, periods, blacklist, onlyUpdate, inInitial, pending, heard, told,
                   vague, tpVars>>
    BY DEF Finish
<1> QED BY <1>7, <1>8, <1>9, <1>10 DEF Finished

-----------------------------------------------------------------------------
(* The steps                                                               *)

\* A turn of the loop after which every object is as it was.
Passed ==
    /\ \E e, B : Step(B, e) /\ Steady(e)
    /\ \A x \in DOMAIN info : info'[x].inPeriod = info[x].inPeriod
    /\ blacklist' \subseteq Unwanted /\ UNCHANGED <<periods, pending, heard>>

\* A turn that read of the period of t.
Switches(t) ==
    /\ \E e, B : Step(B, e) /\ Steady(e)
    /\ \A x \in DOMAIN info, kind \in Kinds : info'[x].inPeriod[kind] =
            IF PeriodOf[kind][x] = t.period THEN t.to ELSE info[x].inPeriod[kind]
    /\ DOMAIN periods' = DOMAIN periods \cup {t.period}
    /\ \A p \in DOMAIN periods' : periods'[p] = IF p = t.period THEN t.to ELSE periods[p]
    /\ pending' = pending \ {t} /\ heard' = heard \cup {t.period} /\ UNCHANGED blacklist

\* A turn that read of an object.
Speaks ==
    /\ \E o, e, B, F : Step(B, e) /\ Spoken(o, e, B, F)
    /\ UNCHANGED <<periods, blacklist, pending, heard>>

\* Every step is one of five.
LEMMA StepsAre ==
    ASSUME Types, Listed(info), [Next]_vars
    PROVE  \/ CoreUpdate \/ CoreGoesOn \/ UNCHANGED vars
           \/ Passed \/ (\E t \in pending : Switches(t)) \/ Speaks \/ Finished
<1>1. CASE ReadOther \/ ReadUnwanted
    BY <1>1, OtherIs DEF Passed
<1>2. CASE ReadInitialStates
    <2>1. blacklist \subseteq Unwanted
        BY DEF Types, TypeOK
    <2>2. /\ \E e, B : Step(B, e) /\ Steady(e)
          /\ \A x \in DOMAIN info : info'[x].inPeriod = info[x].inPeriod
          /\ UNCHANGED <<periods, blacklist, pending, heard>>
        BY <1>2, InitialStatesIs
    <2> QED BY <2>1, <2>2 DEF Passed
<1>3. CASE ReadTransition
    BY <1>3, TransitionIsRead DEF Switches
<1>4. CASE ReadObject
    BY <1>4, ObjectIsRead DEF Speaks
<1>5. CASE Finish
    BY <1>5, FinishIs
<1> QED BY <1>1, <1>2, <1>3, <1>4, <1>5 DEF Next

-----------------------------------------------------------------------------
(* Types, and the hosts' lists of services                                 *)

\* The types of the cache of timeperiods.
LEMMA CacheTypesKept ==
    ASSUME CacheTypeOK, [NextMinute \/ ReadPeriods \/ (\E logged : Update(logged))]_tpVars
    PROVE  CacheTypeOK'
<1>1. CASE NextMinute
    <2>1. minute' \in 1 .. MaxMinute
        BY <1>1, MinutesAssumption DEF NextMinute, CacheTypeOK
    <2>2. inside' \in SUBSET Periods /\ UNCHANGED <<known, cache, cacheTime>>
        BY <1>1 DEF NextMinute
    <2> QED BY <2>1, <2>2 DEF CacheTypeOK
<1>2. CASE ReadPeriods
    BY <1>2 DEF ReadPeriods, CacheTypeOK
<1>3. CASE \E logged : Update(logged)
    <2>1. /\ cache' = [p \in Periods |-> p \in inside] /\ cacheTime' = minute
          /\ UNCHANGED <<minute, known, inside>>
        BY <1>3 DEF Update
    <2>2. DOMAIN cache' = Periods /\ \A p \in Periods : cache'[p] \in BOOLEAN
        BY <2>1
    <2>3. cacheTime' \in 0 .. MaxMinute
        BY <2>1, MinutesAssumption DEF CacheTypeOK
    <2> QED BY <2>1, <2>2, <2>3 DEF CacheTypeOK
<1>4. CASE UNCHANGED tpVars
    BY <1>4 DEF CacheTypeOK, tpVars
<1> QED BY <1>1, <1>2, <1>3, <1>4

\* What is told is of its type.
LEMMA ToldIsTyped ==
    ASSUME told \in [Objects -> ToldType], NEW o, NEW e, e.state \in 0 .. 4
    PROVE  Told(o, e) \in [Objects -> ToldType]
<1>1. PICK new : new = Told(o, e)
    OBVIOUS
<1>2. ASSUME NEW s \in Objects PROVE new[s] \in ToldType
    <2>1. PICK was \in ToldType : was = told[s]
        OBVIOUS
    <2>3. PICK state : state = IF (s = o) /\ e.type \in HostStateTypes \cup
                                 {"STATE_SERVICE", "STATE_SERVICE_INITIAL", "ALERT_SERVICE"}
                               THEN e.state ELSE was.state
        OBVIOUS
    <2>4. PICK down : down = IF ((s = o) \/ (s \in Services /\ HostOf[s] = o)) /\ e.type \in HostStateTypes
                             THEN e.state > 0 ELSE was.hostDown
        OBVIOUS
    <2>5. PICK downtime : downtime =
            IF (s = o) /\ e.type \in {"DOWNTIME_ALERT_HOST", "DOWNTIME_ALERT_SERVICE"}
            THEN Started(e) ELSE was.inDowntime
        OBVIOUS
    <2>6. PICK hostDowntime : hostDowntime =
            IF ((s = o) \/ (s \in Services /\ HostOf[s] = o)) /\ e.type = "DOWNTIME_ALERT_HOST"
            THEN Started(e) ELSE was.inHostDowntime
        OBVIOUS
    <2>7. PICK flap : flap = IF (s = o) /\ e.type \in {"FLAPPING_HOST", "FLAPPING_SERVICE"}
                             THEN Started(e) ELSE was.flapping
        OBVIOUS
    <2>8. state \in 0 .. Unsaid
        BY <2>3 DEF ToldType, Unsaid
    <2>9. down \in BOOLEAN /\ downtime \in BOOLEAN /\ hostDowntime \in BOOLEAN /\ flap \in BOOLEAN
        <3>1. Started(e) \in BOOLEAN
            BY DEF Started
        <3>2. (e.state > 0) \in BOOLEAN
            OBVIOUS
        <3> QED BY <2>4, <2>5, <2>6, <2>7, <3>1, <3>2 DEF ToldType
    <2>10. new[s] = [was EXCEPT !.state = state, !.hostDown = down, !.inDowntime = downtime,
                                !.inHostDowntime = hostDowntime, !.flapping = flap]
        BY <1>1, <2>1, <2>3, <2>4, <2>5, <2>6, <2>7 DEF Told
    <2> QED BY <2>8, <2>9, <2>10 DEF ToldType
<1>3. new = [s \in Objects |-> new[s]]
    BY <1>1 DEF Told
<1> QED BY <1>1, <1>2, <1>3

\* Objects are in doubt.
LEMMA DoubtType ==
    ASSUME Types, NEW o, NEW e
    PROVE  InDoubt(o, e) \subseteq Objects
BY DEF InDoubt, Types, TypeOK

\* The types that every turn of the loop keeps.
LEMMA StepTypes ==
    ASSUME Types, NEW B, NEW e, Step(B, e), blacklist' \subseteq Unwanted, vague' \subseteq Objects,
           DOMAIN periods' \subseteq Periods, heard' \subseteq Periods
    PROVE  TypeOK'
<1>1. CacheTypeOK'
    BY CacheTypesKept DEF Step, Types, TypeOK
<1>2. place' \in {"reading", "done"}
    BY DEF Step
<1>3. read' \in 0 .. MaxRead
    BY ObjectsAre DEF Step, IsLine, Reads, Types, TypeOK
<1>4. DOMAIN info' \subseteq Objects /\ \A o \in DOMAIN info' : info'[o] \in HostServiceState
    BY DEF Step, Reported, Tracks
<1>5. {onlyUpdate', inInitial', aborted'} \subseteq BOOLEAN
    <2>1. onlyUpdate' \in BOOLEAN
        BY TypesAre DEF Step, IsLine, Reads, Quiet
    <2>2. inInitial' \in BOOLEAN
        BY DEF Step, IsLine, Reads
    <2>3. aborted' \in BOOLEAN
        BY DEF Step, Reported
    <2> QED BY <2>1, <2>2, <2>3
<1>6. total' \in [Objects -> Int]
    BY DEF Step, Reported
<1> QED BY <1>1, <1>2, <1>3, <1>4, <1>5, <1>6 DEF TypeOK

\* Every step keeps the types.
LEMMA TypesKept ==
    ASSUME Types, Listed(info), [Next]_vars
    PROVE  Types'
<1>0. /\ TypeOK /\ heard \subseteq DOMAIN periods /\ \A p \in DOMAIN periods : periods[p] \in 0 .. 1
      /\ \A t \in pending : t.period \in Periods /\ t.to \in 0 .. 1
      /\ told \in [Objects -> ToldType] /\ DOMAIN periods \subseteq Periods /\ heard \subseteq Periods
    BY DEF Types, TypeOK
<1>1. CASE CoreUpdate
    <2>1. PICK logged : Update(logged) /\ pending' = logged /\ logged \in SUBSET {LogTransition(p) : p \in Periods}
        BY <1>1 DEF CoreUpdate
    <2>2. UNCHANGED <<place, read, info, periods, blacklist, onlyUpdate, inInitial, rows, total,
                      aborted, heard, told, vague>>
        BY <1>1 DEF CoreUpdate
    <2>3. CacheTypeOK'
        BY <1>0, <2>1, CacheTypesKept DEF TypeOK
    <2>4. \A p \in Periods : LogTransition(p).period = p /\ LogTransition(p).to \in 0 .. 1
        BY DEF LogTransition, Bit
    <2>5. \A t \in pending' : t.period \in Periods /\ t.to \in 0 .. 1
        BY <2>1, <2>4
    <2>6. TypeOK'
        BY <1>0, <2>2, <2>3 DEF TypeOK
    <2> QED BY <1>0, <2>2, <2>5, <2>6 DEF Types
<1>2. CASE CoreGoesOn
    <2>1. CacheTypeOK'
        BY <1>0, <1>2, CacheTypesKept DEF TypeOK, CoreGoesOn
    <2>2. UNCHANGED query
        BY <1>2 DEF CoreGoesOn
    <2> QED BY <1>0, <2>1, <2>2 DEF Types, TypeOK, query
<1>3. CASE UNCHANGED vars
    <2>1. CacheTypeOK'
        BY <1>0, <1>3, CacheTypesKept DEF TypeOK, vars
    <2>2. UNCHANGED query
        BY <1>3 DEF vars
    <2> QED BY <1>0, <2>1, <2>2 DEF Types, TypeOK, query
<1>4. CASE Passed
    <2>1. PICK e, B : Step(B, e) /\ Steady(e)
        BY <1>4 DEF Passed
    <2>2. UNCHANGED <<periods, pending, heard>> /\ blacklist' \subseteq Unwanted
        BY <1>4 DEF Passed
    <2>3. UNCHANGED told /\ vague' \subseteq Objects
        BY <2>1, DoubtType DEF Steady
    <2>4. TypeOK'
        BY <1>0, <2>1, <2>2, <2>3, StepTypes
    <2> QED BY <1>0, <2>2, <2>3, <2>4 DEF Types
<1>5. CASE \E t \in pending : Switches(t)
    <2>1. PICK t \in pending : Switches(t)
        BY <1>5
    <2>2. PICK e, B : Step(B, e) /\ Steady(e)
        BY <2>1 DEF Switches
    <2>3. /\ DOMAIN periods' = DOMAIN periods \cup {t.period}
          /\ \A p \in DOMAIN periods' : periods'[p] = IF p = t.period THEN t.to ELSE periods[p]
          /\ pending' = pending \ {t} /\ heard' = heard \cup {t.period} /\ UNCHANGED blacklist
        BY <2>1 DEF Switches
    <2>4. UNCHANGED told /\ vague' \subseteq Objects
        BY <2>2, DoubtType DEF Steady
    <2>5. blacklist' \subseteq Unwanted /\ DOMAIN periods' \subseteq Periods /\ heard' \subseteq Periods
        BY <1>0, <2>3 DEF TypeOK
    <2>6. TypeOK'
        BY <2>2, <2>4, <2>5, StepTypes
    <2>7. heard' \subseteq DOMAIN periods' /\ \A p \in DOMAIN periods' : periods'[p] \in 0 .. 1
        BY <1>0, <2>3
    <2> QED BY <1>0, <2>3, <2>4, <2>6, <2>7 DEF Types
<1>6. CASE Speaks
    <2>1. PICK o, e, B, F : Step(B, e) /\ Spoken(o, e, B, F)
        BY <1>6 DEF Speaks
    <2>2. UNCHANGED <<periods, blacklist, pending, heard>>
        BY <1>6 DEF Speaks
    <2>3. told' \in [Objects -> ToldType]
        BY <1>0, <2>1, ToldIsTyped DEF Spoken, Step, IsLine
    <2>4. vague' \subseteq Objects
        BY <2>1, DoubtType DEF Spoken
    <2>5. blacklist' \subseteq Unwanted /\ DOMAIN periods' \subseteq Periods /\ heard' \subseteq Periods
        BY <1>0, <2>2 DEF TypeOK
    <2>6. TypeOK'
        BY <2>1, <2>4, <2>5, StepTypes
    <2> QED BY <1>0, <2>2, <2>3, <2>6 DEF Types
<1>7. CASE Finished
    <2>1. UNCHANGED <<read, periods, blacklist, onlyUpdate, inInitial, pending, heard, told, vague>>
        BY <1>7 DEF Finished
    <2>2. UNCHANGED tpVars /\ place' = "done" /\ Tracks(info') /\ total' \in [Objects -> Int] /\ aborted' \in BOOLEAN
        BY <1>7 DEF Finished
    <2>3. CacheTypeOK'
        BY <1>0, <2>2, CacheTypesKept DEF TypeOK
    <2>4. TypeOK'
        BY <1>0, <2>1, <2>2, <2>3 DEF TypeOK, Tracks
    <2> QED BY <1>0, <2>1, <2>4 DEF Types
<1> QED BY <1>1, <1>2, <1>3, <1>4, <1>5, <1>6, <1>7, StepsAre

\* Every step keeps the hosts' lists of services.
LEMMA ListedKept ==
    ASSUME Types, Listed(info), [Next]_vars
    PROVE  Listed(info')
<1>0. ASSUME DOMAIN info' = DOMAIN info, \A x \in DOMAIN info : info'[x].services = info[x].services
      PROVE  Listed(info')
    BY <1>0 DEF Listed, ServicesOf
<1>1. CASE info' = info
    BY <1>1
<1>2. ASSUME NEW e, Steady(e) PROVE Listed(info')
    BY <1>0, <1>2 DEF Steady
<1>3. CASE Speaks
    <2>1. PICK o, e, B, F : Step(B, e) /\ Spoken(o, e, B, F)
        BY <1>3 DEF Speaks
    <2>2. DOMAIN info' = DOMAIN B /\ Listed(B)
        BY <2>1 DEF Step, Reported, Spoken
    <2>3. ASSUME NEW x \in DOMAIN B PROVE info'[x].services = B[x].services
        <3>1. CASE x = o
            BY <2>1, <3>1 DEF Spoken, Updated
        <3>2. CASE x \in F /\ x # o
            BY <2>1, <3>2 DEF Spoken, Updated
        <3>3. CASE x \notin F \cup {o}
            BY <2>1, <3>3 DEF Spoken
        <3> QED BY <3>1, <3>2, <3>3
    <2> QED BY <2>2, <2>3 DEF Listed, ServicesOf
<1>4. CASE Finished
    <2>1. DOMAIN info' = DOMAIN info /\ \A x \in DOMAIN info : info'[x].services = info[x].services
        BY <1>4 DEF Finished, Left
    <2> QED BY <1>0, <2>1
<1>5. CASE CoreUpdate \/ CoreGoesOn \/ UNCHANGED vars
    BY <1>1, <1>5 DEF CoreUpdate, CoreGoesOn, vars, query
<1> QED BY <1>2, <1>3, <1>4, <1>5, StepsAre DEF Passed, Switches

\* A query starts with no objects.
LEMMA TypesStart ==
    ASSUME Init
    PROVE  Types /\ Listed(info)
<1>1. CacheTypeOK
    BY MinutesAssumption DEF Init, TpInit, CacheTypeOK
<1>2. DOMAIN info = {}
    BY DEF Init
<1>3. TypeOK
    <2>1. DOMAIN periods \subseteq Periods
        BY DEF Init
    <2>2. read \in 0 .. MaxRead /\ place \in {"reading", "done"}
        BY ObjectsAre DEF Init
    <2>3. heard = {} /\ blacklist = {} /\ vague = {}
        BY DEF Init
    <2>4. {onlyUpdate, inInitial, aborted} \subseteq BOOLEAN
        BY DEF Init
    <2>5. total \in [Objects -> Int]
        BY DEF Init
    <2> QED BY <1>1, <1>2, <2>1, <2>2, <2>3, <2>4, <2>5 DEF TypeOK
<1>4. told \in [Objects -> ToldType]
    BY DEF Init, ToldType, Unsaid
<1>5. \A p \in DOMAIN periods : periods[p] \in 0 .. 1
    BY DEF Init
<1>6. heard = {} /\ pending = {}
    BY DEF Init
<1>7. Types
    BY <1>3, <1>4, <1>5, <1>6 DEF Types
<1>8. Listed(info)
    BY <1>2 DEF Listed
<1> QED BY <1>7, <1>8

\* The types, and the lists of services, which hold of what the code tracks at any time.
THEOREM TypesCorrect == Spec => [](Types /\ Listed(info))
<1>1. Types /\ Listed(info) /\ [Next]_vars => (Types /\ Listed(info))'
    BY TypesKept, ListedKept
<1> QED BY <1>1, TypesStart, PTL DEF Spec

\* In every state of the pass over the log the query's and the cache's variables have
\* their types: whatever a line says, no state is out of range.
THEOREM TypeCorrect == Spec => []TypeOK
<1>1. Types => TypeOK
    BY DEF Types
<1> QED BY <1>1, TypesCorrect, PTL

\* A host's list has exactly those of its services that are tracked, whichever of them
\* came first in the log: an alert of the host reaches all of them and no other.
THEOREM HostsCorrect == Spec => []HostKnowsServices
<1>1. Listed(info) => HostKnowsServices
    BY DEF Listed, ServicesOf, HostKnowsServices
<1> QED BY <1>1, TypesCorrect, PTL

-----------------------------------------------------------------------------
(* Timeperiods                                                             *)

\* An update of the cache leaves what is not logged as it was.
LEMMA UpdatedCache ==
    ASSUME NEW logged, Update(logged), CacheTypeOK
    PROVE  /\ \A p \in Periods : (\A t \in logged : t.period # p) => Bit(InTimeperiod(p))' = Bit(InTimeperiod(p))
           /\ \A t \in logged : t.to = Bit(InTimeperiod(t.period))'
<1>1. /\ cache' = [p \in Periods |-> p \in inside]
      /\ logged = {LogTransition(p) : p \in {q \in Periods : Changed(q)}}
    BY DEF Update
<1>2. ASSUME NEW p \in Periods PROVE InTimeperiod(p)' = (p \in inside)
    <2>1. DOMAIN cache' = Periods /\ cache'[p] = (p \in inside)
        BY <1>1
    <2>2. InTimeperiod(p)' = (p \in DOMAIN cache' /\ cache'[p])
        BY DEF InTimeperiod
    <2>3. CASE p \in inside
        BY <2>1, <2>2, <2>3
    <2>4. CASE p \notin inside
        <3>1. FALSE = (p \in inside)
            BY <2>4
        <3>2. FALSE = cache'[p]
            BY <2>1, <3>1, Zenon
        <3>3. FALSE = InTimeperiod(p)'
            BY <2>2, <3>2, Zenon
        <3> QED BY <3>1, <3>3, Zenon
    <2> QED BY <2>3, <2>4
<1>3. \A p : LogTransition(p).period = p /\ LogTransition(p).to = Bit(p \in inside)
    BY DEF LogTransition
<1>4. ASSUME NEW p \in Periods, \A t \in logged : t.period # p
      PROVE  Bit(InTimeperiod(p))' = Bit(InTimeperiod(p))
    <2>1. ~Changed(p)
        BY <1>1, <1>3, <1>4
    <2>2. p \in DOMAIN cache /\ cache[p] = (p \in inside) /\ cache[p] \in BOOLEAN
        BY <2>1 DEF Changed, CacheTypeOK
    <2>3. InTimeperiod(p) = (p \in inside)
        BY <2>2 DEF InTimeperiod
    <2> QED BY <1>2, <2>3 DEF Bit
<1>5. ASSUME NEW t \in logged PROVE t.to = Bit(InTimeperiod(t.period))'
    <2>1. PICK p \in Periods : t = LogTransition(p)
        BY <1>1
    <2> QED BY <1>2, <1>3, <2>1 DEF Bit
<1> QED BY <1>4, <1>5

\* The state of an object knows the periods that were read of.
LEMMA PeriodsBased ==
    ASSUME Types, PeriodsKept, NEW B, NEW e, Based(B, e), NEW x \in DOMAIN B, NEW kind \in Kinds,
           PeriodOf[kind][x] \in heard
    PROVE  /\ B[x].inPeriod[kind] = periods[PeriodOf[kind][x]]
           /\ PeriodNow(x, kind) = periods[PeriodOf[kind][x]]
<1>1. PeriodNow(x, kind) = periods[PeriodOf[kind][x]]
    BY DEF PeriodNow, Types
<1>2. CASE x \in DOMAIN info
    <2>1. B[x].inPeriod = info[x].inPeriod
        BY <1>2 DEF Based, Fields
    <2> QED BY <1>1, <1>2, <2>1 DEF PeriodsKept
<1>3. CASE x \notin DOMAIN info
    <2>1. B[x].inPeriod = PeriodsNow(x)
        BY <1>3 DEF Based, IsNew
    <2> QED BY <1>1, <2>1 DEF PeriodsNow
<1> QED BY <1>2, <1>3

\* Every step keeps what is known of the periods: a transition is pending from the
\* update of the cache until it is read.
LEMMA PeriodsStay ==
    ASSUME Types, Listed(info), PeriodsKept, [Next]_vars
    PROVE  PeriodsKept'
<1>0. /\ \A p \in heard : (\A t \in pending : t.period # p) => periods[p] = Bit(InTimeperiod(p))
      /\ \A t \in pending : t.to = Bit(InTimeperiod(t.period))
      /\ \A o \in DOMAIN info, kind \in Kinds : PeriodOf[kind][o] \in heard =>
            info[o].inPeriod[kind] = periods[PeriodOf[kind][o]]
    BY DEF PeriodsKept
<1>1. ASSUME UNCHANGED <<heard, pending, periods, cache>>,
             \A o \in DOMAIN info', kind \in Kinds : PeriodOf[kind][o] \in heard =>
                info'[o].inPeriod[kind] = periods[PeriodOf[kind][o]]
      PROVE  PeriodsKept'
    <2>1. \A p : InTimeperiod(p)' = InTimeperiod(p)
        BY <1>1 DEF InTimeperiod
    <2> QED BY <1>0, <1>1, <2>1 DEF PeriodsKept, Bit
<1>2. CASE CoreUpdate
    <2>1. pending = {} /\ UNCHANGED <<info, periods, heard>> /\ Update(pending')
        BY <1>2 DEF CoreUpdate
    <2>2. /\ \A p \in Periods : (\A t \in pending' : t.period # p) => Bit(InTimeperiod(p))' = Bit(InTimeperiod(p))
          /\ \A t \in pending' : t.to = Bit(InTimeperiod(t.period))'
        BY <2>1, UpdatedCache DEF Types, TypeOK
    <2>3. heard \subseteq Periods
        BY DEF Types, TypeOK
    <2>4. \A p \in heard : periods[p] = Bit(InTimeperiod(p))
        BY <1>0, <2>1
    <2> QED BY <1>0, <2>1, <2>2, <2>3, <2>4 DEF PeriodsKept
<1>3. CASE CoreGoesOn \/ UNCHANGED vars
    <2>1. UNCHANGED <<info, heard, pending, periods, cache>>
        BY <1>3 DEF CoreGoesOn, NextMinute, ReadPeriods, vars, query, tpVars
    <2> QED BY <1>0, <1>1, <2>1
<1>4. CASE Passed
    <2>1. PICK e, B : Step(B, e) /\ Steady(e)
        BY <1>4 DEF Passed
    <2>2. UNCHANGED <<heard, pending, periods, cache>> /\ DOMAIN info' = DOMAIN info
        BY <1>4, <2>1 DEF Passed, Step, Steady, tpVars
    <2>3. \A x \in DOMAIN info : info'[x].inPeriod = info[x].inPeriod
        BY <1>4 DEF Passed
    <2> QED BY <1>0, <1>1, <2>2, <2>3
<1>5. CASE \E t \in pending : Switches(t)
    <2>1. PICK t \in pending : Switches(t)
        BY <1>5
    <2>2. PICK e, B : Step(B, e) /\ Steady(e)
        BY <2>1 DEF Switches
    <2>3. UNCHANGED cache /\ DOMAIN info' = DOMAIN info
        BY <2>2 DEF Step, Steady, tpVars
    <2>4. /\ DOMAIN periods' = DOMAIN periods \cup {t.period}
          /\ \A p \in DOMAIN periods' : periods'[p] = IF p = t.period THEN t.to ELSE periods[p]
          /\ pending' = pending \ {t} /\ heard' = heard \cup {t.period}
          /\ \A x \in DOMAIN info, kind \in Kinds : info'[x].inPeriod[kind] =
                IF PeriodOf[kind][x] = t.period THEN t.to ELSE info[x].inPeriod[kind]
        BY <2>1 DEF Switches
    <2>5. \A p : Bit(InTimeperiod(p))' = Bit(InTimeperiod(p))
        BY <2>3 DEF InTimeperiod, Bit
    <2>6. heard' \subseteq DOMAIN periods'
        BY <2>4 DEF Types
    <2>7. ASSUME NEW p \in heard', \A u \in pending' : u.period # p
          PROVE  periods'[p] = Bit(InTimeperiod(p))
        <3>1. CASE p = t.period
            BY <1>0, <2>4, <2>6, <3>1
        <3>2. CASE p # t.period
            BY <1>0, <2>4, <2>6, <2>7, <3>2
        <3> QED BY <3>1, <3>2
    <2>8. ASSUME NEW o \in DOMAIN info', NEW kind \in Kinds, PeriodOf[kind][o] \in heard'
          PROVE  info'[o].inPeriod[kind] = periods'[PeriodOf[kind][o]]
        BY <1>0, <2>3, <2>4, <2>6, <2>8
    <2> QED BY <1>0, <2>4, <2>5, <2>7, <2>8 DEF PeriodsKept
<1>6. CASE Speaks
    <2>1. PICK o, e, B, F : Step(B, e) /\ Spoken(o, e, B, F)
        BY <1>6 DEF Speaks
    <2>2. UNCHANGED <<heard, pending, periods, cache>>
        BY <1>6, <2>1 DEF Speaks, Step, tpVars
    <2>3. Based(B, e) /\ DOMAIN info' = DOMAIN B /\ e.type # "TIMEPERIOD_TRANSITION"
        BY <2>1 DEF Step, Reported, Spoken, ObjectTypes, ServiceTypes, HostTypes
    <2>4. ASSUME NEW x \in DOMAIN info', NEW kind \in Kinds, PeriodOf[kind][x] \in heard
          PROVE  info'[x].inPeriod[kind] = periods[PeriodOf[kind][x]]
        <3>1. /\ B[x].inPeriod[kind] = periods[PeriodOf[kind][x]]
              /\ PeriodNow(x, kind) = periods[PeriodOf[kind][x]]
            BY <2>3, <2>4, PeriodsBased
        <3>2. CASE x \in F \cup {o}
            <4>1. PICK changed : Updated(B[x], info'[x], changed, x, e)
                BY <2>1, <3>2 DEF Spoken
            <4> QED BY <2>3, <3>1, <4>1 DEF Updated
        <3>3. CASE x \notin F \cup {o}
            <4>1. info'[x] = B[x]
                BY <2>1, <2>3, <3>3 DEF Spoken
            <4> QED BY <3>1, <4>1
        <3> QED BY <3>2, <3>3
    <2> QED BY <1>1, <2>2, <2>4
<1>7. CASE Finished
    <2>1. UNCHANGED <<heard, pending, periods, cache>> /\ DOMAIN info' = DOMAIN info
        BY <1>7 DEF Finished, tpVars
    <2>2. \A x \in DOMAIN info : info'[x].inPeriod = info[x].inPeriod
        BY <1>7 DEF Finished, Left
    <2> QED BY <1>0, <1>1, <2>1, <2>2
<1> QED BY <1>2, <1>3, <1>4, <1>5, <1>6, <1>7, StepsAre

\* Once no transition is pending, the notification and service periods of every object
\* are what the core's cache holds, for the periods that this query has read of.
THEOREM PeriodsCorrect == Spec => []PeriodsAreCached
<1>1. Init => PeriodsKept
    BY DEF Init, PeriodsKept
<1>2. Types /\ Listed(info) /\ PeriodsKept /\ [Next]_vars => PeriodsKept'
    BY PeriodsStay
<1>3. PeriodsKept => PeriodsAreCached
    <2>1. SUFFICES ASSUME PeriodsKept, pending = {}, NEW o \in DOMAIN info, NEW kind \in Kinds,
                          PeriodOf[kind][o] \in heard
                   PROVE  info[o].inPeriod[kind] = Bit(InTimeperiod(PeriodOf[kind][o]))
        BY DEF PeriodsAreCached
    <2>2. PICK p \in heard : p = PeriodOf[kind][o]
        BY <2>1
    <2>3. info[o].inPeriod[kind] = periods[p] /\ periods[p] = Bit(InTimeperiod(p))
        BY <2>1, <2>2 DEF PeriodsKept
    <2> QED BY <2>2, <2>3
<1> QED BY <1>1, <1>2, <1>3, TypesCorrect, PTL DEF Spec

\* Doubt stays, and what vanishes comes to be in doubt.
LEMMA DoubtIs ==
    ASSUME NEW o, NEW e
    PROVE  vague \subseteq InDoubt(o, e) /\ \A x \in DOMAIN info : Vanishes(x, e) => x \in InDoubt(o, e)
BY DEF InDoubt, Vanishes

\* When a turn takes place.
LEMMA LinesAre ==
    ASSUME NEW e, NEW B, Step(B, e)
    PROVE  place = "reading" /\ minute < Until /\ minute' = minute /\ onlyUpdate' = Quiet(minute)
BY DEF Step, IsLine, Reads, tpVars, Quiet

\* Every step keeps that what has vanished is in doubt.
LEMMA VanishedStays ==
    ASSUME Types, Listed(info), VanishedKept, [Next]_vars
    PROVE  VanishedKept'
<1>1. CASE CoreUpdate \/ CoreGoesOn \/ UNCHANGED vars
    <2>1. UNCHANGED <<place, info, vague>>
        BY <1>1 DEF CoreUpdate, CoreGoesOn, vars, query
    <2> QED BY <2>1 DEF VanishedKept
<1>2. ASSUME NEW e, NEW B, Step(B, e), Steady(e)
      PROVE  VanishedKept'
    <2>1. place = "reading"
        BY <1>2, LinesAre
    <2>2. vague' = InDoubt(Null, e) /\ DOMAIN info' = DOMAIN info
        BY <1>2 DEF Steady
    <2>3. \A x \in DOMAIN info : info'[x].hasVanished = (info[x].hasVanished \/ Vanishes(x, e))
        BY <1>2 DEF Steady
    <2> QED BY <2>1, <2>2, <2>3, DoubtIs DEF VanishedKept
<1>3. CASE Speaks
    <2>1. PICK o, e, B, F : Step(B, e) /\ Spoken(o, e, B, F)
        BY <1>3 DEF Speaks
    <2>2. /\ place = "reading" /\ vague' = InDoubt(o, e) /\ DOMAIN info' = DOMAIN B /\ Based(B, e)
        BY <2>1, LinesAre DEF Step, Reported, Spoken
    <2>3. ASSUME NEW x \in DOMAIN B, info'[x].hasVanished PROVE B[x].hasVanished
        <3>1. CASE x \in F \cup {o}
            <4>1. PICK changed : Updated(B[x], info'[x], changed, x, e)
                BY <2>1, <3>1 DEF Spoken
            <4>2. info'[x].hasVanished = (B[x].hasVanished /\ ~Back(B[x], e))
                BY <4>1 DEF Updated
            <4> QED BY <2>3, <4>2
        <3>2. CASE x \notin F \cup {o}
            <4>1. info'[x] = B[x]
                BY <2>1, <3>2 DEF Spoken
            <4> QED BY <2>3, <4>1
        <3> QED BY <3>1, <3>2
    <2>4. ASSUME NEW x \in DOMAIN B, B[x].hasVanished PROVE x \in vague'
        <3>1. CASE x \in DOMAIN info
            <4>1. info[x].hasVanished \/ Vanishes(x, e)
                BY <2>2, <2>4, <3>1 DEF Based
            <4> QED BY <2>2, <3>1, <4>1, DoubtIs DEF VanishedKept
        <3>2. CASE x \notin DOMAIN info
            <4>1. B[x].hasVanished = FALSE
                BY <2>2, <3>2 DEF Based, IsNew
            <4> QED BY <2>4, <4>1
        <3> QED BY <3>1, <3>2
    <2> QED BY <2>2, <2>3, <2>4 DEF VanishedKept
<1>4. CASE Finished
    BY <1>4 DEF Finished, VanishedKept
<1>5. CASE Passed
    BY <1>2, <1>5 DEF Passed
<1>6. CASE \E t \in pending : Switches(t)
    BY <1>2, <1>6 DEF Switches
<1> QED BY <1>1, <1>3, <1>4, <1>5, <1>6, StepsAre

-----------------------------------------------------------------------------
(* Durations                                                               *)

\* When an object's state began, as a line finds it.
LEMMA FoundFrom ==
    ASSUME Types, TimesKept, TotalsKept, NEW B, NEW e, Step(B, e), NEW x \in DOMAIN B
    PROVE  /\ B[x].from \in Nat /\ total[x] = B[x].from - Since /\ B[x].from < Until
           /\ IF Quiet(minute) THEN B[x].from = Since ELSE B[x].from <= minute /\ Since <= minute
           /\ B[x].lastKnown \in Nat /\ B[x].lastKnown <= minute /\ B[x].lastKnown < Until
<1>1. /\ minute \in Nat /\ onlyUpdate \in BOOLEAN /\ Since \in Nat /\ Until \in Nat /\ Until > Since + 1
      /\ place = "reading" /\ minute < Until /\ x \in Objects
    BY TypesAre, ObjectsAre, LinesAre DEF Step, Reported, Tracks
<1>2. B[x].from \in Nat /\ B[x].lastKnown \in Nat
    BY FieldsAre DEF Step, Based, Tracks
<1>3. Quiet(minute) = (onlyUpdate /\ minute < Since)
    BY DEF Quiet
<1>4. ~onlyUpdate => Since <= minute
    BY DEF TimesKept
<1>5. CASE x \in DOMAIN info
    <2>1. /\ B[x].from = IF onlyUpdate /\ minute >= Since THEN Since ELSE info[x].from
          /\ B[x].lastKnown = info[x].lastKnown
        BY <1>5 DEF Step, Based, Fields
    <2>2. info[x].lastKnown <= minute /\ info[x].lastKnown < Until
        BY <1>5 DEF TimesKept
    <2>3. /\ total[x] = info[x].from - Since /\ info[x].from < Until
          /\ IF onlyUpdate THEN info[x].from = Since ELSE info[x].from <= minute
        BY <1>1, <1>5 DEF TotalsKept
    <2> QED BY <1>1, <1>2, <1>3, <1>4, <2>1, <2>2, <2>3
<1>6. CASE x \notin DOMAIN info
    <2>1. B[x].from = Since /\ B[x].lastKnown = 0
        BY <1>6 DEF Step, Based, IsNew
    <2>2. total[x] = 0
        BY <1>1, <1>6 DEF TotalsKept
    <2> QED BY <1>1, <1>2, <1>3, <1>4, <2>1, <2>2
<1> QED BY <1>5, <1>6

\* The rows of a turn make up for where the state begins now.
LEMMA TurnTotals ==
    ASSUME Types, TimesKept, TotalsKept, NEW B, NEW e, Step(B, e), NEW x \in DOMAIN B
    PROVE  /\ total'[x] = info'[x].from - Since /\ info'[x].from < Until
           /\ IF onlyUpdate' THEN info'[x].from = Since ELSE info'[x].from <= minute
           /\ info'[x].lastKnown <= minute /\ info'[x].lastKnown < Until
           /\ ~Back(B[x], e) => \A n \in DOMAIN rows'[x] : rows'[x][n].from <= rows'[x][n].until
<1>1. /\ minute \in Nat /\ minute < Until /\ onlyUpdate' = Quiet(minute) /\ Since \in Nat /\ Until \in Nat
      /\ Quiet(minute) \in BOOLEAN
    BY TypesAre, ObjectsAre, LinesAre, QuietIs DEF Step
<1>2. /\ B[x].from \in Nat /\ total[x] = B[x].from - Since /\ B[x].from < Until
      /\ IF Quiet(minute) THEN B[x].from = Since ELSE B[x].from <= minute /\ Since <= minute
      /\ B[x].lastKnown \in Nat /\ B[x].lastKnown <= minute /\ B[x].lastKnown < Until
    BY FoundFrom
<1>3. PICK st : st = info'[x]
    OBVIOUS
<1>4. PICK list : list = rows'[x]
    OBVIOUS
<1>5. PICK w : w = [st |-> st, rows |-> list]
    OBVIOUS
<1>6. /\ History(B[x], w, Quiet(minute), TimesOf(B[x], e)) /\ st.lastKnown \in {B[x].lastKnown, minute}
      /\ st \in HostServiceState /\ x \in Objects
    BY <1>3, <1>4, <1>5 DEF Step, Reported, Tracks
<1>7. total'[x] = total[x] + Spent(list)
    BY <1>4, <1>6 DEF Step, Reported
<1>8. w.st = st /\ w.rows = list
    BY <1>5
<1>9. st.from \in Nat /\ st.lastKnown \in Nat /\ e.time = minute
    BY <1>6, FieldsAre DEF Step, IsLine
<1>10. CASE Quiet(minute)
    <2>1. list = <<>> /\ st.from = B[x].from
        BY <1>6, <1>8, <1>10 DEF History
    <2>2. Spent(list) = 0
        BY <2>1, SpentNothing
    <2>3. st.from = Since /\ total'[x] = st.from - Since /\ st.from < Until
        BY <1>1, <1>2, <1>7, <1>10, <2>1, <2>2
    <2>4. st.lastKnown <= minute /\ st.lastKnown < Until
        BY <1>1, <1>2, <1>6
    <2>5. DOMAIN list = {}
        BY <2>1
    <2> QED BY <1>1, <1>3, <1>4, <1>10, <2>3, <2>4, <2>5
<1>11. CASE ~Quiet(minute)
    <2>1. /\ Spent(list) = st.from - B[x].from
          /\ st.from \in TimesOf(B[x], e) \cup {B[x].from}
          /\ \A n \in DOMAIN list : list[n].until \in TimesOf(B[x], e) /\ list[n].from \in TimesOf(B[x], e) \cup {B[x].from}
        BY <1>6, <1>8, <1>11 DEF History, Trail
    <2>2. \A t \in TimesOf(B[x], e) : t \in {minute, B[x].lastKnown}
        BY <1>9 DEF TimesOf
    <2>3. st.from \in {minute, B[x].lastKnown, B[x].from}
        BY <2>1, <2>2
    <2>4. st.from <= minute /\ st.from < Until
        BY <1>1, <1>2, <1>11, <2>3
    <2>5. ASSUME ~Back(B[x], e), NEW n \in DOMAIN list PROVE list[n].from <= list[n].until
        <3>1. TimesOf(B[x], e) = {minute}
            BY <1>9, <2>5 DEF TimesOf
        <3>2. list[n].until = minute /\ list[n].from \in {minute, B[x].from}
            BY <2>1, <3>1
        <3> QED BY <1>1, <1>2, <1>11, <3>2
    <2>6. total'[x] = st.from - Since
        BY <1>1, <1>2, <1>7, <1>9, <2>1
    <2>7. st.lastKnown <= minute /\ st.lastKnown < Until
        BY <1>1, <1>2, <1>6
    <2> QED BY <1>1, <1>3, <1>4, <1>11, <2>4, <2>5, <2>6, <2>7
<1> QED BY <1>10, <1>11

\* An object that is in no doubt is not back from anywhere.
LEMMA NotBack ==
    ASSUME Types, VanishedKept, NEW o, NEW e, NEW B, Step(B, e), vague' = InDoubt(o, e),
           NEW x \in DOMAIN B, x \notin vague'
    PROVE  x \notin vague /\ ~Back(B[x], e)
<1>1. x \notin vague
    BY DoubtIs
<1>2. CASE x \in DOMAIN info
    <2>1. ~info[x].hasVanished /\ ~Vanishes(x, e)
        BY <1>1, <1>2, DoubtIs, LinesAre DEF VanishedKept
    <2>2. B[x].hasVanished = (info[x].hasVanished \/ Vanishes(x, e))
        BY <1>2 DEF Step, Based
    <2> QED BY <1>1, <2>1, <2>2 DEF Back
<1>3. CASE x \notin DOMAIN info
    <2>1. B[x].hasVanished = FALSE
        BY <1>3 DEF Step, Based, IsNew
    <2> QED BY <1>1, <2>1 DEF Back
<1> QED BY <1>2, <1>3

\* A turn keeps the times, the totals and the durations.
LEMMA TurnKeeps ==
    ASSUME Types, TimesKept, TotalsKept, VanishedKept, NEW B, NEW e, Step(B, e), NEW o, vague' = InDoubt(o, e)
    PROVE  TimesKept' /\ TotalsKept' /\ DurationsAddUp'
<1>1. /\ minute \in Nat /\ place = "reading" /\ minute' = minute /\ onlyUpdate' = Quiet(minute)
      /\ Since \in Nat /\ onlyUpdate \in BOOLEAN
    BY TypesAre, ObjectsAre, LinesAre
<1>2. DOMAIN info' = DOMAIN B /\ place' = (IF aborted' THEN "done" ELSE "reading") /\ aborted' \in BOOLEAN
    BY DEF Step, Reported
<1>3. ASSUME NEW x \in DOMAIN B
      PROVE  /\ total'[x] = info'[x].from - Since /\ info'[x].from < Until
             /\ IF onlyUpdate' THEN info'[x].from = Since ELSE info'[x].from <= minute
             /\ info'[x].lastKnown <= minute /\ info'[x].lastKnown < Until
             /\ ~Back(B[x], e) => \A n \in DOMAIN rows'[x] : rows'[x][n].from <= rows'[x][n].until
    BY TurnTotals
<1>4. ~onlyUpdate' => Since <= minute
    BY <1>1 DEF Quiet, TimesKept
<1>5. TimesKept'
    BY <1>1, <1>2, <1>3, <1>4 DEF TimesKept
<1>6. ASSUME NEW x \in Objects, x \notin DOMAIN B
      PROVE  total'[x] = 0
    <2>1. rows'[x] = <<>> /\ total'[x] = total[x] + Spent(rows'[x])
        BY <1>6 DEF Step, Reported
    <2>2. Spent(rows'[x]) = 0
        BY <2>1, SpentNothing
    <2>3. x \notin DOMAIN info
        BY <1>6 DEF Step, Based
    <2>4. total[x] = 0
        BY <1>1, <2>3 DEF TotalsKept
    <2> QED BY <2>1, <2>2, <2>4
<1>7. TotalsKept'
    BY <1>1, <1>2, <1>3, <1>6 DEF TotalsKept
<1>8. \A x \in DOMAIN B : x \notin vague' => ~Back(B[x], e)
    BY NotBack
<1>9. ~(place' = "done" /\ ~aborted')
    BY <1>2
<1>10. DurationsAddUp'
    BY <1>2, <1>3, <1>8, <1>9 DEF DurationsAddUp
<1> QED BY <1>5, <1>7, <1>10

\* The last rows make up for the rest of the range.
LEMMA EndKeeps ==
    ASSUME Types, TimesKept, TotalsKept, Finished
    PROVE  TimesKept' /\ TotalsKept' /\ DurationsAddUp'
<1>1. /\ place = "reading" /\ place' = "done" /\ DOMAIN info' = DOMAIN info
      /\ UNCHANGED <<onlyUpdate, minute>> /\ Tracks(info)
      /\ Since \in Nat /\ Until \in Nat /\ total \in [Objects -> Int]
    BY TypesAre, ObjectsAre DEF Finished, tpVars
<1>2. \A x \in DOMAIN info : /\ info'[x].lastKnown = info[x].lastKnown
                             /\ info'[x].mayNoLongerExist = info[x].mayNoLongerExist
    BY DEF Finished, Left
<1>3. TimesKept'
    BY <1>1, <1>2 DEF TimesKept
<1>4. ASSUME NEW x \in DOMAIN info
      PROVE  /\ total'[x] = Until - 1 - Since
             /\ ~info[x].mayNoLongerExist =>
                    \A n \in DOMAIN rows'[x] : rows'[x][n].from <= rows'[x][n].until
    <2>1. PICK list : list = rows'[x]
        OBVIOUS
    <2>2. PICK st : st = info'[x]
        OBVIOUS
    <2>3. PICK w : w = [st |-> st, rows |-> list]
        OBVIOUS
    <2>4. w.st = st /\ w.rows = list
        BY <2>3
    <2>5. Trail(info[x], w, EndsOf(info[x])) /\ st.from = Until - 1 /\ x \in Objects
        BY <1>1, <2>1, <2>2, <2>3 DEF Finished, Tracks
    <2>6. /\ Spent(list) = st.from - info[x].from
          /\ \A n \in DOMAIN list : /\ list[n].until \in EndsOf(info[x])
                                    /\ list[n].from \in EndsOf(info[x]) \cup {info[x].from}
        BY <2>4, <2>5 DEF Trail
    <2>7. info[x].from \in Nat
        BY <1>1, FieldsAre DEF Tracks
    <2>8. total[x] = info[x].from - Since /\ info[x].from < Until
        BY <1>1 DEF TotalsKept
    <2>9. total'[x] = total[x] + Spent(list)
        BY <2>1, <2>5 DEF Finished
    <2>10. ASSUME ~info[x].mayNoLongerExist, NEW n \in DOMAIN list PROVE list[n].from <= list[n].until
        <3>1. EndsOf(info[x]) = {Until - 1}
            BY <2>10 DEF EndsOf
        <3> QED BY <1>1, <2>6, <2>7, <2>8, <3>1
    <2> QED BY <1>1, <2>1, <2>5, <2>6, <2>7, <2>8, <2>9, <2>10
<1>5. DurationsAddUp'
    BY <1>1, <1>2, <1>4 DEF DurationsAddUp
<1>6. TotalsKept'
    BY <1>1 DEF TotalsKept
<1> QED BY <1>3, <1>5, <1>6

\* So does every step.
LEMMA DurationsStay ==
    ASSUME Types, Listed(info), TimesKept, TotalsKept, VanishedKept, DurationsAddUp, [Next]_vars
    PROVE  TimesKept' /\ TotalsKept' /\ DurationsAddUp'
<1>1. CASE CoreUpdate \/ CoreGoesOn \/ UNCHANGED vars
    <2>1. UNCHANGED <<place, info, vague, rows, total, aborted, onlyUpdate>>
        BY <1>1 DEF CoreUpdate, CoreGoesOn, vars, query
    <2>2. minute' = minute \/ minute' = minute + 1
        BY <1>1 DEF CoreUpdate, CoreGoesOn, NextMinute, ReadPeriods, Update, vars, tpVars
    <2>3. minute \in Nat /\ Since \in Nat /\ Until \in Nat
        BY TypesAre, ObjectsAre
    <2>4. \A o \in DOMAIN info : info[o].lastKnown \in Nat /\ info[o].from \in Nat
        BY TypesAre, FieldsAre DEF Tracks
    <2>5. TimesKept'
        BY <2>1, <2>2, <2>3, <2>4 DEF TimesKept
    <2>6. TotalsKept'
        BY <2>1, <2>2, <2>3, <2>4 DEF TotalsKept
    <2>7. DurationsAddUp'
        BY <2>1 DEF DurationsAddUp
    <2> QED BY <2>5, <2>6, <2>7
<1>2. ASSUME NEW e, NEW B, Step(B, e), Steady(e)
      PROVE  TimesKept' /\ TotalsKept' /\ DurationsAddUp'
    <2>1. vague' = InDoubt(Null, e)
        BY <1>2 DEF Steady
    <2> QED BY <1>2, <2>1, TurnKeeps
<1>3. CASE Speaks
    <2>1. PICK o, e, B, F : Step(B, e) /\ Spoken(o, e, B, F)
        BY <1>3 DEF Speaks
    <2>2. vague' = InDoubt(o, e)
        BY <2>1 DEF Spoken
    <2> QED BY <2>1, <2>2, TurnKeeps
<1>4. CASE Finished
    BY <1>4, EndKeeps
<1>5. CASE Passed
    BY <1>2, <1>5 DEF Passed
<1>6. CASE \E t \in pending : Switches(t)
    BY <1>2, <1>6 DEF Switches
<1> QED BY <1>1, <1>3, <1>4, <1>5, <1>6, StepsAre

\* What the theorems on durations and changes need.
Passing == Types /\ Listed(info) /\ TimesKept /\ TotalsKept /\ VanishedKept /\ DurationsAddUp

\* What the theorems on durations, changes and states are proved from.
THEOREM PassingCorrect == Spec => []Passing
<1>1. Init => TimesKept /\ TotalsKept /\ VanishedKept /\ DurationsAddUp
    <2>1. SUFFICES ASSUME Init PROVE TimesKept /\ TotalsKept /\ VanishedKept /\ DurationsAddUp
        OBVIOUS
    <2>1a. rows = [o \in Objects |-> <<>>] /\ total = [o \in Objects |-> 0]
        BY <2>1 DEF Init
    <2>2. DOMAIN info = {} /\ onlyUpdate = TRUE /\ place = "reading" /\ \A o \in Objects : total[o] = 0
        BY <2>1, <2>1a DEF Init
    <2>3. \A o \in Objects : DOMAIN rows[o] = {}
        BY <2>1a
    <2> QED BY <2>2, <2>3 DEF TimesKept, TotalsKept, VanishedKept, DurationsAddUp
<1>2. Passing /\ [Next]_vars => Passing'
    BY TypesKept, ListedKept, DurationsStay, VanishedStays DEF Passing
<1>3. Init => Passing
    BY <1>1, TypesStart DEF Passing
<1> QED BY <1>2, <1>3, PTL DEF Spec

\* The rows of an object that is in no doubt cover the query's range once and without a
\* gap: at the end of a query that was not aborted their durations add up to the range.
THEOREM DurationsCorrect == Spec => []DurationsAddUp
<1>1. Passing => DurationsAddUp
    BY DEF Passing
<1> QED BY <1>1, PassingCorrect, PTL

\* What a turn changes of an object is on the rows that it reports.
LEMMA ChangeIsReported ==
    ASSUME Passing, NEW B, NEW e, Step(B, e), NEW x \in DOMAIN info, ~onlyUpdate',
           NEW f \in Shown, info'[x][f] # info[x][f]
    PROVE  /\ rows'[x] # <<>> /\ rows'[x][1].until <= minute
           /\ info'[x].from = rows'[x][Len(rows'[x])].until
           /\ \A g \in Shown : rows'[x][1][g] = info[x][g]
<1>1. Types /\ TimesKept /\ TotalsKept
    BY DEF Passing
<1>2. ~Quiet(minute) /\ minute \in Nat /\ e.time = minute
    BY <1>1, TypesAre, LinesAre DEF Step, IsLine
<1>3. x \in DOMAIN B /\ \A g \in Shown : B[x][g] = info[x][g]
    BY DEF Step, Based, Shown, Fields
<1>4. B[x].lastKnown \in Nat /\ B[x].lastKnown <= minute
    BY <1>1, <1>3, FoundFrom
<1>5. PICK st : st = info'[x]
    OBVIOUS
<1>6. PICK list : list = rows'[x]
    OBVIOUS
<1>7. PICK w : w = [st |-> st, rows |-> list]
    OBVIOUS
<1>8. w.st = st /\ w.rows = list
    BY <1>7
<1>9. History(B[x], w, Quiet(minute), TimesOf(B[x], e)) /\ list \in Seq(RowType)
    BY <1>3, <1>5, <1>6, <1>7 DEF Step, Based, Tracks, Reported
<1>10. Trail(B[x], w, TimesOf(B[x], e))
    BY <1>2, <1>9 DEF History
<1>11. /\ \A n \in DOMAIN list : list[n].until \in TimesOf(B[x], e)
       /\ list = <<>> => \A g \in Shown : st[g] = B[x][g]
       /\ list # <<>> => /\ st.from = list[Len(list)].until /\ \A g \in Shown : list[1][g] = B[x][g]
    BY <1>8, <1>10 DEF Trail
<1>12. list # <<>>
    BY <1>3, <1>5, <1>11
<1>13. 1 \in DOMAIN list
    BY <1>9, <1>12
<1>14. list[1].until <= minute
    BY <1>2, <1>4, <1>11, <1>13 DEF TimesOf
<1> QED BY <1>3, <1>5, <1>6, <1>11, <1>12, <1>14

\* Within the range nothing that a row shows changes without a row: process() is called
\* before every change, so that the first row shows what was, and ends by now.
THEOREM ChangesCorrect == Spec => ChangesReported
<1>1. ASSUME Passing, [Next]_vars, NEW x \in DOMAIN info, ~onlyUpdate', place' = "reading",
             NEW f \in DOMAIN told[x] \cup {"inPeriod"}, info'[x][f] # info[x][f]
      PROVE  /\ rows'[x] # <<>> /\ rows'[x][1].until <= minute
             /\ info'[x].from = rows'[x][Len(rows'[x])].until
             /\ \A g \in DOMAIN told[x] : rows'[x][1][g] = info[x][g]
    <2>1. Types /\ Listed(info) /\ x \in Objects
        BY <1>1, TypesAre DEF Passing, Tracks
    <2>2. DOMAIN told[x] = {"state", "hostDown", "inDowntime", "inHostDowntime", "flapping"}
        BY <2>1 DEF Types, ToldType
    <2>3. f \in Shown /\ DOMAIN told[x] \subseteq Shown
        BY <1>1, <2>2 DEF Shown
    <2>4. ~(CoreUpdate \/ CoreGoesOn \/ UNCHANGED vars) /\ ~Finished
        BY <1>1 DEF CoreUpdate, CoreGoesOn, vars, query, Finished
    <2>5. Passed \/ (\E t \in pending : Switches(t)) \/ Speaks
        BY <1>1, <2>1, <2>4, StepsAre
    <2>6. \E B, e : Step(B, e)
        BY <2>5 DEF Passed, Switches, Speaks
    <2>7. PICK B, e : Step(B, e)
        BY <2>6
    <2> QED BY <1>1, <2>3, <2>7, ChangeIsReported
<1>2. Passing /\ [Next]_vars =>
        [\A o \in DOMAIN info :
            /\ ~onlyUpdate' /\ place' = "reading"
            /\ \E field \in DOMAIN told[o] \cup {"inPeriod"} : info'[o][field] # info[o][field]
            => /\ rows'[o] # <<>> /\ rows'[o][1].until <= minute /\ info'[o].from = rows'[o][Len(rows'[o])].until
               /\ \A field \in DOMAIN told[o] : rows'[o][1][field] = info[o][field]]_vars
    BY <1>1
<1> QED BY <1>2, PassingCorrect, PTL DEF Spec, ChangesReported

-----------------------------------------------------------------------------
(* What the log told of an object                                          *)

\* The state st is what was told, t.
Matches(st, t) ==
    /\ IF t.state = Unsaid THEN st.state \in {-1, 0} ELSE st.state = t.state
    /\ st.hostDown = t.hostDown /\ st.inDowntime = t.inDowntime
    /\ st.inHostDowntime = t.inHostDowntime /\ st.flapping = t.flapping

\* StateIsTold, by object.
LEMMA MatchesIs ==
    ASSUME Types
    PROVE  StateIsTold <=> (place = "reading" => \A o \in DOMAIN info \ vague : Matches(info[o], told[o]))
<1>1. \A o \in DOMAIN info : DOMAIN told[o] = {"state", "hostDown", "inDowntime", "inHostDowntime", "flapping"}
    BY TypesAre DEF Types, ToldType, Tracks
<1>2. ASSUME NEW o \in DOMAIN info
      PROVE  (\A field \in DOMAIN told[o] :
                IF field = "state" /\ told[o].state = Unsaid THEN info[o].state \in {-1, 0}
                ELSE info[o][field] = told[o][field]) <=> Matches(info[o], told[o])
    BY <1>1, <1>2 DEF Matches
<1> QED BY <1>2 DEF StateIsTold

\* The word on an object is a word on it or on its host.
Mine(s, o) == s = o \/ (s \in Services /\ HostOf[s] = o)
Down(e) == e.state > 0

\* What is told of s when an entry concerns o.
Retold(t, o, e, s) ==
    /\ t[s].state = IF s = o /\ e.type \in HostStateTypes \cup ServiceStateTypes
                    THEN e.state ELSE told[s].state
    /\ t[s].hostDown = IF Mine(s, o) /\ e.type \in HostStateTypes THEN Down(e) ELSE told[s].hostDown
    /\ t[s].inDowntime = IF s = o /\ e.type \in {"DOWNTIME_ALERT_HOST", "DOWNTIME_ALERT_SERVICE"}
                         THEN Started(e) ELSE told[s].inDowntime
    /\ t[s].inHostDowntime = IF Mine(s, o) /\ e.type = "DOWNTIME_ALERT_HOST"
                             THEN Started(e) ELSE told[s].inHostDowntime
    /\ t[s].flapping = IF s = o /\ e.type \in {"FLAPPING_HOST", "FLAPPING_SERVICE"}
                       THEN Started(e) ELSE told[s].flapping

\* What is told, field by field.
LEMMA ToldIs ==
    ASSUME Types, NEW o, NEW e, NEW s \in Objects, NEW t, t = Told(o, e)
    PROVE  Retold(t, o, e, s)
<1>1. PICK was \in ToldType : was = told[s]
    BY DEF Types
<1>2. PICK state : state = IF (s = o) /\ e.type \in HostStateTypes \cup
                                 {"STATE_SERVICE", "STATE_SERVICE_INITIAL", "ALERT_SERVICE"}
                           THEN e.state ELSE was.state
    OBVIOUS
<1>3. PICK down : down = IF Mine(s, o) /\ e.type \in HostStateTypes THEN Down(e) ELSE was.hostDown
    OBVIOUS
<1>4. PICK downtime : downtime =
        IF (s = o) /\ e.type \in {"DOWNTIME_ALERT_HOST", "DOWNTIME_ALERT_SERVICE"}
        THEN Started(e) ELSE was.inDowntime
    OBVIOUS
<1>5. PICK hostDowntime : hostDowntime =
        IF Mine(s, o) /\ e.type = "DOWNTIME_ALERT_HOST" THEN Started(e) ELSE was.inHostDowntime
    OBVIOUS
<1>6. PICK flap : flap = IF (s = o) /\ e.type \in {"FLAPPING_HOST", "FLAPPING_SERVICE"}
                         THEN Started(e) ELSE was.flapping
    OBVIOUS
<1>7. t[s] = [was EXCEPT !.state = state, !.hostDown = down, !.inDowntime = downtime,
                         !.inHostDowntime = hostDowntime, !.flapping = flap]
    BY <1>1, <1>2, <1>3, <1>4, <1>5, <1>6 DEF Told, Mine, Down
<1>8. DOMAIN was = {"state", "hostDown", "inDowntime", "inHostDowntime", "flapping"}
    BY DEF ToldType
<1>9. /\ t[s].state = state /\ t[s].hostDown = down /\ t[s].inDowntime = downtime
      /\ t[s].inHostDowntime = hostDowntime /\ t[s].flapping = flap
    BY <1>7, <1>8
<1> QED BY <1>1, <1>2, <1>3, <1>4, <1>5, <1>6, <1>9 DEF ServiceStateTypes, Retold

\* What services take from their host is right in what a line finds.
LEMMA HostFound ==
    ASSUME Types, ToldKept, place = "reading", NEW B, NEW e, Based(B, e), NEW h \in DOMAIN B, h \in Hosts
    PROVE  /\ B[h].hostDown = told[h].hostDown /\ B[h].inHostDowntime = told[h].inHostDowntime
           /\ B[h].state # -1 => B[h].hostDown = (B[h].state > 0)
           /\ told[h].inDowntime = told[h].inHostDowntime
<1>1. h \in Objects
    BY DEF Based, Tracks
<1>2. told[h].inDowntime = told[h].inHostDowntime
    BY <1>1 DEF ToldKept, HostIsTold
<1>3. CASE h \in DOMAIN info
    <2>1. /\ B[h].hostDown = info[h].hostDown /\ B[h].inHostDowntime = info[h].inHostDowntime
          /\ B[h].state = info[h].state
        BY <1>3 DEF Based, Fields
    <2> QED BY <1>1, <1>2, <1>3, <2>1 DEF ToldKept, HostIsTold
<1>4. CASE h \notin DOMAIN info
    <2>1. B[h].hostDown = FALSE /\ B[h].inHostDowntime = FALSE /\ B[h].state \in {-1, 0}
        BY <1>4 DEF Based, IsNew
    <2>2. ~told[h].hostDown /\ ~told[h].inHostDowntime
        BY <1>1, <1>4 DEF ToldKept, ToldOfTracked
    <2>3. told[h].hostDown \in BOOLEAN /\ told[h].inHostDowntime \in BOOLEAN
        BY <1>1 DEF Types, ToldType
    <2>4. B[h].state # -1 => B[h].hostDown = (B[h].state > 0)
        <3>1. B[h].state # -1 => FALSE = (B[h].state > 0)
            BY <2>1
        <3> QED BY <2>1, <3>1, Zenon
    <2> QED BY <1>2, <2>1, <2>2, <2>3, <2>4
<1> QED BY <1>3, <1>4

\* And so is what was told of an object that is in no doubt.
LEMMA ObjectFound ==
    ASSUME Types, ToldKept, StateIsTold, place = "reading", NEW B, NEW e, Based(B, e),
           NEW x \in DOMAIN B, x \notin vague
    PROVE  Matches(B[x], told[x])
<1>1. x \in Objects
    BY DEF Based, Tracks
<1>2. CASE x \in DOMAIN info
    <2>1. Matches(info[x], told[x])
        BY <1>2, MatchesIs
    <2>2. \A f \in Shown : B[x][f] = info[x][f]
        BY <1>2 DEF Based, Fields, Shown
    <2> QED BY <2>1, <2>2 DEF Matches, Shown
<1>3. CASE x \notin DOMAIN info
    <2>1. IsNew(B[x], x, info)
        BY <1>3 DEF Based
    <2>2. told[x].state = Unsaid /\ ~told[x].inDowntime /\ ~told[x].flapping
        BY <1>1, <1>3 DEF ToldKept, ToldOfTracked
    <2>3. told[x].inDowntime \in BOOLEAN /\ told[x].flapping \in BOOLEAN
        BY <1>1 DEF Types, ToldType
    <2>4. B[x].state \in {-1, 0} /\ B[x].inDowntime = told[x].inDowntime /\ B[x].flapping = told[x].flapping
        BY <2>1, <2>2, <2>3 DEF IsNew
    <2>5. B[x].hostDown = told[x].hostDown /\ B[x].inHostDowntime = told[x].inHostDowntime
        <3>1. CASE x \in Hosts
            BY <3>1, HostFound
        <3>2. CASE x \in Services
            <4>1. PICK h \in Hosts : h = HostOf[x]
                BY <3>2, ObjectsAre
            <4>2. /\ B[x].hostDown = (h \in DOMAIN info /\ info[h].hostDown)
                  /\ B[x].inHostDowntime = (h \in DOMAIN info /\ info[h].inHostDowntime)
                BY <2>1, <3>2, <4>1 DEF IsNew
            <4>3. /\ told[x].hostDown = (h \in Objects /\ told[h].hostDown)
                  /\ told[x].inHostDowntime = (h \in Objects /\ told[h].inHostDowntime)
                BY <1>1, <3>2, <4>1 DEF ToldKept, ToldOfHost
            <4>4. CASE h \in DOMAIN info
                <5>1. h \in Objects
                    BY <4>4, TypesAre DEF Tracks
                <5>2. info[h].hostDown = told[h].hostDown /\ info[h].inHostDowntime = told[h].inHostDowntime
                    BY <4>4, <5>1 DEF ToldKept, HostIsTold
                <5> QED BY <4>2, <4>3, <4>4, <5>1, <5>2
            <4>5. CASE h \notin DOMAIN info
                <5>1. h \in Objects => ~told[h].hostDown /\ ~told[h].inHostDowntime
                    BY <4>5 DEF ToldKept, ToldOfTracked
                <5> QED BY <4>2, <4>3, <4>5, <5>1
            <4> QED BY <4>4, <4>5
        <3> QED BY <1>1, <3>1, <3>2, ObjectsAre
    <2> QED BY <2>2, <2>4, <2>5 DEF Matches
<1> QED BY <1>2, <1>3

\* A line about an object, and what it is of.
LEMMA SpeakerIs ==
    ASSUME NEW o, NEW e, NEW B, NEW F, Step(B, e), Spoken(o, e, B, F)
    PROVE  /\ o \in Objects /\ o \in DOMAIN B /\ e.type \in ObjectTypes
           /\ place = "reading" /\ Based(B, e) /\ DOMAIN info' = DOMAIN B /\ Listed(B)
           /\ e.state \in 0 .. 4
           /\ e.type \in HostStateTypes \cup {"DOWNTIME_ALERT_HOST", "FLAPPING_HOST"} =>
                o \in Hosts /\ o \notin Services
           /\ e.type \in ServiceStateTypes \cup {"DOWNTIME_ALERT_SERVICE", "FLAPPING_SERVICE"} =>
                o \in Services /\ o \notin Hosts
<1>1. /\ o \in Objects /\ o \in DOMAIN B /\ e.type \in ObjectTypes /\ o \in Concerned(e) /\ Listed(B)
    BY DEF Spoken
<1>2. place = "reading" /\ Based(B, e) /\ DOMAIN info' = DOMAIN B /\ e.state \in 0 .. 4
    BY LinesAre DEF Step, Reported, IsLine
<1>3. \/ e.type \in ServiceTypes /\ o \in Services /\ e.type \notin HostTypes
      \/ e.type \in HostTypes /\ o \in Hosts /\ e.type \notin ServiceTypes
    BY <1>1, ConcernedIs
<1>4. ~(o \in Hosts /\ o \in Services)
    BY ObjectsAre
<1> QED BY <1>1, <1>2, <1>3, <1>4
        DEF ServiceTypes, HostTypes, HostStateTypes, ServiceStateTypes

\* A host or a service is one of them.
LEMMA MineIs ==
    ASSUME NEW o \in Hosts, NEW s
    PROVE  /\ s \in Services => (Mine(s, o) <=> HostOf[s] = o)
           /\ s \in Hosts => (Mine(s, o) <=> s = o)
BY ObjectsAre DEF Mine

\* A word on a host is one on its services.
LEMMA ToldOfHostKept ==
    ASSUME Types, ToldKept, NEW o, NEW e, NEW B, NEW F, Step(B, e), Spoken(o, e, B, F)
    PROVE  ToldOfHost'
<1>1. SUFFICES ASSUME NEW s \in Services \cap Objects
               PROVE  /\ told'[s].hostDown = (HostOf[s] \in Objects /\ told'[HostOf[s]].hostDown)
                      /\ told'[s].inHostDowntime = (HostOf[s] \in Objects /\ told'[HostOf[s]].inHostDowntime)
    BY DEF ToldOfHost
<1>2. PICK t : t = Told(o, e) /\ t = told'
    BY DEF Spoken
<1>3. PICK h \in Hosts : h = HostOf[s]
    BY ObjectsAre
<1>4. /\ told[s].hostDown = (h \in Objects /\ told[h].hostDown)
      /\ told[s].inHostDowntime = (h \in Objects /\ told[h].inHostDowntime)
    BY <1>1, <1>3, SpeakerIs DEF ToldKept, ToldOfHost
<1>5. /\ t[s].hostDown = IF Mine(s, o) /\ e.type \in HostStateTypes THEN Down(e) ELSE told[s].hostDown
      /\ t[s].inHostDowntime = IF Mine(s, o) /\ e.type = "DOWNTIME_ALERT_HOST"
                               THEN Started(e) ELSE told[s].inHostDowntime
    <2>1. Retold(t, o, e, s)
        BY <1>2, ToldIs
    <2> QED BY <2>1 DEF Retold
<1>6. h \in Objects =>
        /\ t[h].hostDown = IF Mine(h, o) /\ e.type \in HostStateTypes THEN Down(e) ELSE told[h].hostDown
        /\ t[h].inHostDowntime = IF Mine(h, o) /\ e.type = "DOWNTIME_ALERT_HOST"
                                 THEN Started(e) ELSE told[h].inHostDowntime
    <2>1. h \in Objects => Retold(t, o, e, h)
        BY <1>2, ToldIs
    <2> QED BY <2>1 DEF Retold
<1>7. e.type \in HostStateTypes \cup {"DOWNTIME_ALERT_HOST"} =>
        /\ o \in Objects /\ o \in Hosts
        /\ Mine(s, o) <=> h = o
        /\ Mine(h, o) <=> h = o
    BY <1>3, SpeakerIs, MineIs
<1>8. Down(e) \in BOOLEAN /\ Started(e) \in BOOLEAN
    BY DEF Down, Started
<1> QED BY <1>2, <1>3, <1>4, <1>5, <1>6, <1>7, <1>8

\* Nothing is told of objects that are not tracked.
LEMMA ToldOfTrackedKept ==
    ASSUME Types, ToldKept, NEW o, NEW e, NEW B, NEW F, Step(B, e), Spoken(o, e, B, F)
    PROVE  ToldOfTracked'
<1>1. SUFFICES ASSUME NEW x \in Objects, x \notin DOMAIN info'
               PROVE  /\ told'[x].state = Unsaid /\ ~told'[x].inDowntime /\ ~told'[x].flapping
                      /\ x \in Hosts => ~told'[x].hostDown /\ ~told'[x].inHostDowntime
    BY DEF ToldOfTracked
<1>2. PICK t : t = Told(o, e) /\ t = told'
    BY DEF Spoken
<1>3. x # o /\ x \notin DOMAIN info
    BY <1>1, SpeakerIs DEF Based
<1>4. /\ told[x].state = Unsaid /\ ~told[x].inDowntime /\ ~told[x].flapping
      /\ x \in Hosts => ~told[x].hostDown /\ ~told[x].inHostDowntime
    BY <1>3, SpeakerIs DEF ToldKept, ToldOfTracked
<1>0. Retold(t, o, e, x)
    BY <1>2, ToldIs
<1>5. t[x].state = told[x].state /\ t[x].inDowntime = told[x].inDowntime /\ t[x].flapping = told[x].flapping
    BY <1>0, <1>3 DEF Retold
<1>6. x \in Hosts => t[x].hostDown = told[x].hostDown /\ t[x].inHostDowntime = told[x].inHostDowntime
    <2>1. x \in Hosts => ~Mine(x, o)
        BY <1>3, ObjectsAre DEF Mine
    <2> QED BY <1>0, <2>1 DEF Retold
<1> QED BY <1>2, <1>4, <1>5, <1>6

\* A host that is in the state it is said to be in is as down as it is said.
LEMMA AlreadyDown ==
    ASSUME NEW st \in HostServiceState, NEW e, e.state \in 0 .. 4, StateWas(st, e) = e.state,
           st.state # -1 => st.hostDown = (st.state > 0)
    PROVE  st.hostDown = Down(e)
<1>1. st.state = e.state /\ st.state # -1
    BY DEF StateWas
<1>2. st.hostDown = (e.state > 0)
    BY <1>1
<1> QED BY <1>2 DEF Down

\* A host's own state and downtime are what was told of it, in doubt or not.
LEMMA HostIsToldKept ==
    ASSUME Types, ToldKept, NEW o, NEW e, NEW B, NEW F, Step(B, e), Spoken(o, e, B, F)
    PROVE  HostIsTold'
<1>1. SUFFICES ASSUME NEW h \in Hosts \cap Objects
               PROVE  /\ told'[h].inDowntime = told'[h].inHostDowntime
                      /\ h \in DOMAIN info' =>
                            /\ info'[h].hostDown = told'[h].hostDown
                            /\ info'[h].inHostDowntime = told'[h].inHostDowntime
                            /\ info'[h].state # -1 => info'[h].hostDown = (info'[h].state > 0)
    BY DEF HostIsTold
<1>2. PICK t : t = Told(o, e) /\ t = told'
    BY DEF Spoken
<1>3. told[h].inDowntime = told[h].inHostDowntime
    BY SpeakerIs DEF ToldKept, HostIsTold
<1>4. /\ t[h].inDowntime = IF h = o /\ e.type \in {"DOWNTIME_ALERT_HOST", "DOWNTIME_ALERT_SERVICE"}
                           THEN Started(e) ELSE told[h].inDowntime
      /\ t[h].hostDown = IF Mine(h, o) /\ e.type \in HostStateTypes THEN Down(e) ELSE told[h].hostDown
      /\ t[h].inHostDowntime = IF Mine(h, o) /\ e.type = "DOWNTIME_ALERT_HOST"
                               THEN Started(e) ELSE told[h].inHostDowntime
    <2>1. Retold(t, o, e, h)
        BY <1>2, ToldIs
    <2> QED BY <2>1 DEF Retold
<1>5. Mine(h, o) <=> h = o
    BY ObjectsAre DEF Mine
<1>6. h = o => e.type # "DOWNTIME_ALERT_SERVICE"
    BY SpeakerIs
<1>7. t[h].inDowntime = t[h].inHostDowntime
    BY <1>3, <1>4, <1>5, <1>6
<1>8. ASSUME h \in DOMAIN info'
      PROVE  /\ info'[h].hostDown = t[h].hostDown /\ info'[h].inHostDowntime = t[h].inHostDowntime
             /\ info'[h].state # -1 => info'[h].hostDown = (info'[h].state > 0)
    <2>1. /\ B[h].hostDown = told[h].hostDown /\ B[h].inHostDowntime = told[h].inHostDowntime
          /\ B[h].state # -1 => B[h].hostDown = (B[h].state > 0)
        BY <1>8, HostFound, SpeakerIs
    <2>2. h \notin Services /\ h \notin F
        BY ObjectsAre DEF Spoken
    <2>3. CASE h # o
        <3>1. info'[h] = B[h]
            BY <1>8, <2>2, <2>3, SpeakerIs DEF Spoken
        <3> QED BY <1>4, <1>5, <2>1, <2>3, <3>1
    <2>4. CASE h = o
        <3>1. PICK changed \in BOOLEAN : Updated(B[h], info'[h], changed, h, e)
            BY <2>4 DEF Spoken
        <3>2. PICK st : st = info'[h]
            OBVIOUS
        <3>3. PICK a \in HostServiceState : a = B[h]
            BY <1>8, SpeakerIs DEF Based, Tracks
        <3>4. /\ st.state = IF e.type \in ServiceStateTypes \/ e.type \in HostStateTypes
                            THEN e.state ELSE StateWas(a, e)
              /\ st.hostDown = IF e.type \in HostStateTypes /\ StateWas(a, e) # e.state THEN Down(e) ELSE a.hostDown
              /\ st.inHostDowntime = IF e.type = "DOWNTIME_ALERT_HOST" THEN Started(e) ELSE a.inHostDowntime
            BY <2>2, <3>1, <3>2, <3>3 DEF Updated, Down
        <3>5. StateWas(a, e) = e.state => a.hostDown = Down(e)
            BY <2>1, <3>3, AlreadyDown, SpeakerIs
        <3>6. CASE e.type \in HostStateTypes
            <4>1. st.state = e.state /\ st.hostDown = Down(e) /\ e.type # "DOWNTIME_ALERT_HOST"
                BY <3>4, <3>5, <3>6 DEF HostStateTypes
            <4> QED BY <1>4, <1>5, <2>1, <2>4, <3>2, <3>3, <3>4, <3>6, <4>1 DEF Down
        <3>7. CASE e.type \notin HostStateTypes
            <4>1. e.type \notin ServiceStateTypes
                BY <2>2, <2>4, SpeakerIs
            <4>2. st.state = StateWas(a, e) /\ st.hostDown = a.hostDown
                BY <3>4, <3>7, <4>1
            <4>3. st.state # -1 => st.hostDown = (st.state > 0)
                <5>1. st.state # -1 => st.state = a.state
                    BY <4>2 DEF StateWas
                <5> QED BY <2>1, <3>3, <4>2, <5>1
            <4> QED BY <1>4, <1>5, <2>1, <2>4, <3>2, <3>3, <3>4, <3>7, <4>2, <4>3
        <3> QED BY <3>6, <3>7
    <2> QED BY <2>3, <2>4
<1> QED BY <1>2, <1>7, <1>8

\* What an entry leaves of an object that was not away.
LEMMA UpdatedIs ==
    ASSUME NEW a \in HostServiceState, NEW st, NEW changed, NEW x, NEW e,
           Updated(a, st, changed, x, e), ~Back(a, e)
    PROVE  /\ st.state = IF \/ e.type \in ServiceStateTypes
                            \/ e.type \in HostStateTypes /\ x \notin Services THEN e.state ELSE a.state
           /\ st.hostDown = IF e.type \in HostStateTypes /\ (x \in Services \/ a.state # e.state)
                            THEN Down(e) ELSE a.hostDown
           /\ st.inHostDowntime = IF e.type = "DOWNTIME_ALERT_HOST" THEN Started(e) ELSE a.inHostDowntime
           /\ st.inDowntime = IF \/ e.type = "DOWNTIME_ALERT_SERVICE"
                                 \/ /\ e.type = "DOWNTIME_ALERT_HOST" /\ x \in Hosts
                                    /\ a.inHostDowntime # Started(e)
                              THEN Started(e) ELSE a.inDowntime
           /\ st.flapping = IF e.type \in {"FLAPPING_HOST", "FLAPPING_SERVICE"}
                            THEN Started(e) ELSE a.flapping
<1>1. a.inDowntime \in BOOLEAN /\ a.flapping \in BOOLEAN
    BY FieldsAre
<1>2. (a.inDowntime /\ ~Back(a, e)) = a.inDowntime /\ (a.flapping /\ ~Back(a, e)) = a.flapping
    BY <1>1
<1>3. StateWas(a, e) = a.state
    BY DEF StateWas
<1> QED BY <1>2, <1>3 DEF Updated, Down

\* The object that an entry is about becomes what the entry says of it.
LEMMA OwnMatches ==
    ASSUME Types, ToldKept, StateIsTold, VanishedKept, NEW o, NEW e, NEW B, NEW F,
           Step(B, e), Spoken(o, e, B, F), o \notin vague'
    PROVE  Matches(info'[o], told'[o])
<1>1. /\ o \in Objects /\ o \in DOMAIN B /\ place = "reading" /\ Based(B, e) /\ e.state \in 0 .. 4
      /\ e.type \in HostStateTypes \cup {"DOWNTIME_ALERT_HOST", "FLAPPING_HOST"} =>
           o \in Hosts /\ o \notin Services
      /\ e.type \in ServiceStateTypes \cup {"DOWNTIME_ALERT_SERVICE", "FLAPPING_SERVICE"} =>
           o \in Services /\ o \notin Hosts
    BY SpeakerIs
<1>2. o \notin vague /\ ~Back(B[o], e)
    BY <1>1, NotBack DEF Spoken
<1>3. PICK a \in HostServiceState : a = B[o]
    BY <1>1 DEF Based, Tracks
<1>4. PICK st : st = info'[o]
    OBVIOUS
<1>5. PICK changed \in BOOLEAN : Updated(a, st, changed, o, e)
    BY <1>3, <1>4 DEF Spoken
<1>6. PICK t : t = Told(o, e) /\ t = told'
    BY DEF Spoken
<1>7. PICK s : s = t[o]
    OBVIOUS
<1>8. Matches(a, told[o])
    BY <1>1, <1>2, <1>3, ObjectFound
<1>9. PICK was : was = told[o]
    OBVIOUS
<1>10. /\ s.state = IF e.type \in HostStateTypes \cup ServiceStateTypes THEN e.state ELSE was.state
       /\ s.hostDown = IF e.type \in HostStateTypes THEN Down(e) ELSE was.hostDown
       /\ s.inDowntime = IF e.type \in {"DOWNTIME_ALERT_HOST", "DOWNTIME_ALERT_SERVICE"}
                         THEN Started(e) ELSE was.inDowntime
       /\ s.inHostDowntime = IF e.type = "DOWNTIME_ALERT_HOST" THEN Started(e) ELSE was.inHostDowntime
       /\ s.flapping = IF e.type \in {"FLAPPING_HOST", "FLAPPING_SERVICE"} THEN Started(e) ELSE was.flapping
    <2>1. Retold(t, o, e, o)
        BY <1>1, <1>6, ToldIs
    <2>2. Mine(o, o)
        BY DEF Mine
    <2> QED BY <1>7, <1>9, <2>1, <2>2 DEF Retold
<1>11. /\ IF was.state = Unsaid THEN a.state \in {-1, 0} ELSE a.state = was.state
       /\ a.hostDown = was.hostDown /\ a.inDowntime = was.inDowntime
       /\ a.inHostDowntime = was.inHostDowntime /\ a.flapping = was.flapping
    BY <1>8, <1>9 DEF Matches
<1>12. IF s.state = Unsaid THEN st.state \in {-1, 0} ELSE st.state = s.state
    <2>1. st.state = IF e.type \in ServiceStateTypes \cup HostStateTypes THEN e.state ELSE a.state
        BY <1>1, <1>2, <1>3, <1>5, UpdatedIs
    <2> QED BY <1>1, <1>10, <1>11, <2>1 DEF Unsaid
<1>13. st.hostDown = s.hostDown
    <2>1. st.hostDown = IF e.type \in HostStateTypes /\ (o \in Services \/ a.state # e.state)
                        THEN Down(e) ELSE a.hostDown
        BY <1>2, <1>3, <1>5, UpdatedIs
    <2>2. CASE e.type \in HostStateTypes /\ a.state = e.state
        <3>1. o \in Hosts /\ StateWas(a, e) = e.state
            BY <1>1, <1>2, <1>3, <2>2 DEF StateWas
        <3>2. a.state # -1 => a.hostDown = (a.state > 0)
            BY <1>1, <1>3, <3>1, HostFound
        <3>3. a.hostDown = Down(e)
            BY <1>1, <3>1, <3>2, AlreadyDown
        <3> QED BY <1>1, <1>10, <2>1, <2>2, <3>3
    <2>3. CASE ~(e.type \in HostStateTypes /\ a.state = e.state)
        BY <1>10, <1>11, <2>1, <2>3
    <2> QED BY <2>2, <2>3
<1>14. st.inHostDowntime = s.inHostDowntime
    <2>1. st.inHostDowntime = IF e.type = "DOWNTIME_ALERT_HOST" THEN Started(e) ELSE a.inHostDowntime
        BY <1>2, <1>3, <1>5, UpdatedIs
    <2> QED BY <1>10, <1>11, <2>1
<1>15. st.inDowntime = s.inDowntime
    <2>1. st.inDowntime = IF \/ e.type = "DOWNTIME_ALERT_SERVICE"
                             \/ /\ e.type = "DOWNTIME_ALERT_HOST" /\ o \in Hosts
                                /\ a.inHostDowntime # Started(e)
                          THEN Started(e) ELSE a.inDowntime
        BY <1>2, <1>3, <1>5, UpdatedIs
    <2>2. CASE e.type = "DOWNTIME_ALERT_HOST"
        <3>1. o \in Hosts
            BY <1>1, <2>2
        <3>2. told[o].inDowntime = told[o].inHostDowntime
            BY <1>1, <3>1, HostFound
        <3>3. a.inDowntime = a.inHostDowntime
            BY <1>9, <1>11, <3>2
        <3>4. s.inDowntime = Started(e)
            BY <1>10, <2>2
        <3>5. st.inDowntime = IF a.inHostDowntime # Started(e) THEN Started(e) ELSE a.inDowntime
            BY <2>1, <2>2, <3>1
        <3> QED BY <3>3, <3>4, <3>5
    <2>3. CASE e.type # "DOWNTIME_ALERT_HOST"
        BY <1>10, <1>11, <2>1, <2>3
    <2> QED BY <2>2, <2>3
<1>16. st.flapping = s.flapping
    <2>1. st.flapping = IF e.type \in {"FLAPPING_HOST", "FLAPPING_SERVICE"} THEN Started(e) ELSE a.flapping
        BY <1>2, <1>3, <1>5, UpdatedIs
    <2> QED BY <1>10, <1>11, <2>1
<1> QED BY <1>4, <1>6, <1>7, <1>12, <1>13, <1>14, <1>15, <1>16 DEF Matches

\* The line is about the object's host, and the object is told or need not be.
LEMMA HostConcerns ==
    ASSUME Types, ToldKept, VanishedKept, StateIsTold, NEW o, NEW e, NEW B, NEW F,
           Step(B, e), Spoken(o, e, B, F),
           NEW x \in DOMAIN B, x \in Services, HostOf[x] = o, o \in Hosts, x \notin vague', x \notin F
    PROVE  /\ e.type \in HostStateTypes => B[x].hostDown = Down(e)
           /\ e.type = "DOWNTIME_ALERT_HOST" => B[x].inHostDowntime = Started(e)
<1>1. /\ o \in Objects /\ o \in DOMAIN B /\ place = "reading" /\ Based(B, e) /\ e.state \in 0 .. 4
      /\ Listed(B) /\ o \notin Services
    BY SpeakerIs, ObjectsAre
<1>2. PICK changed \in BOOLEAN :
        /\ Updated(B[o], info'[o], changed, o, e)
        /\ F = IF changed /\ e.type \in {"ALERT_HOST", "STATE_HOST", "DOWNTIME_ALERT_HOST"}
               THEN B[o].services ELSE {}
    BY DEF Spoken
<1>3. x \in B[o].services
    <2>1. B[o].services = ServicesOf(o, B)
        BY <1>1 DEF Listed
    <2> QED BY <2>1 DEF ServicesOf
<1>4. e.type \in {"ALERT_HOST", "STATE_HOST", "DOWNTIME_ALERT_HOST"} => changed = FALSE
    BY <1>2, <1>3
<1>5. x \in Objects /\ x \notin vague
    BY <1>1, DoubtIs DEF Based, Tracks, Spoken
<1>6. Matches(B[x], told[x])
    BY <1>1, <1>5, ObjectFound
<1>7. /\ told[x].hostDown = (o \in Objects /\ told[o].hostDown)
      /\ told[x].inHostDowntime = (o \in Objects /\ told[o].inHostDowntime)
    BY <1>1, <1>5 DEF ToldKept, ToldOfHost
<1>8. told[o].hostDown \in BOOLEAN /\ told[o].inHostDowntime \in BOOLEAN
    BY <1>1 DEF Types, ToldType
<1>9. B[x].hostDown = told[o].hostDown /\ B[x].inHostDowntime = told[o].inHostDowntime
    BY <1>1, <1>6, <1>7, <1>8 DEF Matches
<1>10. /\ B[o].hostDown = told[o].hostDown /\ B[o].inHostDowntime = told[o].inHostDowntime
       /\ B[o].state # -1 => B[o].hostDown = (B[o].state > 0)
    BY <1>1, HostFound
<1>11. PICK a \in HostServiceState : a = B[o]
    BY <1>1 DEF Based, Tracks
<1>12. ASSUME e.type \in HostStateTypes PROVE B[x].hostDown = Down(e)
    <2>1. e.type # "STATE_HOST_INITIAL"
        BY <1>5 DEF Spoken, InDoubt
    <2>2. changed = FALSE
        BY <1>4, <1>12, <2>1 DEF HostStateTypes
    <2>3. changed = (StateWas(a, e) # e.state)
        BY <1>1, <1>2, <1>11, <1>12 DEF Updated
    <2>4. a.hostDown = Down(e)
        BY <1>1, <1>10, <1>11, <2>2, <2>3, AlreadyDown
    <2> QED BY <1>9, <1>10, <1>11, <2>4
<1>13. ASSUME e.type = "DOWNTIME_ALERT_HOST" PROVE B[x].inHostDowntime = Started(e)
    <2>1. changed = FALSE
        BY <1>4, <1>13
    <2>2. changed = (a.inHostDowntime # Started(e))
        BY <1>2, <1>11, <1>13 DEF Updated
    <2> QED BY <1>9, <1>10, <1>11, <2>1, <2>2
<1> QED BY <1>12, <1>13

\* And every other object what the entry says of its host.
LEMMA OtherMatches ==
    ASSUME Types, ToldKept, StateIsTold, VanishedKept, NEW o, NEW e, NEW B, NEW F,
           Step(B, e), Spoken(o, e, B, F), NEW x \in DOMAIN B, x # o, x \notin vague'
    PROVE  Matches(info'[x], told'[x])
<1>1. /\ o \in Objects /\ o \in DOMAIN B /\ place = "reading" /\ Based(B, e)
      /\ e.type \in HostStateTypes \cup {"DOWNTIME_ALERT_HOST", "FLAPPING_HOST"} =>
           o \in Hosts /\ o \notin Services
    BY SpeakerIs
<1>2. x \notin vague /\ ~Back(B[x], e)
    BY NotBack DEF Spoken
<1>3. PICK a \in HostServiceState : a = B[x]
    BY <1>1 DEF Based, Tracks
<1>4. PICK st : st = info'[x]
    OBVIOUS
<1>5. PICK t : t = Told(o, e) /\ t = told'
    BY DEF Spoken
<1>6. PICK s : s = t[x]
    OBVIOUS
<1>7. PICK was : was = told[x]
    OBVIOUS
<1>8. x \in Objects
    BY <1>1 DEF Based, Tracks
<1>9. /\ IF was.state = Unsaid THEN a.state \in {-1, 0} ELSE a.state = was.state
      /\ a.hostDown = was.hostDown /\ a.inDowntime = was.inDowntime
      /\ a.inHostDowntime = was.inHostDowntime /\ a.flapping = was.flapping
    BY <1>1, <1>2, <1>3, <1>7, ObjectFound DEF Matches
<1>10. /\ s.state = was.state /\ s.inDowntime = was.inDowntime /\ s.flapping = was.flapping
       /\ s.hostDown = IF Mine(x, o) /\ e.type \in HostStateTypes THEN Down(e) ELSE was.hostDown
       /\ s.inHostDowntime = IF Mine(x, o) /\ e.type = "DOWNTIME_ALERT_HOST"
                             THEN Started(e) ELSE was.inHostDowntime
    <2>1. Retold(t, o, e, x)
        BY <1>5, <1>8, ToldIs
    <2> QED BY <1>6, <1>7, <2>1 DEF Retold
<1>11. CASE x \in F
    <2>1. PICK changed \in BOOLEAN : Updated(a, st, changed, x, e)
        BY <1>3, <1>4, <1>11 DEF Spoken
    <2>2. /\ e.type \in {"ALERT_HOST", "STATE_HOST", "DOWNTIME_ALERT_HOST"} /\ x \in B[o].services
          /\ Listed(B)
        BY <1>11 DEF Spoken
    <2>3. o \in Hosts /\ x \in Services /\ x \notin Hosts
        BY <1>1, <1>11, <2>2, ObjectsAre DEF Spoken, HostStateTypes
    <2>4. Mine(x, o)
        <3>1. B[o].services = ServicesOf(o, B)
            BY <1>1, <2>2, <2>3 DEF Listed
        <3> QED BY <2>2, <2>3, <3>1 DEF ServicesOf, Mine
    <2>5. /\ e.type \notin ServiceStateTypes /\ e.type # "DOWNTIME_ALERT_SERVICE"
          /\ e.type \notin {"FLAPPING_HOST", "FLAPPING_SERVICE"}
          /\ e.type \in HostStateTypes <=> e.type # "DOWNTIME_ALERT_HOST"
        BY <2>2 DEF ServiceStateTypes, HostStateTypes
    <2>6. /\ st.state = a.state /\ st.inDowntime = a.inDowntime /\ st.flapping = a.flapping
          /\ st.hostDown = IF e.type \in HostStateTypes THEN Down(e) ELSE a.hostDown
          /\ st.inHostDowntime = IF e.type = "DOWNTIME_ALERT_HOST" THEN Started(e) ELSE a.inHostDowntime
        BY <1>2, <1>3, <2>1, <2>3, <2>5, UpdatedIs
    <2>7. st.hostDown = s.hostDown /\ st.inHostDowntime = s.inHostDowntime
        BY <1>9, <1>10, <2>4, <2>6
    <2> QED BY <1>4, <1>5, <1>6, <1>9, <1>10, <2>6, <2>7 DEF Matches
<1>12. CASE x \notin F
    <2>1. st = a
        BY <1>3, <1>4, <1>12 DEF Spoken
    <2>2. Mine(x, o) => x \in Services /\ HostOf[x] = o /\ o \in Hosts
        BY ObjectsAre DEF Mine
    <2>3. Mine(x, o) => /\ e.type \in HostStateTypes => a.hostDown = Down(e)
                        /\ e.type = "DOWNTIME_ALERT_HOST" => a.inHostDowntime = Started(e)
        BY <1>3, <1>12, <2>2, HostConcerns
    <2>4. a.hostDown = s.hostDown /\ a.inHostDowntime = s.inHostDowntime
        BY <1>9, <1>10, <2>3
    <2> QED BY <1>4, <1>5, <1>6, <1>9, <1>10, <2>1, <2>4 DEF Matches
<1> QED BY <1>11, <1>12

\* Told is what matches, in the next state too.
LEMMA MatchesNext ==
    ASSUME Types', place' = "reading" => \A o \in DOMAIN info' \ vague' : Matches(info'[o], told'[o])
    PROVE  StateIsTold'
<1>1. SUFFICES ASSUME place' = "reading", NEW o \in DOMAIN info', o \notin vague', NEW field \in DOMAIN told'[o]
               PROVE  IF field = "state" /\ told'[o].state = Unsaid THEN info'[o].state \in {-1, 0}
                      ELSE info'[o][field] = told'[o][field]
    BY DEF StateIsTold
<1>2. o \in Objects
    BY <1>1 DEF Types, TypeOK
<1>3. field \in {"state", "hostDown", "inDowntime", "inHostDowntime", "flapping"}
    BY <1>1, <1>2 DEF Types, ToldType
<1>4. Matches(info'[o], told'[o])
    BY <1>1
<1> QED BY <1>3, <1>4 DEF Matches

\* An entry about an object keeps the states to what was told.
LEMMA SpokenIsTold ==
    ASSUME Types, Types', ToldKept, StateIsTold, VanishedKept, NEW o, NEW e, NEW B, NEW F,
           Step(B, e), Spoken(o, e, B, F)
    PROVE  ToldKept' /\ StateIsTold'
<1>1. ToldKept'
    BY ToldOfHostKept, ToldOfTrackedKept, HostIsToldKept DEF ToldKept
<1>2. DOMAIN info' = DOMAIN B
    BY SpeakerIs
<1>3. \A x \in DOMAIN B : x \notin vague' => Matches(info'[x], told'[x])
    BY OwnMatches, OtherMatches
<1> QED BY <1>1, <1>2, <1>3, MatchesNext

\* A turn that leaves all objects as they were does too.
LEMMA SteadyIsTold ==
    ASSUME Types, Types', ToldKept, StateIsTold, place = "reading", NEW e, Steady(e)
    PROVE  ToldKept' /\ StateIsTold'
<1>1. told' = told /\ DOMAIN info' = DOMAIN info /\ vague \subseteq vague'
    BY DoubtIs DEF Steady
<1>2. \A x \in DOMAIN info : \A f \in {"state", "hostDown", "inDowntime", "inHostDowntime", "flapping", "services"} :
                info'[x][f] = info[x][f]
    BY DEF Steady
<1>3. \A x \in DOMAIN info : /\ info'[x].state = info[x].state /\ info'[x].hostDown = info[x].hostDown
                             /\ info'[x].inDowntime = info[x].inDowntime
                             /\ info'[x].inHostDowntime = info[x].inHostDowntime
                             /\ info'[x].flapping = info[x].flapping
    BY <1>2
<1>4. ToldOfHost' /\ ToldOfTracked'
    BY <1>1 DEF ToldKept, ToldOfHost, ToldOfTracked
<1>5. HostIsTold'
    BY <1>1, <1>3 DEF ToldKept, HostIsTold
<1>6. \A x \in DOMAIN info : x \notin vague => Matches(info[x], told[x])
    BY MatchesIs
<1>7. \A x \in DOMAIN info' \ vague' : Matches(info'[x], told'[x])
    BY <1>1, <1>3, <1>6 DEF Matches
<1>8. StateIsTold'
    BY <1>7, MatchesNext
<1> QED BY <1>4, <1>5, <1>8 DEF ToldKept

\* So does every step.
LEMMA ToldStays ==
    ASSUME Types, Types', Listed(info), VanishedKept, ToldKept, StateIsTold, [Next]_vars
    PROVE  ToldKept' /\ StateIsTold'
<1>1. CASE CoreUpdate \/ CoreGoesOn \/ UNCHANGED vars
    <2>1. UNCHANGED <<place, info, vague, told>>
        BY <1>1 DEF CoreUpdate, CoreGoesOn, vars, query
    <2>2. ToldKept'
        BY <2>1 DEF ToldKept, ToldOfHost, ToldOfTracked, HostIsTold
    <2>3. StateIsTold'
        BY <2>1 DEF StateIsTold
    <2> QED BY <2>2, <2>3
<1>2. ASSUME NEW e, NEW B, Step(B, e), Steady(e)
      PROVE  ToldKept' /\ StateIsTold'
    BY <1>2, LinesAre, SteadyIsTold
<1>3. CASE Speaks
    <2>1. PICK o, e, B, F : Step(B, e) /\ Spoken(o, e, B, F)
        BY <1>3 DEF Speaks
    <2> QED BY <2>1, SpokenIsTold
<1>4. CASE Finished
    BY <1>4 DEF Finished, ToldKept, StateIsTold
<1>5. CASE Passed
    BY <1>2, <1>5 DEF Passed
<1>6. CASE \E t \in pending : Switches(t)
    BY <1>2, <1>6 DEF Switches
<1> QED BY <1>1, <1>3, <1>4, <1>5, <1>6, StepsAre

\* Nothing was told before the first line.
LEMMA ToldStarts ==
    ASSUME Init
    PROVE  ToldKept /\ StateIsTold
<1>1. DOMAIN info = {}
    BY DEF Init
<1>2. told = [o \in Objects |-> [state |-> Unsaid, hostDown |-> FALSE, inDowntime |-> FALSE,
                                 inHostDowntime |-> FALSE, flapping |-> FALSE]]
    BY DEF Init
<1>3. \A o \in Objects : /\ told[o].state = Unsaid /\ told[o].hostDown = FALSE /\ told[o].inDowntime = FALSE
                         /\ told[o].inHostDowntime = FALSE /\ told[o].flapping = FALSE
    BY <1>2
<1>4. ToldOfHost /\ ToldOfTracked /\ HostIsTold
    BY <1>1, <1>3 DEF ToldOfHost, ToldOfTracked, HostIsTold
<1>5. StateIsTold
    BY <1>1 DEF StateIsTold
<1> QED BY <1>4, <1>5 DEF ToldKept

\* Between two lines the state of an object that is in no doubt is what the log said last
\* of it and of its host, whether the host or the service was met first.
THEOREM ToldCorrect == Spec => []StateIsTold
<1>1. Passing /\ ToldKept /\ StateIsTold /\ [Next]_vars => (Passing /\ ToldKept /\ StateIsTold)'
    <2>1. SUFFICES ASSUME Passing, ToldKept, StateIsTold, [Next]_vars
                   PROVE  (Passing /\ ToldKept /\ StateIsTold)'
        OBVIOUS
    <2>2. Passing'
        BY <2>1, TypesKept, ListedKept, DurationsStay, VanishedStays DEF Passing
    <2>3. ToldKept' /\ StateIsTold'
        BY <2>1, <2>2, ToldStays DEF Passing
    <2> QED BY <2>2, <2>3
<1>2. Init => ToldKept /\ StateIsTold
    BY ToldStarts
<1> QED BY <1>1, <1>2, PassingCorrect, PTL DEF Spec
=============================================================================
