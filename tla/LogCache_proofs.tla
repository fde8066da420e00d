---------------------------- MODULE LogCache_proofs ----------------------------
(***************************************************************************)
(* The log cache, for every log, every limit, every set of queries and at  *)
(* any rotation: num_cached_log_messages counts what is in memory, that is *)
(* bounded, and a query's answer is what the log holds for it.             *)
(*                                                                         *)
(* The counter is followed through the phases of handleNewMessage: each of *)
(* them frees a set of files from the oldest, and takes from the counter   *)
(* what those had (Phases, Handled).  A check frees until the limit is     *)
(* reached or no other file has anything, so what is left beyond the limit *)
(* is in the file that is being read.  That these are not more messages    *)
(* than it has lines needs all of IInv: a file is read in step with its    *)
(* line numbers (PositionsAreLines), so each entry is one of its lines     *)
(* (EntriesAreLines), and a file never gets shorter (FilesGrow).           *)
(*                                                                         *)
(* The answer needs AInv as well: whatever was freed, the classes that a   *)
(* file claims to have read are in memory (ClassesAreRead), and a visit    *)
(* ends with those of the query (ReadyToDeliver).  A query goes from the   *)
(* newest file to the oldest, and the log is in order (LogInOrder), so it  *)
(* always has what the newer files hold for it (NewerAreDone); the entries *)
(* that fit into its limit are the newest of a file (FirstAreCounted).     *)
(***************************************************************************)
EXTENDS LogCache, FiniteSetTheorems, NaturalsInduction, TLAPS

-----------------------------------------------------------------------------
(* The invariants                                                          *)

\* What a file's lines are as entries.
LinesIn(lines) == {[lineno |-> i, line |-> lines[i]] : i \in DOMAIN lines}

\* Logs begin one after the other, the current one last, and never in the future.
FilesInOrder ==
    /\ files[Current] # <<>>
    /\ \A n \in Names : files[n] # <<>> => Head(files[n]).time <= now
    /\ \A m, n \in Names :
        m # n /\ files[m] # <<>> /\ files[n] # <<>> =>
            /\ Head(files[m]).time # Head(files[n]).time
            /\ m = Current => Head(files[n]).time < Head(files[m]).time

\* The query is at a logfile of the index, and no two of those have the same since.
IndexInOrder ==
    /\ Current \in DOMAIN logfiles /\ at \in DOMAIN logfiles
    /\ \A m, n \in DOMAIN logfiles : m # n => Since(m) # Since(n)

\* Sets of entries have a size.
FiniteEntries == \A n \in DOMAIN logfiles : IsFiniteSet(logfiles[n].entries)

\* A load knows how far it is: unless the file has too many lines, line numbers
\* are positions in it, and the current log is read on where it was left.
PositionsAreLines ==
    /\ pc \in {"grown", "missing"} =>
        /\ pos = logfiles[at].lineno \/ logfiles[at].lineno >= MaxLines
        /\ ~stale => open = at
    /\ pc = "grown" => at = Current
    /\ logfiles[Current].classesRead # {} /\ ~(at = Current /\ pc \in {"grown", "missing"}) =>
        \/ logfiles[Current].readPos = logfiles[Current].lineno
        \/ logfiles[Current].lineno >= MaxLines

\* The entries of a logfile are lines of one file, of that with its name as long
\* as the log was not rotated.
EntriesAreLines ==
    \A n \in DOMAIN logfiles :
        /\ ~stale => logfiles[n].entries \subseteq LinesIn(files[n])
        /\ ~mixed => \E name \in Names : logfiles[n].entries \subseteq LinesIn(files[name])

\* The last check left no more messages than the limit, or those of one file;
\* since then a cycle has not ended.
CheckedInTime ==
    /\ ~mixed => lastCheck <= MaxCached \/ \E name \in Names : lastCheck <= Len(files[name])
    /\ num <= MaxCached \/ num < lastCheck + CheckMemCycle

IInv ==
    /\ TypeOK
    /\ FilesInOrder
    /\ IndexInOrder
    /\ FiniteEntries
    /\ PositionsAreLines
    /\ EntriesAreLines
    /\ CheckedInTime
    /\ CounterExact

-----------------------------------------------------------------------------
(* How many messages there are                                             *)

\* The pairs that Size counts.
Pairs(lost, names) == UNION {{n} \X lost[n] : n \in names}

LEMMA PairIs ==
    ASSUME NEW lost, NEW names
    PROVE  /\ \A n, e : <<n, e>> \in Pairs(lost, names) <=> n \in names /\ e \in lost[n]
           /\ \A p \in Pairs(lost, names) : p = <<p[1], p[2]>>
BY DEF Pairs

\* Two sets of such pairs are the same if they have the same messages.
LEMMA PairsSame ==
    ASSUME NEW lost, NEW names, NEW left, NEW kept,
           \A n, e : (n \in names /\ e \in lost[n]) <=> (n \in kept /\ e \in left[n])
    PROVE  Pairs(lost, names) = Pairs(left, kept)
BY PairIs

\* The image of a finite set is finite, and not larger.
LEMMA ImageIs ==
    ASSUME NEW S, IsFiniteSet(S), NEW f
    PROVE  /\ IsFiniteSet({f[x] : x \in S})
           /\ Cardinality({f[x] : x \in S}) <= Cardinality(S)
<1>1. PICK g : g = [x \in S |-> f[x]]
    OBVIOUS
<1>2. PICK T : T = {f[x] : x \in S}
    OBVIOUS
<1>3. g \in Surjection(S, T)
    BY <1>1, <1>2 DEF Surjection
<1> QED BY <1>2, <1>3, FS_Surjection

\* Finitely many names with finitely many messages each can be counted.
Countable(lost, names) ==
    /\ IsFiniteSet(names)
    /\ \A n \in names : IsFiniteSet(lost[n])

LEMMA PairsFinite ==
    ASSUME NEW names, NEW lost, Countable(lost, names)
    PROVE  IsFiniteSet(Pairs(lost, names))
<1>1. PICK f : f = [n \in names |-> {n} \X lost[n]]
    OBVIOUS
<1>2. IsFiniteSet({f[n] : n \in names})
    BY ImageIs DEF Countable
<1>3. ASSUME NEW n \in names
      PROVE  IsFiniteSet(f[n])
    <2>1. IsFiniteSet({n}) /\ IsFiniteSet(lost[n])
        BY FS_Singleton DEF Countable
    <2>2. IsFiniteSet({n} \X lost[n])
        BY <2>1, FS_Product
    <2> QED BY <1>1, <2>2
<1>4. {f[n] : n \in names} = {{n} \X lost[n] : n \in names}
    BY <1>1
<1> QED BY <1>2, <1>3, <1>4, FS_UNION DEF Pairs

\* Sizes are numbers.
LEMMA SizeType ==
    ASSUME NEW names, NEW lost, Countable(lost, names)
    PROVE  Size(lost, names) \in Nat
BY PairsFinite, FS_CardinalityType DEF Size, Pairs

\* left is what is there of held when lost is taken away from some names.
TakenAway(left, names, held, lost, some) ==
    /\ Countable(held, names)
    /\ some \in SUBSET names
    /\ \A n \in some : lost[n] \subseteq held[n]
    /\ \A n \in names : left[n] = IF n \in some THEN held[n] \ lost[n] ELSE held[n]

\* What is taken away is no longer counted.
LEMMA SizeLess ==
    ASSUME NEW left, NEW names, NEW held, NEW lost, NEW some,
           TakenAway(left, names, held, lost, some)
    PROVE  /\ Size(left, names) = Size(held, names) - Size(lost, some)
           /\ Countable(left, names) /\ Countable(lost, some)
           /\ Size(held, names) \in Nat /\ Size(lost, some) \in Nat /\ Size(left, names) \in Nat
<1> USE DEF TakenAway
<1>1. Countable(left, names) /\ Countable(lost, some)
    BY FS_Subset, FS_Difference DEF Countable
<1>2. Pairs(left, names) = Pairs(held, names) \ Pairs(lost, some)
    <2>1. ASSUME NEW n, NEW e
          PROVE  <<n, e>> \in Pairs(left, names)
                    <=> <<n, e>> \in Pairs(held, names) /\ <<n, e>> \notin Pairs(lost, some)
        <3>1. /\ <<n, e>> \in Pairs(left, names) <=> n \in names /\ e \in left[n]
              /\ <<n, e>> \in Pairs(held, names) <=> n \in names /\ e \in held[n]
              /\ <<n, e>> \in Pairs(lost, some) <=> n \in some /\ e \in lost[n]
            BY PairIs
        <3>2. CASE n \in names
            <4>1. left[n] = IF n \in some THEN held[n] \ lost[n] ELSE held[n]
                BY <3>2
            <4> QED BY <3>1, <4>1
        <3>3. CASE n \notin names
            BY <3>1, <3>3
        <3> QED BY <3>2, <3>3
    <2>2. \A p \in Pairs(left, names) \cup Pairs(held, names) : p = <<p[1], p[2]>>
        BY PairIs
    <2> QED BY <2>1, <2>2
<1>3. Pairs(held, names) \cap Pairs(lost, some) = Pairs(lost, some)
    BY PairIs
<1>4. IsFiniteSet(Pairs(held, names))
    BY PairsFinite
<1>6. Cardinality(Pairs(left, names)) = Cardinality(Pairs(held, names)) - Cardinality(Pairs(lost, some))
    <2>1. PICK H, L : H = Pairs(held, names) /\ L = Pairs(lost, some)
        OBVIOUS
    <2>2. IsFiniteSet(H) /\ H \cap L = L /\ Pairs(left, names) = H \ L
        BY <1>2, <1>3, <1>4, <2>1
    <2>3. Cardinality(H \ L) = Cardinality(H) - Cardinality(H \cap L)
        BY <2>2, FS_Difference
    <2> QED BY <2>1, <2>2, <2>3
<1>5. Size(left, names) = Size(held, names) - Size(lost, some)
    BY <1>6 DEF Size, Pairs
<1> QED BY <1>1, <1>5, SizeType

\* One more message is counted once.
LEMMA SizeMore ==
    ASSUME NEW names, NEW held, Countable(held, names),
           NEW a \in names, NEW e, e \notin held[a],
           NEW more, \A n \in names : more[n] = IF n = a THEN held[n] \cup {e} ELSE held[n]
    PROVE  /\ Size(more, names) = Size(held, names) + 1
           /\ Countable(more, names)
<1> USE DEF Countable
<1>1. ASSUME NEW n \in names
      PROVE  IsFiniteSet(more[n])
    <2>1. IsFiniteSet(held[n]) /\ IsFiniteSet(held[n] \cup {e})
        BY FS_AddElement
    <2> QED BY <2>1
<1>2. Pairs(more, names) = Pairs(held, names) \cup {<<a, e>>}
    <2>1. ASSUME NEW n, NEW d
          PROVE  <<n, d>> \in Pairs(more, names)
                    <=> <<n, d>> \in Pairs(held, names) \/ (n = a /\ d = e)
        BY PairIs
    <2>2. \A p \in Pairs(more, names) \cup Pairs(held, names) : p = <<p[1], p[2]>>
        BY PairIs
    <2> QED BY <2>1, <2>2
<1>3. <<a, e>> \notin Pairs(held, names)
    BY PairIs
<1>4. Cardinality(Pairs(more, names)) = Cardinality(Pairs(held, names)) + 1
    BY <1>2, <1>3, PairsFinite, FS_AddElement
<1> QED BY <1>1, <1>4 DEF Size, Pairs

\* Less is counted of fewer names.
LEMMA SizeOfFewer ==
    ASSUME NEW names, NEW held, Countable(held, names),
           NEW some \in SUBSET names
    PROVE  /\ Size(held, some) <= Size(held, names)
           /\ Size(held, some) \in Nat /\ Size(held, names) \in Nat
<1>1. Pairs(held, some) \in SUBSET Pairs(held, names)
    BY PairIs
<1>2. Cardinality(Pairs(held, some)) <= Cardinality(Pairs(held, names))
    BY <1>1, PairsFinite, FS_Subset
<1>3. Countable(held, some)
    BY FS_Subset DEF Countable
<1> QED BY <1>2, <1>3, SizeType DEF Size, Pairs

\* Nothing is counted of nothing, and of one name its messages.
LEMMA SizeOfNone ==
    ASSUME NEW names, NEW held, \A n \in names : held[n] = {}
    PROVE  Size(held, names) = 0
<1>1. Pairs(held, names) = {}
    BY PairIs
<1> QED BY <1>1, FS_EmptySet DEF Size, Pairs

LEMMA SizeOfOne ==
    ASSUME NEW names, NEW held, Countable(held, names),
           NEW a \in names, \A n \in names : n # a => held[n] = {}
    PROVE  Size(held, names) <= Cardinality(held[a])
<1>1. PICK f : f = [e \in held[a] |-> <<a, e>>]
    OBVIOUS
<1>2. Pairs(held, names) = {f[e] : e \in held[a]}
    <2>1. ASSUME NEW p \in Pairs(held, names)
          PROVE  p \in {f[e] : e \in held[a]}
        <3>1. p = <<p[1], p[2]>> /\ p[1] \in names /\ p[2] \in held[p[1]]
            BY PairIs
        <3> QED BY <1>1, <3>1
    <2>2. \A e \in held[a] : f[e] \in Pairs(held, names)
        BY <1>1, PairIs
    <2> QED BY <2>1, <2>2
<1> QED BY <1>2, ImageIs DEF Size, Pairs, Countable

\* A set of numbers has a least one.
LEMMA Least ==
    ASSUME NEW T, T \subseteq Nat, T # {}
    PROVE  \E n \in T : \A m \in T : n <= m
<1>1. \E n \in T : \A m \in T : ~(<<m, n>> \in OpToRel(<, Nat))
    BY NatLessThanWellFounded, WFMin
<1>2. PICK n \in T : \A m \in T : ~(m < n)
    BY <1>1 DEF OpToRel
<1>3. \A m \in T : m \in Nat /\ n \in Nat
    OBVIOUS
<1> QED BY <1>2, <1>3

-----------------------------------------------------------------------------
(* What frees memory                                                       *)

\* A phase goes on until it is through with its files, or few messages are left.
LEMMA ReachedEnough ==
    ASSUME NEW names, NEW lost, Countable(lost, names), \A n \in names : Since(n) \in Nat,
           NEW count \in Nat
    PROVE  /\ Reached(names, lost, count) \in SUBSET names
           /\ \/ Reached(names, lost, count) = names
              \/ count - Size(lost, Reached(names, lost, count)) <= MaxCached
<1>1. PICK R : R = Reached(names, lost, count)
    OBVIOUS
<1>2. R \in SUBSET names
    BY <1>1 DEF Reached
<1>3. ASSUME R # names
      PROVE  count - Size(lost, R) <= MaxCached
    <2>1. PICK T : T = {Since(n) : n \in names \ R}
        OBVIOUS
    <2>2. T \subseteq Nat /\ T # {}
        BY <1>2, <1>3, <2>1
    <2>3. PICK s \in T : \A t \in T : s <= t
        BY <2>2, Least
    <2>4. PICK n \in names \ R : s = Since(n)
        BY <2>1, <2>3
    <2>5. PICK S : S = {m \in names : Since(m) < Since(n)}
        OBVIOUS
    <2>6. ASSUME NEW m \in S
          PROVE  m \in R
        <3>1. m \in names /\ Since(m) < s /\ Since(m) \in Nat /\ s \in Nat
            BY <2>2, <2>4, <2>5
        <3>2. Since(m) \notin T
            BY <2>3, <3>1
        <3> QED BY <2>1, <3>1, <3>2
    <2>7. ~(count > MaxCached + Size(lost, S))
        BY <1>1, <2>4, <2>5 DEF Reached
    <2>8. Countable(lost, R)
        BY <1>2, FS_Subset DEF Countable
    <2>9. Size(lost, S) <= Size(lost, R) /\ Size(lost, S) \in Nat /\ Size(lost, R) \in Nat
        BY <2>6, <2>8, SizeOfFewer
    <2> QED BY <2>7, <2>9, QueriesAssumption
<1> QED BY <1>1, <1>2, <1>3

\* The messages that are in memory, for each logfile of logs.
EntriesOf(logs) == [n \in DOMAIN logs |-> logs[n].entries]

InMemory(logs) == Size(EntriesOf(logs), DOMAIN logs)

\* What is known of logs, the index after a message was added to one of its files.
Counted(logs) ==
    /\ DOMAIN logs = DOMAIN logfiles /\ DOMAIN logs \subseteq Names /\ at \in DOMAIN logs
    /\ \A n \in DOMAIN logs : logs[n] \in Logfile /\ IsFiniteSet(logs[n].entries)
    /\ \A n \in DOMAIN logs : Since(n) \in Nat
    /\ \A m, n \in DOMAIN logs : m # n => Since(m) # Since(n)
    /\ num \in Nat /\ lastCheck \in Nat
    /\ num + 1 = InMemory(logs)

LEMMA NamesAreFinite == IsFiniteSet(Names)
<1>1. 0 \in Int /\ MaxRotations \in Int
    BY QueriesAssumption
<1>2. IsFiniteSet(0 .. MaxRotations)
    BY <1>1, FS_Interval
<1> QED BY <1>2 DEF Names

\* What becomes of logs when memory is freed: some files are flushed, some lose
\* the classes that are not asked for.
FreedFrom(logs, flushed, thinned) ==
    [n \in DOMAIN logs |->
        IF n \in flushed THEN Flushed(logs[n])
        ELSE IF n \in thinned
        THEN [logs[n] EXCEPT !.entries = Kept(logs[n].entries),
                             !.classesRead = @ \cap query.classes]
        ELSE logs[n]]

\* The three phases leave the messages that final counts, and no more than the
\* limit unless they are all of the file that is being read.
LEMMA Phases ==
    ASSUME NEW logs, Counted(logs), HandleNewMessage(logs),
           ~(num < MaxCached \/ num + 1 < lastCheck + CheckMemCycle)
    PROVE  \E flushed, thinned \in SUBSET DOMAIN logs :
              /\ at \notin flushed
              /\ logfiles' = FreedFrom(logs, flushed, thinned)
              /\ lastCheck' = num'
              /\ num' = Size([n \in DOMAIN logs |->
                                IF n \in flushed THEN {}
                                ELSE IF n \in thinned THEN Kept(logs[n].entries)
                                ELSE logs[n].entries], DOMAIN logs)
              /\ \/ num' <= MaxCached
                 \/ \A n \in DOMAIN logs \ {at} :
                        \/ n \in flushed \/ logs[n].entries = {}
                        \/ n \in thinned /\ Kept(logs[n].entries) = {}
<1> DEFINE D == DOMAIN logs
           entries == [n \in D |-> logs[n].entries]
           oldest == {n \in OlderThan(at) : entries[n] # {}}
           older == Reached(oldest, entries, num + 1)
           left == num + 1 - Size(entries, older)
           other == [n \in D |-> entries[n] \ Kept(entries[n])]
           thick == {n \in D \ OlderThan(at) :
                         entries[n] # {} /\ logs[n].classesRead \ query.classes # {}}
           thinned == Reached(thick, other, left)
           remain == left - Size(other, thinned)
           rest == [n \in D |-> IF n \in thinned THEN Kept(entries[n]) ELSE entries[n]]
           newest == {n \in NewerThan(at) : rest[n] # {}}
           newer == Reached(newest, rest, remain)
           final == remain - Size(rest, newer)
<1>1. /\ logfiles' = [n \in D |->
                IF n \in older \cup newer THEN Flushed(logs[n])
                ELSE IF n \in thinned
                THEN [logs[n] EXCEPT !.entries = rest[n],
                                     !.classesRead = @ \cap query.classes]
                ELSE logs[n]]
      /\ num' = final /\ lastCheck' = final
    BY DEF HandleNewMessage
<1> HIDE DEF D, entries, oldest, older, left, other, thick, thinned, remain, rest, newest,
             newer, final
<1>2. /\ IsFiniteSet(D) /\ D = DOMAIN logfiles /\ at \in D /\ DOMAIN entries = D
      /\ \A n \in D : entries[n] = logs[n].entries /\ IsFiniteSet(entries[n]) /\ Since(n) \in Nat
      /\ \A m, n \in D : m # n => Since(m) # Since(n)
      /\ num \in Nat /\ num + 1 = Size(entries, D)
    <2>1. IsFiniteSet(D)
        BY NamesAreFinite, FS_Subset DEF D, Counted
    <2> QED BY <2>1 DEF Counted, InMemory, EntriesOf, D, entries
<1>20. Countable(entries, D)
    BY <1>2 DEF Countable
<1>21. \A n \in D : Since(n) \in Nat
    BY <1>2
<1>22. \A n \in D : entries[n] = logs[n].entries
    BY <1>2
\* [1]
<1>3. /\ oldest \in SUBSET D /\ older \in SUBSET oldest
      /\ older = oldest \/ left <= MaxCached
    <2>1. oldest \in SUBSET D
        BY <1>2 DEF oldest, OlderThan
    <2>2. Countable(entries, oldest)
        BY <1>20, <2>1, FS_Subset DEF Countable
    <2>3. num + 1 \in Nat /\ \A n \in oldest : Since(n) \in Nat
        BY <1>2, <2>1
    <2>4. PICK count \in Nat : count = num + 1
        BY <2>3
    <2>5. /\ Reached(oldest, entries, count) \in SUBSET oldest
          /\ \/ Reached(oldest, entries, count) = oldest
             \/ count - Size(entries, Reached(oldest, entries, count)) <= MaxCached
        BY <2>2, <2>3, ReachedEnough
    <2>6. older = Reached(oldest, entries, count)
        BY <2>4 DEF older
    <2>8. Size(entries, older) \in Nat /\ num \in Nat
        BY <1>2, <1>20, <2>1, <2>5, <2>6, SizeOfFewer
    <2>7. left = count - Size(entries, older)
        BY <2>4, <2>8 DEF left
    <2> QED BY <2>1, <2>5, <2>6, <2>7
<1> DEFINE first == [n \in D |-> IF n \in older THEN {} ELSE entries[n]]
<1> HIDE DEF first
<1>4. /\ left = Size(first, D) /\ left \in Nat
      /\ \A n \in D : first[n] = (IF n \in older THEN {} ELSE entries[n]) 
      /\ Countable(first, D)
    <2>1. \A n \in D : first[n] = IF n \in older THEN {} ELSE entries[n]
        BY DEF first
    <2>2. \A n \in D : first[n] = IF n \in older THEN entries[n] \ entries[n] ELSE entries[n]
        BY <2>1
    <2>3. TakenAway(first, D, entries, entries, older)
        BY <1>3, <1>20, <2>2 DEF TakenAway
    <2>4. /\ Size(first, D) = Size(entries, D) - Size(entries, older)
          /\ Size(first, D) \in Nat /\ Size(entries, older) \in Nat /\ Countable(first, D)
        BY <2>3, SizeLess
    <2>5. left = num + 1 - Size(entries, older)
        BY DEF left
    <2>6. num \in Nat /\ num + 1 = Size(entries, D)
        BY <1>2
    <2>7. left = Size(first, D)
        BY <2>4, <2>5, <2>6
    <2> QED BY <2>1, <2>4, <2>7
\* [2]
<1>5. /\ thinned \in SUBSET D /\ thinned \cap OlderThan(at) = {}
    <2>1. thick \in SUBSET (D \ OlderThan(at))
        BY DEF thick
    <2> QED BY <2>1 DEF thinned, Reached
<1>6. \A n \in D : Kept(entries[n]) \subseteq entries[n] /\ other[n] = entries[n] \ Kept(entries[n])
    BY DEF Kept, other
<1> DEFINE second == [n \in D |-> IF n \in thinned THEN Kept(entries[n]) ELSE first[n]]
<1> HIDE DEF second
<1>7. /\ remain = Size(second, D) /\ remain \in Nat /\ remain <= left
      /\ \A n \in D : second[n] = IF n \in thinned THEN Kept(entries[n]) ELSE first[n]
      /\ Countable(second, D)
    <2>1. \A n \in D : second[n] = IF n \in thinned THEN Kept(entries[n]) ELSE first[n]
        BY DEF second
    <2>2. \A n \in thinned : first[n] = entries[n]
        BY <1>3, <1>4, <1>5 DEF oldest
    <2>3. \A n \in D : second[n] = IF n \in thinned THEN first[n] \ other[n] ELSE first[n]
        BY <1>6, <2>1, <2>2, <1>5
    <2>4. \A n \in thinned : other[n] \subseteq first[n]
        BY <1>5, <1>6, <2>2
    <2>6. TakenAway(second, D, first, other, thinned)
        BY <1>4, <1>5, <2>3, <2>4 DEF TakenAway
    <2>5. /\ Size(second, D) = Size(first, D) - Size(other, thinned)
          /\ Size(second, D) \in Nat /\ Size(other, thinned) \in Nat /\ Countable(second, D)
        BY <2>6, SizeLess
    <2> QED BY <1>4, <2>1, <2>5 DEF remain
\* [3]
<1>8. \A n \in D : n \notin older => rest[n] = second[n]
    BY <1>4, <1>7 DEF rest
<1>9. /\ newest \in SUBSET D /\ newer \in SUBSET newest
      /\ newer = newest \/ final <= MaxCached
      /\ \A n \in newest : n \notin older /\ n # at /\ rest[n] = second[n]
    <2>1. newest \in SUBSET D
        BY <1>2 DEF newest, NewerThan
    <2>2. \A n \in newest : n \notin older /\ n # at
        BY <1>2, <1>3 DEF newest, NewerThan, oldest, OlderThan
    <2>3. Countable(rest, newest)
        BY <1>7, <1>8, <2>1, <2>2, FS_Subset DEF Countable
    <2>4. \A n \in newest : Since(n) \in Nat
        BY <1>2, <2>1
    <2>5. /\ Reached(newest, rest, remain) \in SUBSET newest
          /\ \/ Reached(newest, rest, remain) = newest
             \/ remain - Size(rest, Reached(newest, rest, remain)) <= MaxCached
        BY <1>7, <2>3, <2>4, ReachedEnough
    <2> QED BY <1>8, <2>1, <2>2, <2>5 DEF newer, final
<1> DEFINE third == [n \in D |-> IF n \in newer THEN {} ELSE second[n]]
<1> HIDE DEF third
<1>10. /\ final = Size(third, D) /\ final \in Nat /\ final <= remain
       /\ \A n \in D : third[n] = IF n \in newer THEN {} ELSE second[n]
    <2>1. \A n \in D : third[n] = IF n \in newer THEN {} ELSE second[n]
        BY DEF third
    <2>2. newer \in SUBSET D /\ \A n \in newer : rest[n] \subseteq second[n]
        BY <1>9
    <2>3. \A n \in D : third[n] = IF n \in newer THEN second[n] \ rest[n] ELSE second[n]
        BY <1>9, <2>1
    <2>5. TakenAway(third, D, second, rest, newer)
        BY <1>7, <2>2, <2>3 DEF TakenAway
    <2>4. /\ Size(third, D) = Size(second, D) - Size(rest, newer)
          /\ Size(third, D) \in Nat /\ Size(rest, newer) \in Nat
        BY <2>5, SizeLess
    <2> QED BY <1>7, <2>1, <2>4 DEF final
\* All three
<1>11. PICK flushed : flushed = older \cup newer
    OBVIOUS
<1>12. flushed \in SUBSET D /\ thinned \in SUBSET D
    BY <1>3, <1>5, <1>9, <1>11
<1>13. at \notin flushed
    <2>1. at \notin OlderThan(at)
        BY <1>2 DEF OlderThan
    <2> QED BY <1>3, <1>9, <1>11, <2>1 DEF oldest
<1>14. ASSUME NEW n \in D \ flushed
       PROVE  n \in thinned => rest[n] = Kept(logs[n].entries)
    BY <1>2 DEF rest
<1>15. logfiles' = FreedFrom(logs, flushed, thinned)
    BY <1>1, <1>11, <1>14 DEF FreedFrom, D
<1>16. third = [n \in D |-> IF n \in flushed THEN {}
                            ELSE IF n \in thinned THEN Kept(logs[n].entries)
                            ELSE logs[n].entries]
    <2>1. ASSUME NEW n \in D
          PROVE  third[n] = IF n \in flushed THEN {}
                            ELSE IF n \in thinned THEN Kept(logs[n].entries)
                            ELSE logs[n].entries
        BY <1>2, <1>3, <1>4, <1>5, <1>7, <1>10, <1>11 DEF oldest
    <2> QED BY <2>1 DEF third
<1>17. ASSUME ~(final <= MaxCached), NEW n \in D \ {at}
       PROVE  \/ n \in flushed \/ logs[n].entries = {}
              \/ n \in thinned /\ Kept(logs[n].entries) = {}
    <2>1. newer = newest
        BY <1>9, <1>17
    <2>2. older = oldest
        <3>1. left <= MaxCached => final <= MaxCached
            BY <1>4, <1>7, <1>10, QueriesAssumption
        <3> QED BY <1>3, <1>17, <3>1
    <2>3. n \in OlderThan(at) \/ n \in NewerThan(at)
        BY <1>2, <1>17 DEF OlderThan, NewerThan
    <2>4. CASE n \in OlderThan(at)
        <3>1. entries[n] = {} \/ n \in oldest
            BY <2>4 DEF oldest
        <3> QED BY <1>11, <1>17, <1>22, <2>2, <3>1
    <2>5. CASE n \in NewerThan(at)
        <3>1. rest[n] = {} \/ n \in newest
            BY <2>5 DEF newest
        <3>2. rest[n] = IF n \in thinned THEN Kept(logs[n].entries) ELSE logs[n].entries
            BY <1>17, <1>22 DEF rest
        <3> QED BY <1>11, <2>1, <3>1, <3>2
    <2> QED BY <2>3, <2>4, <2>5
<1> QED BY <1>1, <1>10, <1>12, <1>13, <1>15, <1>16, <1>17 DEF D

\* What HandleNewMessage may do to the index: it takes entries from logfiles, but
\* no class that a logfile still claims to have read, and nothing that the query
\* asks for from the logfile it is at, which does not forget that it read it.
OnlyFreed(logs, next) ==
    /\ DOMAIN next = DOMAIN logs
    /\ \A n \in DOMAIN logs :
        /\ next[n] \in Logfile
        /\ next[n].entries \subseteq logs[n].entries
        /\ next[n].classesRead \subseteq logs[n].classesRead
        /\ next[n].since = logs[n].since /\ next[n].lineno = logs[n].lineno
        /\ next[n].readPos = logs[n].readPos
        /\ n = at => logs[n].classesRead \cap query.classes \subseteq next[n].classesRead
        /\ \A e \in logs[n].entries :
            e.line.class \in next[n].classesRead \/ (n = at /\ e.line.class \in query.classes)
                => e \in next[n].entries

LEMMA FreedIs ==
    ASSUME NEW logs, \A n \in DOMAIN logs : logs[n] \in Logfile,
           NEW flushed, NEW thinned, at \notin flushed
    PROVE  /\ OnlyFreed(logs, FreedFrom(logs, flushed, thinned))
           /\ \A n \in DOMAIN logs :
                FreedFrom(logs, flushed, thinned)[n].entries =
                    IF n \in flushed THEN {}
                    ELSE IF n \in thinned THEN Kept(logs[n].entries)
                    ELSE logs[n].entries
<1>1. PICK next : next = FreedFrom(logs, flushed, thinned)
    OBVIOUS
<1>2. DOMAIN next = DOMAIN logs
    BY <1>1 DEF FreedFrom
<1>3. ASSUME NEW n \in DOMAIN logs
      PROVE  /\ next[n] \in Logfile
             /\ next[n].entries \subseteq logs[n].entries
             /\ next[n].classesRead \subseteq logs[n].classesRead
             /\ next[n].since = logs[n].since /\ next[n].lineno = logs[n].lineno
             /\ next[n].readPos = logs[n].readPos
             /\ n = at => logs[n].classesRead \cap query.classes \subseteq next[n].classesRead
             /\ \A e \in logs[n].entries :
                    e.line.class \in next[n].classesRead \/ (n = at /\ e.line.class \in query.classes)
                        => e \in next[n].entries
             /\ next[n].entries = IF n \in flushed THEN {}
                                  ELSE IF n \in thinned THEN Kept(logs[n].entries)
                                  ELSE logs[n].entries
    <2>1. CASE n \in flushed
        <3>1. next[n] = [logs[n] EXCEPT !.entries = {}, !.classesRead = {}]
            BY <1>1, <2>1 DEF FreedFrom, Flushed
        <3> QED BY <2>1, <3>1 DEF Logfile
    <2>2. CASE n \notin flushed /\ n \in thinned
        <3>1. next[n] = [logs[n] EXCEPT !.entries = Kept(logs[n].entries),
                                        !.classesRead = @ \cap query.classes]
            BY <1>1, <2>2 DEF FreedFrom
        <3>2. /\ next[n].entries = Kept(logs[n].entries)
              /\ next[n].classesRead = logs[n].classesRead \cap query.classes
              /\ next[n].since = logs[n].since /\ next[n].lineno = logs[n].lineno
              /\ next[n].readPos = logs[n].readPos
            BY <3>1 DEF Logfile
        <3>3. Kept(logs[n].entries) \subseteq logs[n].entries
            BY DEF Kept
        <3>4. \A e \in logs[n].entries :
                e.line.class \in query.classes => e \in next[n].entries
            BY <3>2 DEF Kept
        <3>5. next[n] \in Logfile
            <4>1. PICK log : log = logs[n]
                OBVIOUS
            <4>2. PICK kept : kept = Kept(logs[n].entries)
                OBVIOUS
            <4>3. PICK classes : classes = log.classesRead \cap query.classes
                OBVIOUS
            <4>4. log \in Logfile
                BY <4>1
            <4>5. kept \subseteq log.entries
                BY <3>3, <4>1, <4>2
            <4>6. next[n] = [log EXCEPT !.entries = kept, !.classesRead = classes]
                BY <3>1, <4>1, <4>2, <4>3
            <4> QED BY <4>3, <4>4, <4>5, <4>6 DEF Logfile
        <3> QED BY <2>2, <3>2, <3>3, <3>4, <3>5
    <2>3. CASE n \notin flushed /\ n \notin thinned
        <3>1. next[n] = logs[n]
            BY <1>1, <2>3 DEF FreedFrom
        <3> QED BY <2>3, <3>1
    <2> QED BY <2>1, <2>2, <2>3
<1> QED BY <1>1, <1>2, <1>3 DEF OnlyFreed

\* A message that was added is counted, and what is freed no longer is; a check
\* leaves the limit, or the messages of one file.
LEMMA Handled ==
    ASSUME NEW logs, Counted(logs), HandleNewMessage(logs)
    PROVE  /\ OnlyFreed(logs, logfiles')
           /\ FiniteEntries'
           /\ num' \in Nat /\ lastCheck' \in Nat /\ CounterExact'
           /\ \/ /\ lastCheck' = lastCheck
                 /\ num' <= MaxCached \/ num' < lastCheck + CheckMemCycle
              \/ /\ lastCheck' = num'
                 /\ num' <= MaxCached \/ num' <= Cardinality(logfiles'[at].entries)
<1>1. /\ num \in Nat /\ lastCheck \in Nat /\ DOMAIN logs \subseteq Names /\ at \in DOMAIN logs
      /\ \A n \in DOMAIN logs : logs[n] \in Logfile /\ IsFiniteSet(logs[n].entries)
      /\ num + 1 = Size([n \in DOMAIN logs |-> logs[n].entries], DOMAIN logs)
    BY DEF Counted, InMemory, EntriesOf
<1>2. MaxCached \in Nat /\ CheckMemCycle \in Nat
    BY QueriesAssumption
<1>3. CASE num < MaxCached \/ num + 1 < lastCheck + CheckMemCycle
    <2>1. logfiles' = logs /\ num' = num + 1 /\ lastCheck' = lastCheck
        BY <1>3 DEF HandleNewMessage
    <2>2. OnlyFreed(logs, logfiles')
        BY <1>1, <2>1 DEF OnlyFreed
    <2>3. FiniteEntries' /\ CounterExact'
        BY <1>1, <2>1 DEF FiniteEntries, CounterExact
    <2> QED BY <1>1, <1>2, <1>3, <2>1, <2>2, <2>3
<1>4. CASE ~(num < MaxCached \/ num + 1 < lastCheck + CheckMemCycle)
    <2>1. PICK flushed, thinned \in SUBSET DOMAIN logs :
              /\ at \notin flushed
              /\ logfiles' = FreedFrom(logs, flushed, thinned)
              /\ lastCheck' = num'
              /\ num' = Size([n \in DOMAIN logs |->
                                IF n \in flushed THEN {}
                                ELSE IF n \in thinned THEN Kept(logs[n].entries)
                                ELSE logs[n].entries], DOMAIN logs)
              /\ \/ num' <= MaxCached
                 \/ \A n \in DOMAIN logs \ {at} :
                        \/ n \in flushed \/ logs[n].entries = {}
                        \/ n \in thinned /\ Kept(logs[n].entries) = {}
        BY <1>4, Phases
    <2>2. PICK next : next = FreedFrom(logs, flushed, thinned)
        OBVIOUS
    <2>3. OnlyFreed(logs, next)
        BY <1>1, <2>1, <2>2, FreedIs
    <2>4. \A n \in DOMAIN logs :
                next[n].entries = IF n \in flushed THEN {}
                                  ELSE IF n \in thinned THEN Kept(logs[n].entries)
                                  ELSE logs[n].entries
        BY <1>1, <2>1, <2>2, FreedIs
    <2>5. PICK held : held = [n \in DOMAIN logs |-> next[n].entries]
        OBVIOUS
    <2>6. num' = Size(held, DOMAIN logs)
        BY <2>1, <2>4, <2>5
    <2>7. Countable(held, DOMAIN logs)
        <3>1. \A n \in DOMAIN logs : held[n] \in SUBSET logs[n].entries
            BY <2>3, <2>5 DEF OnlyFreed
        <3> QED BY <1>1, <3>1, NamesAreFinite, FS_Subset DEF Countable
    <2>8. num' \in Nat
        BY <2>6, <2>7, SizeType
    <2>9. DOMAIN next = DOMAIN logs
        BY <2>3 DEF OnlyFreed
    <2>10. CounterExact' /\ FiniteEntries'
        BY <2>1, <2>2, <2>5, <2>6, <2>7, <2>9 DEF CounterExact, FiniteEntries, Countable
    <2>11. num' <= MaxCached \/ num' <= Cardinality(next[at].entries)
        <3>1. ASSUME ~(num' <= MaxCached)
              PROVE  \A n \in DOMAIN logs : n # at => held[n] = {}
            BY <2>1, <2>4, <2>5, <3>1 DEF Kept
        <3>2. ASSUME ~(num' <= MaxCached)
              PROVE  num' <= Cardinality(held[at])
            BY <1>1, <2>6, <2>7, <3>1, <3>2, SizeOfOne
        <3> QED BY <1>1, <2>5, <3>2
    <2> QED BY <2>1, <2>2, <2>3, <2>8, <2>10, <2>11
<1> QED BY <1>3, <1>4

-----------------------------------------------------------------------------
(* The index in a state                                                    *)

LEMMA BoundsAre ==
    /\ MaxCached \in Nat /\ MaxLines \in Nat /\ MaxRotations \in Nat
    /\ CheckMemCycle \in Nat /\ CheckMemCycle >= 1
    /\ Current \in Names /\ 0 \in Names
BY QueriesAssumption DEF Names, Current

\* A query that is asked, or none.
LEMMA QueriesAre ==
    ASSUME NEW q \in Queries \cup {NoQuery}
    PROVE  /\ q.classes \subseteq Classes
           /\ q.since \in Nat /\ q.until \in Nat /\ q.limit \in Nat
BY QueriesAssumption DEF NoQuery

\* A file's first line is a line.
LEMMA FirstLine ==
    ASSUME files \in [Names -> Seq(Line)], NEW n \in Names, files[n] # <<>>
    PROVE  /\ 1 \in DOMAIN files[n] /\ Head(files[n]) = files[n][1]
           /\ Head(files[n]) \in Line /\ Head(files[n]).time \in Nat
<1>1. files[n] \in Seq(Line)
    OBVIOUS
<1>2. 1 \in DOMAIN files[n] /\ Head(files[n]) = files[n][1] /\ files[n][1] \in Line
    BY <1>1
<1> QED BY <1>2 DEF Line

\* A new index has a Logfile without entries for every file.
LEMMA NewIndexIs ==
    ASSUME files \in [Names -> Seq(Line)], FilesInOrder
    PROVE  /\ DOMAIN NewIndex \subseteq Names /\ Current \in DOMAIN NewIndex
           /\ \A n \in DOMAIN NewIndex :
                /\ NewIndex[n] \in Logfile
                /\ files[n] # <<>> /\ NewIndex[n].since = Head(files[n]).time
                /\ NewIndex[n].entries = {} /\ NewIndex[n].classesRead = {}
           /\ \A m, n \in DOMAIN NewIndex : m # n => NewIndex[m].since # NewIndex[n].since
<1>1. DOMAIN NewIndex = {n \in Names : files[n] # <<>>}
    BY DEF NewIndex
<1>2. ASSUME NEW n \in DOMAIN NewIndex
      PROVE  /\ NewIndex[n] \in Logfile
             /\ files[n] # <<>> /\ NewIndex[n].since = Head(files[n]).time
             /\ NewIndex[n].entries = {} /\ NewIndex[n].classesRead = {}
    <2>1. n \in Names /\ files[n] # <<>> /\ Head(files[n]).time \in Nat
        BY <1>1, FirstLine
    <2>2. NewIndex[n] = [since |-> Head(files[n]).time, entries |-> {}, classesRead |-> {},
                         lineno |-> 0, readPos |-> 0]
        BY <1>1 DEF NewIndex, NewLogfile
    <2> QED BY <2>1, <2>2 DEF Logfile
<1>3. Current \in DOMAIN NewIndex
    BY <1>1, BoundsAre DEF FilesInOrder
<1>4. ASSUME NEW m \in DOMAIN NewIndex, NEW n \in DOMAIN NewIndex, m # n
      PROVE  NewIndex[m].since # NewIndex[n].since
    BY <1>1, <1>2, <1>4 DEF FilesInOrder
<1> QED BY <1>1, <1>2, <1>3, <1>4

\* An index without entries holds no messages.
LEMMA NothingCounted ==
    ASSUME NEW logs, \A n \in DOMAIN logs : logs[n].entries = {}
    PROVE  Size([n \in DOMAIN logs |-> logs[n].entries], DOMAIN logs) = 0
<1>1. PICK held : held = [n \in DOMAIN logs |-> logs[n].entries]
    OBVIOUS
<1>2. \A n \in DOMAIN logs : held[n] = {}
    BY <1>1
<1> QED BY <1>1, <1>2, SizeOfNone

\* An index that has changed in nothing but how far it was read.
SameEntries(logs, next) ==
    /\ DOMAIN next = DOMAIN logs
    /\ \A n \in DOMAIN logs : next[n].since = logs[n].since /\ next[n].entries = logs[n].entries

\* Then it is as large, finite and in order as before.
LEMMA SameEntriesKeep ==
    ASSUME NEW next, next = logfiles', SameEntries(logfiles, next), num' = num
    PROVE  /\ FiniteEntries => FiniteEntries'
           /\ CounterExact => CounterExact'
           /\ at' \in DOMAIN logfiles /\ IndexInOrder => IndexInOrder'
<1>1. FiniteEntries => FiniteEntries'
    BY DEF FiniteEntries, SameEntries
<1>2. [n \in DOMAIN next |-> next[n].entries] = [n \in DOMAIN logfiles |-> logfiles[n].entries]
    BY DEF SameEntries
<1>3. CounterExact => CounterExact'
    BY <1>2 DEF CounterExact, SameEntries
<1>4. at' \in DOMAIN logfiles /\ IndexInOrder => IndexInOrder'
    BY DEF IndexInOrder, Since, SameEntries
<1> QED BY <1>1, <1>3, <1>4

\* The logfile that is changed stays one.
LEMMA LogfileKept ==
    ASSUME NEW log \in Logfile, NEW n \in Nat
    PROVE  /\ [log EXCEPT !.lineno = n] \in Logfile
           /\ [log EXCEPT !.readPos = n] \in Logfile
           /\ [log EXCEPT !.readPos = n, !.lineno = 0] \in Logfile
           /\ \A c \in SUBSET Classes : [log EXCEPT !.classesRead = c, !.readPos = n] \in Logfile
BY DEF Logfile

\* The index after a line was read, and after it was added as an entry.
Advanced == [logfiles EXCEPT ![at].lineno = @ + 1]
Added(entry) == [Advanced EXCEPT ![at].entries = @ \cup {entry}]

LEMMA AdvancedIs ==
    ASSUME TypeOK, IndexInOrder
    PROVE  /\ SameEntries(logfiles, Advanced)
           /\ \A n \in DOMAIN logfiles :
                /\ Advanced[n] \in Logfile
                /\ Advanced[n].classesRead = logfiles[n].classesRead
                /\ Advanced[n].readPos = logfiles[n].readPos
                /\ Advanced[n].lineno = IF n = at THEN logfiles[n].lineno + 1 ELSE logfiles[n].lineno
<1>1. DOMAIN Advanced = DOMAIN logfiles
    BY DEF Advanced
<1>2. ASSUME NEW n \in DOMAIN logfiles
      PROVE  /\ Advanced[n] \in Logfile
             /\ Advanced[n].since = logfiles[n].since
             /\ Advanced[n].entries = logfiles[n].entries
             /\ Advanced[n].classesRead = logfiles[n].classesRead
             /\ Advanced[n].readPos = logfiles[n].readPos
             /\ Advanced[n].lineno = IF n = at THEN logfiles[n].lineno + 1 ELSE logfiles[n].lineno
    <2>1. logfiles[n] \in Logfile /\ logfiles[n].lineno \in Nat
        BY DEF TypeOK, Logfile
    <2>2. CASE n = at
        <3>1. Advanced[n] = [logfiles[n] EXCEPT !.lineno = logfiles[n].lineno + 1]
            BY <2>2 DEF Advanced, IndexInOrder
        <3>2. logfiles[n].lineno + 1 \in Nat
            BY <2>1
        <3> QED BY <2>1, <2>2, <3>1, <3>2 DEF Logfile
    <2>3. CASE n # at
        <3>1. Advanced[n] = logfiles[n]
            BY <2>3 DEF Advanced
        <3> QED BY <2>1, <2>3, <3>1
    <2> QED BY <2>2, <2>3
<1> QED BY <1>1, <1>2 DEF SameEntries

LEMMA AddedIs ==
    ASSUME TypeOK, IndexInOrder,
           NEW entry \in [lineno : Nat, line : Line]
    PROVE  /\ DOMAIN Added(entry) = DOMAIN logfiles
           /\ \A n \in DOMAIN logfiles :
                /\ Added(entry)[n] \in Logfile
                /\ Added(entry)[n].since = logfiles[n].since
                /\ Added(entry)[n].classesRead = logfiles[n].classesRead
                /\ Added(entry)[n].readPos = logfiles[n].readPos
                /\ Added(entry)[n].lineno = Advanced[n].lineno
                /\ Added(entry)[n].entries = IF n = at THEN logfiles[n].entries \cup {entry}
                                             ELSE logfiles[n].entries
<1>1. DOMAIN Added(entry) = DOMAIN logfiles /\ DOMAIN Advanced = DOMAIN logfiles
    BY DEF Added, Advanced
<1>2. ASSUME NEW n \in DOMAIN logfiles
      PROVE  /\ Added(entry)[n] \in Logfile
             /\ Added(entry)[n].since = logfiles[n].since
             /\ Added(entry)[n].classesRead = logfiles[n].classesRead
             /\ Added(entry)[n].readPos = logfiles[n].readPos
             /\ Added(entry)[n].lineno = Advanced[n].lineno
             /\ Added(entry)[n].entries = IF n = at THEN logfiles[n].entries \cup {entry}
                                          ELSE logfiles[n].entries
    <2>1. PICK log : log = Advanced[n]
        OBVIOUS
    <2>2. /\ log \in Logfile /\ log.since = logfiles[n].since /\ log.entries = logfiles[n].entries
          /\ log.classesRead = logfiles[n].classesRead /\ log.readPos = logfiles[n].readPos
        BY <2>1, AdvancedIs DEF SameEntries
    <2>3. CASE n = at
        <3>1. Added(entry)[n] = [log EXCEPT !.entries = log.entries \cup {entry}]
            BY <1>1, <2>1, <2>3 DEF Added
        <3> QED BY <2>1, <2>2, <2>3, <3>1 DEF Logfile
    <2>4. CASE n # at
        <3>1. Added(entry)[n] = log
            BY <1>1, <2>1, <2>4 DEF Added
        <3> QED BY <2>1, <2>2, <2>4, <3>1
    <2> QED BY <2>3, <2>4
<1> QED BY <1>1, <1>2

\* A message that was added is the one that the counter does not know yet.
LEMMA AddedCounted ==
    ASSUME TypeOK, IndexInOrder, FiniteEntries, CounterExact,
           NEW entry \in [lineno : Nat, line : Line], entry \notin logfiles[at].entries
    PROVE  Counted(Added(entry))
<1>1. PICK logs : logs = Added(entry)
    OBVIOUS
<1>2. /\ DOMAIN logs = DOMAIN logfiles
      /\ \A n \in DOMAIN logfiles :
            /\ logs[n] \in Logfile /\ logs[n].since = logfiles[n].since
            /\ logs[n].entries = IF n = at THEN logfiles[n].entries \cup {entry} ELSE logfiles[n].entries
    BY <1>1, AddedIs
<1>3. PICK D, held, more : /\ D = DOMAIN logfiles
                           /\ held = [n \in D |-> logfiles[n].entries]
                           /\ more = [n \in D |-> logs[n].entries]
    OBVIOUS
<1>4. at \in D /\ D \subseteq Names
    BY <1>3 DEF IndexInOrder, TypeOK
<1>5. Countable(held, D)
    BY <1>3, <1>4, NamesAreFinite, FS_Subset DEF Countable, FiniteEntries
<1>6. /\ entry \notin held[at]
      /\ \A n \in D : more[n] = IF n = at THEN held[n] \cup {entry} ELSE held[n]
    BY <1>2, <1>3, <1>4
<1>7. Size(more, D) = Size(held, D) + 1 /\ Countable(more, D)
    BY <1>4, <1>5, <1>6, SizeMore
<1>8. num + 1 = InMemory(logs)
    BY <1>2, <1>3, <1>7 DEF CounterExact, InMemory, EntriesOf
<1>9. \A n \in DOMAIN logs : IsFiniteSet(logs[n].entries)
    BY <1>2, <1>3, <1>7 DEF Countable
<1>10. num \in Nat /\ lastCheck \in Nat /\ \A n \in DOMAIN logs : Since(n) \in Nat
    BY <1>2 DEF TypeOK, Logfile, Since
<1> QED BY <1>1, <1>2, <1>3, <1>4, <1>8, <1>9, <1>10 DEF Counted, IndexInOrder

\* A line is one of the open file, and either is added and counted, or leaves the
\* index as it was.
NextLine == files[open][pos + 1]
NextEntry == [lineno |-> logfiles[at].lineno + 1, line |-> NextLine]

LEMMA ReadLineIs ==
    ASSUME TypeOK, IndexInOrder, FiniteEntries, CounterExact, ReadLine
    PROVE  /\ pos + 1 \in DOMAIN files[open] /\ NextLine \in Line
           /\ NextEntry \in [lineno : Nat, line : Line]
           /\ \/ /\ NextLine.class \in types /\ NextEntry \notin logfiles[at].entries
                 /\ Fresh(logfiles[at], NextEntry)
                 /\ Counted(Added(NextEntry)) /\ HandleNewMessage(Added(NextEntry))
              \/ /\ ~(NextLine.class \in types /\ Fresh(logfiles[at], NextEntry))
                 /\ logfiles' = Advanced /\ num' = num /\ lastCheck' = lastCheck
<1>1. pos + 1 \in DOMAIN files[open] /\ NextLine \in Line
    <2>1. files[open] \in Seq(Line) /\ pos \in Nat /\ pos < Len(files[open])
        BY DEF TypeOK, ReadLine, AtEnd
    <2> QED BY <2>1 DEF NextLine
<1>2. NextEntry \in [lineno : Nat, line : Line]
    <2>1. logfiles[at].lineno \in Nat
        BY DEF TypeOK, IndexInOrder, Logfile
    <2> QED BY <1>1, <2>1 DEF NextEntry
<1>3. CASE NextLine.class \in types /\ Fresh(logfiles[at], NextEntry)
    <2>1. HandleNewMessage(Added(NextEntry))
        BY <1>3 DEF ReadLine, NextEntry, NextLine, Added, Advanced
    <2>2. NextEntry \notin logfiles[at].entries
        BY <1>3 DEF Fresh
    <2> QED BY <1>1, <1>2, <1>3, <2>1, <2>2, AddedCounted
<1>4. CASE ~(NextLine.class \in types /\ Fresh(logfiles[at], NextEntry))
    BY <1>1, <1>2, <1>4 DEF ReadLine, NextEntry, NextLine, Advanced
<1> QED BY <1>3, <1>4

\* Either way a line leaves the counter exact, and no more than is remembered.
LEMMA LineHandled ==
    ASSUME TypeOK, IndexInOrder, FiniteEntries, CounterExact, ReadLine
    PROVE  /\ DOMAIN logfiles' = DOMAIN logfiles
           /\ \A n \in DOMAIN logfiles :
                /\ logfiles'[n] \in Logfile /\ logfiles'[n].since = logfiles[n].since
                /\ logfiles'[n].entries \subseteq logfiles[n].entries
                        \cup (IF n = at THEN {NextEntry} ELSE {})
                /\ logfiles'[n].classesRead \subseteq logfiles[n].classesRead
                /\ logfiles'[n].readPos = logfiles[n].readPos
                /\ logfiles'[n].lineno = IF n = at THEN logfiles[n].lineno + 1 ELSE logfiles[n].lineno
           /\ FiniteEntries' /\ CounterExact' /\ num' \in Nat /\ lastCheck' \in Nat
           /\ \/ /\ num' = num /\ lastCheck' = lastCheck
              \/ /\ lastCheck' = lastCheck
                 /\ num' <= MaxCached \/ num' < lastCheck + CheckMemCycle
              \/ /\ lastCheck' = num'
                 /\ num' <= MaxCached \/ num' <= Cardinality(logfiles'[at].entries)
<1>1. PICK entry : entry = NextEntry
    OBVIOUS
<1>2. entry \in [lineno : Nat, line : Line]
    BY <1>1, ReadLineIs
<1>3. CASE /\ Counted(Added(NextEntry)) /\ HandleNewMessage(Added(NextEntry))
    <2>1. PICK logs : logs = Added(entry)
        OBVIOUS
    <2>2. Counted(logs) /\ HandleNewMessage(logs)
        BY <1>1, <1>3, <2>1
    <2>3. /\ OnlyFreed(logs, logfiles')
          /\ FiniteEntries' /\ num' \in Nat /\ lastCheck' \in Nat /\ CounterExact'
          /\ \/ /\ lastCheck' = lastCheck
                /\ num' <= MaxCached \/ num' < lastCheck + CheckMemCycle
             \/ /\ lastCheck' = num'
                /\ num' <= MaxCached \/ num' <= Cardinality(logfiles'[at].entries)
        BY <2>2, Handled
    <2>4. /\ DOMAIN logs = DOMAIN logfiles
          /\ \A n \in DOMAIN logfiles :
                /\ logs[n].since = logfiles[n].since
                /\ logs[n].classesRead = logfiles[n].classesRead
                /\ logs[n].readPos = logfiles[n].readPos
                /\ logs[n].lineno = IF n = at THEN logfiles[n].lineno + 1 ELSE logfiles[n].lineno
                /\ logs[n].entries = IF n = at THEN logfiles[n].entries \cup {entry}
                                     ELSE logfiles[n].entries
        BY <1>2, <2>1, AddedIs, AdvancedIs
    <2>5. ASSUME NEW n \in DOMAIN logfiles
          PROVE  /\ logfiles'[n] \in Logfile /\ logfiles'[n].since = logfiles[n].since
                 /\ logfiles'[n].entries \subseteq logfiles[n].entries
                        \cup (IF n = at THEN {NextEntry} ELSE {})
                 /\ logfiles'[n].classesRead \subseteq logfiles[n].classesRead
                 /\ logfiles'[n].readPos = logfiles[n].readPos
                 /\ logfiles'[n].lineno = IF n = at THEN logfiles[n].lineno + 1 ELSE logfiles[n].lineno
        BY <1>1, <2>3, <2>4 DEF OnlyFreed
    <2>6. DOMAIN logfiles' = DOMAIN logfiles
        BY <2>3, <2>4 DEF OnlyFreed
    <2> QED BY <2>3, <2>5, <2>6
<1>4. CASE logfiles' = Advanced /\ num' = num /\ lastCheck' = lastCheck
    <2>1. PICK next : next = logfiles'
        OBVIOUS
    <2>2. SameEntries(logfiles, next)
        BY <1>4, <2>1, AdvancedIs
    <2>3. FiniteEntries' /\ CounterExact'
        BY <1>4, <2>1, <2>2, SameEntriesKeep
    <2>4. \A n \in DOMAIN logfiles :
            /\ next[n] \in Logfile
            /\ next[n].classesRead = logfiles[n].classesRead
            /\ next[n].readPos = logfiles[n].readPos
            /\ next[n].lineno = IF n = at THEN logfiles[n].lineno + 1 ELSE logfiles[n].lineno
        BY <1>4, <2>1, AdvancedIs
    <2>5. num' \in Nat /\ lastCheck' \in Nat
        BY <1>4 DEF TypeOK
    <2> QED BY <1>4, <2>1, <2>2, <2>3, <2>4, <2>5 DEF SameEntries
<1> QED BY <1>3, <1>4, ReadLineIs

-----------------------------------------------------------------------------
(* Types                                                                   *)

LEMMA NewLineIs ==
    ASSUME TypeOK, NEW class \in Classes \cup {Invalid}
    PROVE  NewLine(class) \in Line
BY DEF TypeOK, NewLine, Line

\* The steps of a load that do not read a line change how far a file is read.
LEMMA LoadStepIs ==
    ASSUME TypeOK, IndexInOrder, Visit \/ GrownEnd \/ MissingEnd \/ Deliver \/ Finish
    PROVE  /\ SameEntries(logfiles, logfiles')
           /\ \A n \in DOMAIN logfiles :
                /\ logfiles'[n] \in Logfile
                /\ n # at => logfiles'[n] = logfiles[n]
           /\ num' = num /\ lastCheck' = lastCheck /\ files' = files
           /\ stale' = stale /\ mixed' = mixed
           /\ lastUpdate' = lastUpdate /\ logged' = logged /\ now' = now /\ lastRotation' = lastRotation
<1>1. at \in DOMAIN logfiles /\ \A n \in DOMAIN logfiles : logfiles[n] \in Logfile
    BY DEF TypeOK, IndexInOrder
<1>2. PICK log : log = logfiles[at]
    OBVIOUS
<1>3. log \in Logfile /\ log.classesRead \subseteq Classes /\ log.readPos \in Nat
    BY <1>1, <1>2 DEF Logfile
<1>4. Ended \in Nat
    <2>1. pos \in Nat
        BY DEF TypeOK
    <2> QED BY <2>1 DEF Ended
<1>5. PICK next : next = logfiles'
    OBVIOUS
<1>6. ASSUME NEW new \in Logfile, next = [logfiles EXCEPT ![at] = new],
             new.since = log.since, new.entries = log.entries
      PROVE  /\ SameEntries(logfiles, next)
             /\ \A n \in DOMAIN logfiles : next[n] \in Logfile /\ (n # at => next[n] = logfiles[n])
    BY <1>1, <1>2, <1>6 DEF SameEntries
<1>7. ASSUME next = logfiles
      PROVE  /\ SameEntries(logfiles, next)
             /\ \A n \in DOMAIN logfiles : next[n] \in Logfile /\ (n # at => next[n] = logfiles[n])
    BY <1>1, <1>7 DEF SameEntries
<1>8. Visit => next = logfiles \/ next = [logfiles EXCEPT ![at] = [log EXCEPT !.lineno = 0]]
    BY <1>2, <1>5 DEF Visit
<1>9. GrownEnd => \/ next = [logfiles EXCEPT ![at] = [log EXCEPT !.readPos = Ended]]
                  \/ next = [logfiles EXCEPT ![at] = [log EXCEPT !.readPos = Ended, !.lineno = 0]]
    BY <1>1, <1>2, <1>5 DEF GrownEnd
<1>10. MissingEnd =>
        next = [logfiles EXCEPT ![at] = [log EXCEPT !.classesRead = log.classesRead \cup missing,
                                         !.readPos = IF at = Current THEN Ended ELSE log.readPos]]
    BY <1>1, <1>2, <1>5 DEF MissingEnd
<1>11. /\ [log EXCEPT !.lineno = 0] \in Logfile /\ [log EXCEPT !.readPos = Ended] \in Logfile
       /\ [log EXCEPT !.readPos = Ended, !.lineno = 0] \in Logfile
       /\ [log EXCEPT !.classesRead = log.classesRead \cup missing,
                      !.readPos = IF at = Current THEN Ended ELSE log.readPos] \in Logfile
    BY <1>3, <1>4 DEF Logfile, TypeOK
<1>12. /\ SameEntries(logfiles, next)
       /\ \A n \in DOMAIN logfiles : next[n] \in Logfile /\ (n # at => next[n] = logfiles[n])
    <2>1. CASE Visit
        <3>1. CASE next = logfiles
            BY <1>7, <3>1
        <3>2. CASE next = [logfiles EXCEPT ![at] = [log EXCEPT !.lineno = 0]]
            BY <1>3, <1>6, <1>11, <3>2 DEF Logfile
        <3> QED BY <1>8, <2>1, <3>1, <3>2
    <2>2. CASE GrownEnd
        BY <1>3, <1>6, <1>7, <1>9, <1>11, <2>2 DEF Logfile
    <2>3. CASE MissingEnd
        BY <1>3, <1>6, <1>7, <1>10, <1>11, <2>3 DEF Logfile
    <2>4. CASE Deliver \/ Finish
        <3>1. next = logfiles
            BY <1>5, <2>4, Zenon DEF Deliver, Finish, cache
        <3> QED BY <1>7, <3>1
    <2> QED BY <2>1, <2>2, <2>3, <2>4
<1>13. /\ num' = num /\ lastCheck' = lastCheck /\ files' = files
       /\ stale' = stale /\ mixed' = mixed
       /\ lastUpdate' = lastUpdate /\ logged' = logged /\ now' = now /\ lastRotation' = lastRotation
    BY DEF Visit, GrownEnd, MissingEnd, Deliver, Finish, cache, disk
<1> QED BY <1>5, <1>12, <1>13

\* Among finitely many logfiles one is the newest: nothing is newer than one
\* than which the fewest are.
LEMMA NewestIs ==
    ASSUME TypeOK, NEW names, names \subseteq DOMAIN logfiles, names # {}
    PROVE  NewestOf(names) \in names /\ \A m \in names : Since(m) <= Since(NewestOf(names))
<1>1. IsFiniteSet(names) /\ \A n \in names : Since(n) \in Nat
    BY NamesAreFinite, FS_Subset DEF TypeOK, Logfile, Since
<1>2. PICK newer : newer = [n \in names |-> {m \in names : Since(m) > Since(n)}]
    OBVIOUS
<1>3. \A n \in names : IsFiniteSet(newer[n]) /\ Cardinality(newer[n]) \in Nat
    BY <1>1, <1>2, FS_Subset, FS_CardinalityType
<1>4. PICK T : T = {Cardinality(newer[n]) : n \in names}
    OBVIOUS
<1>5. PICK k \in T : \A j \in T : k <= j
    BY <1>3, <1>4, Least
<1>6. PICK n \in names : k = Cardinality(newer[n])
    BY <1>4, <1>5
<1>7. ASSUME NEW m \in names, Since(m) > Since(n)
      PROVE  FALSE
    <2>1. newer[m] \in SUBSET newer[n] /\ m \in newer[n] /\ m \notin newer[m]
        BY <1>1, <1>2, <1>7
    <2>2. Cardinality(newer[m]) <= Cardinality(newer[n]) /\ Cardinality(newer[m]) # Cardinality(newer[n])
        BY <1>3, <2>1, FS_Subset
    <2>3. k <= Cardinality(newer[m])
        BY <1>4, <1>5
    <2> QED BY <1>3, <1>6, <2>2, <2>3
<1>8. \A m \in names : Since(m) <= Since(n)
    BY <1>1, <1>7
<1> QED BY <1>8 DEF NewestOf

Places == {"idle", "visit", "grown", "missing", "deliver", "answered"}

\* The types of what only a query changes.
QueryTypeOK ==
    /\ pos \in Nat /\ pc \in Places
    /\ query \in Queries \cup {NoQuery} /\ at \in Names /\ open \in Names
    /\ types \subseteq Classes /\ missing \subseteq Classes
    /\ result \subseteq Line /\ before \subseteq Line

CacheTypeOK ==
    /\ lastUpdate \in Nat /\ num \in Nat /\ lastCheck \in Nat
    /\ DOMAIN logfiles \subseteq Names /\ \A n \in DOMAIN logfiles : logfiles[n] \in Logfile

DiskTypeOK ==
    /\ files \in [Names -> Seq(Line)]
    /\ logged \in Nat /\ now \in Nat /\ lastRotation \in Nat

LEMMA TypesAre ==
    TypeOK <=> /\ DiskTypeOK /\ CacheTypeOK /\ QueryTypeOK
               /\ stale \in BOOLEAN /\ skipped \in BOOLEAN /\ mixed \in BOOLEAN
BY DEF TypeOK, DiskTypeOK, CacheTypeOK, QueryTypeOK, Places

\* The core writes lines.
LEMMA DiskTypes ==
    ASSUME TypeOK, FilesInOrder, Log \/ Tick \/ Rotate
    PROVE  DiskTypeOK' /\ open' \in Names
<1> USE DEF DiskTypeOK
<1>1. files \in [Names -> Seq(Line)] /\ logged \in Nat /\ now \in Nat /\ lastRotation \in Nat
      /\ open \in Names
    BY DEF TypeOK
<1>2. CASE Log
    <2>1. PICK class \in Classes \cup {Invalid} :
            files' = [files EXCEPT ![Current] = Append(@, NewLine(class))]
        BY <1>2 DEF Log
    <2>2. NewLine(class) \in Line
        BY NewLineIs
    <2>3. files[Current] \in Seq(Line) /\ Append(files[Current], NewLine(class)) \in Seq(Line)
        BY <1>1, <2>2, BoundsAre
    <2>4. files' \in [Names -> Seq(Line)]
        BY <1>1, <2>1, <2>3
    <2>5. logged' = logged + 1 /\ now' = now /\ lastRotation' = lastRotation /\ open' = open
        BY <1>2 DEF Log
    <2> QED BY <1>1, <2>4, <2>5
<1>3. CASE Tick
    BY <1>1, <1>3 DEF Tick
<1>4. CASE Rotate
    <2>1. PICK name \in Names, class \in Classes :
            /\ files' = [files EXCEPT ![name] = files[Current], ![Current] = <<NewLine(class)>>]
            /\ open' = IF open = Current /\ pc \in {"grown", "missing"} THEN name ELSE open
        BY <1>4 DEF Rotate
    <2>2. NewLine(class) \in Line
        BY NewLineIs
    <2>3. files[Current] \in Seq(Line) /\ <<NewLine(class)>> \in Seq(Line)
        BY <1>1, <2>2, BoundsAre
    <2>4. files' \in [Names -> Seq(Line)]
        BY <1>1, <2>1, <2>3
    <2>5. logged' = logged + 1 /\ now' = now /\ lastRotation' = now
        BY <1>4 DEF Rotate
    <2>6. open' = name \/ open' = open
        BY <2>1
    <2>7. open' \in Names
        BY <1>1, <2>1, <2>6
    <2> QED BY <1>1, <2>4, <2>5, <2>7
<1> QED BY <1>2, <1>3, <1>4

\* What the index becomes has the types of one.
LEMMA CacheTypes ==
    ASSUME TypeOK, FilesInOrder, IndexInOrder, FiniteEntries, CounterExact, [Next]_vars
    PROVE  CacheTypeOK'
<1> USE DEF CacheTypeOK
<1>1. CacheTypeOK
    BY TypesAre
<1>2. CASE Log \/ Tick \/ Rotate \/ UNCHANGED vars
    <2>1. UNCHANGED cache
        BY <1>2 DEF Log, Tick, Rotate, vars
    <2> QED BY <1>1, <2>1 DEF cache
<1>3. CASE Begin
    <2>1. CASE logfiles' = NewIndex /\ num' = 0 /\ lastUpdate' = now
        <3>1. DOMAIN NewIndex \subseteq Names /\ \A n \in DOMAIN NewIndex : NewIndex[n] \in Logfile
            BY NewIndexIs DEF TypeOK
        <3>2. now \in Nat /\ lastCheck' = lastCheck
            BY <1>3 DEF TypeOK, Begin
        <3> QED BY <1>1, <2>1, <3>1, <3>2
    <2>2. CASE UNCHANGED <<logfiles, num, lastUpdate>>
        BY <1>1, <1>3, <2>2 DEF Begin
    <2> QED BY <1>3, <2>1, <2>2 DEF Begin
<1>4. CASE Visit \/ GrownEnd \/ MissingEnd \/ Deliver \/ Finish
    <2>1. PICK next : next = logfiles'
        OBVIOUS
    <2>2. /\ DOMAIN next = DOMAIN logfiles /\ \A n \in DOMAIN logfiles : next[n] \in Logfile
          /\ num' = num /\ lastCheck' = lastCheck /\ lastUpdate' = lastUpdate
        BY <1>4, <2>1, LoadStepIs DEF SameEntries
    <2> QED BY <1>1, <2>1, <2>2
<1>5. CASE ReadLine
    <2>1. PICK next : next = logfiles'
        OBVIOUS
    <2>2. /\ DOMAIN next = DOMAIN logfiles /\ \A n \in DOMAIN logfiles : next[n] \in Logfile
          /\ num' \in Nat /\ lastCheck' \in Nat
        BY <1>5, <2>1, LineHandled
    <2>3. lastUpdate' = lastUpdate
        BY <1>5 DEF ReadLine
    <2> QED BY <1>1, <2>1, <2>2, <2>3
<1> QED BY <1>2, <1>3, <1>4, <1>5 DEF Next

\* A query begins at a logfile of the index, or has nothing to do.
LEMMA SearchIs ==
    ASSUME NEW q, NEW logs, Search(q, logs), Current \in DOMAIN logs
    PROVE  /\ at' \in DOMAIN logs /\ pc' \in {"visit", "answered"}
           /\ pc' = "visit" => /\ q.classes # {} /\ logs[at'].since < q.until
                               /\ \A m \in DOMAIN logs : logs[m].since < q.until
                                    => logs[m].since <= logs[at'].since
           /\ pc' = "answered" => \/ q.classes = {}
                                  \/ \A m \in DOMAIN logs : ~(logs[m].since < q.until)
BY DEF Search, Goto

LEMMA HeldIs ==
    ASSUME files \in [Names -> Seq(Line)], NEW q
    PROVE  Held(q) \subseteq Line
<1>1. ASSUME NEW n \in Names
      PROVE  LinesOf(n) \subseteq Line
    <2>1. files[n] \in Seq(Line)
        OBVIOUS
    <2>2. \A i \in DOMAIN files[n] : files[n][i] \in Line
        BY <2>1
    <2> QED BY <2>2 DEF LinesOf
<1> QED BY <1>1 DEF Held

\* What Deliver looks at is entries of the logfile.
LEMMA DeliverTypes ==
    ASSUME TypeOK, IndexInOrder, Deliver
    PROVE  result' \subseteq Line /\ at' \in DOMAIN logfiles /\ pc' \in {"visit", "answered"}
<1>1. PICK entries : entries = logfiles[at].entries
    OBVIOUS
<1>2. \A e \in entries : e.line \in Line
    BY <1>1 DEF TypeOK, IndexInOrder, Logfile
<1>3. result' \subseteq result \cup {e.line : e \in entries}
    BY <1>1 DEF Deliver
<1>4. at' \in DOMAIN logfiles /\ pc' \in {"visit", "answered"}
    <2>1. CASE Goto(at, "answered")
        BY <2>1 DEF Goto, IndexInOrder
    <2>2. CASE OlderThan(at) # {} /\ Goto(NewestOf(OlderThan(at)), "visit")
        <3>1. NewestOf(OlderThan(at)) \in OlderThan(at)
            BY <2>2, NewestIs DEF OlderThan
        <3> QED BY <2>2, <3>1 DEF Goto, OlderThan
    <2> QED BY <2>1, <2>2 DEF Deliver
<1> QED BY <1>2, <1>3, <1>4 DEF TypeOK

LEMMA QueryTypes ==
    ASSUME TypeOK, FilesInOrder, IndexInOrder, [Next]_vars
    PROVE  QueryTypeOK'
<1> USE DEF QueryTypeOK
<1>1. QueryTypeOK
    BY TypesAre
<1>2. CASE Log \/ Tick \/ Rotate
    <2>1. open' \in Names
        BY <1>2, DiskTypes
    <2>2. UNCHANGED <<pc, query, at, pos, types, missing, result, before>>
        BY <1>2 DEF Log, Tick, Rotate
    <2> QED BY <1>1, <2>1, <2>2
<1>3. CASE UNCHANGED vars
    BY <1>1, <1>3 DEF vars
<1>4. CASE Begin
    <2>1. PICK q \in Queries : query' = q /\ before' = Held(q) /\ Search(q, logfiles')
        BY <1>4 DEF Begin
    <2>2. DOMAIN logfiles' \subseteq Names /\ Current \in DOMAIN logfiles'
        <3>1. CASE logfiles' = NewIndex
            BY <3>1, NewIndexIs DEF TypeOK
        <3>2. CASE logfiles' = logfiles
            BY <3>2 DEF TypeOK, IndexInOrder
        <3> QED BY <1>4, <3>1, <3>2 DEF Begin
    <2>3. PICK logs : logs = logfiles'
        OBVIOUS
    <2>4. at' \in DOMAIN logs /\ pc' \in {"visit", "answered"}
        BY <2>1, <2>2, <2>3, SearchIs
    <2>5. Held(q) \subseteq Line
        BY HeldIs DEF TypeOK
    <2>6. UNCHANGED <<open, pos, types, missing, result>>
        BY <1>4 DEF Begin
    <2> QED BY <1>1, <2>1, <2>2, <2>3, <2>4, <2>5, <2>6 DEF Places
<1>5. CASE Visit
    <2>2. logfiles[at] \in Logfile /\ logfiles[at].readPos \in Nat /\ logfiles[at].classesRead \subseteq Classes
        BY DEF TypeOK, IndexInOrder, Logfile
    <2>3. query.classes \subseteq Classes
        BY <1>1, QueriesAre
    <2>4. UNCHANGED <<query, at, result, before>>
        BY <1>5 DEF Visit
    <2>5. pc' \in Places /\ pos' \in Nat /\ types' \subseteq Classes /\ missing' \subseteq Classes /\ open' \in Names
        BY <1>1, <1>5, <2>2, <2>3 DEF Visit, Places
    <2> QED BY <1>1, <2>4, <2>5
<1>6. CASE ReadLine
    BY <1>1, <1>6 DEF ReadLine
<1>7. CASE GrownEnd
    BY <1>1, <1>7 DEF GrownEnd, Places
<1>8. CASE MissingEnd
    BY <1>1, <1>8 DEF MissingEnd, Places
<1>9. CASE Deliver
    <2>1. result' \subseteq Line /\ at' \in Names /\ pc' \in Places
        BY <1>9, DeliverTypes DEF TypeOK, Places
    <2> QED BY <1>1, <1>9, <2>1 DEF Deliver
<1>10. CASE Finish
    BY <1>1, <1>10, BoundsAre DEF Finish, Goto, Places
<1> QED BY <1>2, <1>3, <1>4, <1>5, <1>6, <1>7, <1>8, <1>9, <1>10 DEF Next

LEMMA TypeStep ==
    ASSUME TypeOK, FilesInOrder, IndexInOrder, FiniteEntries, CounterExact, [Next]_vars
    PROVE  TypeOK'
<1>1. DiskTypeOK'
    <2>1. CASE Log \/ Tick \/ Rotate
        BY <2>1, DiskTypes
    <2>2. CASE ~(Log \/ Tick \/ Rotate)
        <3>1. UNCHANGED disk
            BY <2>2 DEF Next, Begin, Visit, ReadLine, GrownEnd, MissingEnd, Deliver, Finish, vars
        <3> QED BY <3>1, TypesAre DEF disk, DiskTypeOK
    <2> QED BY <2>1, <2>2
<1>2. CacheTypeOK' /\ QueryTypeOK'
    BY CacheTypes, QueryTypes
<1>3. stale' \in BOOLEAN /\ skipped' \in BOOLEAN /\ mixed' \in BOOLEAN
    <2>1. stale \in BOOLEAN /\ skipped \in BOOLEAN /\ mixed \in BOOLEAN
        BY TypesAre
    <2> QED BY <2>1 DEF Next, Log, Tick, Rotate, Begin, Visit, ReadLine, GrownEnd, MissingEnd,
                        Deliver, Finish, vars
<1> QED BY <1>1, <1>2, <1>3 DEF TypeOK, DiskTypeOK, CacheTypeOK, QueryTypeOK, Places

-----------------------------------------------------------------------------
(* The files                                                               *)

\* A file that has grown, or not.
Prefix(f, g) == DOMAIN f \subseteq DOMAIN g /\ \A i \in DOMAIN f : g[i] = f[i]

LEMMA LinesGrow ==
    ASSUME NEW f, NEW g, Prefix(f, g)
    PROVE  LinesIn(f) \subseteq LinesIn(g)
BY DEF Prefix, LinesIn

LEMMA LinesCounted ==
    ASSUME NEW f \in Seq(Line), NEW entries \in SUBSET LinesIn(f)
    PROVE  IsFiniteSet(entries) /\ Cardinality(entries) <= Len(f)
<1>1. Len(f) \in Nat /\ DOMAIN f = 1 .. Len(f)
    OBVIOUS
<1>2. IsFiniteSet(DOMAIN f) /\ Cardinality(DOMAIN f) = Len(f)
    BY <1>1, FS_Interval
<1>3. PICK g : g = [i \in DOMAIN f |-> [lineno |-> i, line |-> f[i]]]
    OBVIOUS
<1>4. LinesIn(f) = {g[i] : i \in DOMAIN f}
    BY <1>3 DEF LinesIn
<1>5. IsFiniteSet(LinesIn(f)) /\ Cardinality(LinesIn(f)) <= Len(f)
    BY <1>2, <1>4, ImageIs
<1>6. IsFiniteSet(entries) /\ Cardinality(entries) <= Cardinality(LinesIn(f))
    BY <1>5, FS_Subset
<1> QED BY <1>1, <1>5, <1>6, FS_CardinalityType

\* Every line that was on disk still is, under its name unless the log was rotated.
LEMMA FilesGrow ==
    ASSUME TypeOK, FilesInOrder, [Next]_vars
    PROVE  /\ \A n \in Names : \E m \in Names : Prefix(files[n], files'[m])
           /\ ~stale' => \A n \in Names : Prefix(files[n], files'[n])
<1>1. \A n \in Names : files[n] \in Seq(Line)
    BY DEF TypeOK
<1>2. CASE Log
    <2>1. PICK line : files' = [files EXCEPT ![Current] = Append(@, line)]
        BY <1>2 DEF Log
    <2>2. ASSUME NEW n \in Names
          PROVE  Prefix(files[n], files'[n])
        <3>1. CASE n = Current
            <4>1. PICK f \in Seq(Line) : f = files[n]
                BY <1>1
            <4>2. files'[n] = Append(f, line)
                BY <2>1, <3>1, <4>1 DEF TypeOK
            <4>3. Prefix(f, Append(f, line))
                BY <4>1 DEF Prefix
            <4> QED BY <4>1, <4>2, <4>3
        <3>2. CASE n # Current
            <4>1. files'[n] = files[n]
                BY <2>1, <3>2 DEF TypeOK
            <4> QED BY <4>1 DEF Prefix
        <3> QED BY <3>1, <3>2
    <2> QED BY <2>2
<1>3. CASE Rotate
    <2>1. PICK name \in Names, class \in Classes :
            /\ files[name] = <<>>
            /\ files' = [files EXCEPT ![name] = files[Current], ![Current] = <<NewLine(class)>>]
        BY <1>3 DEF Rotate
    <2>2. name # Current /\ stale'
        BY <1>3, <2>1 DEF FilesInOrder, Rotate
    <2>3. ASSUME NEW n \in Names
          PROVE  \E m \in Names : Prefix(files[n], files'[m])
        <3>1. CASE n = Current
            <4>1. files'[name] = files[n]
                BY <2>1, <2>2, <3>1 DEF TypeOK
            <4> QED BY <4>1 DEF Prefix
        <3>2. CASE n = name
            <4>1. DOMAIN files[n] = {}
                BY <2>1, <3>2
            <4> QED BY <4>1 DEF Prefix
        <3>3. CASE n # Current /\ n # name
            <4>1. files'[n] = files[n]
                BY <2>1, <3>3 DEF TypeOK
            <4> QED BY <4>1 DEF Prefix
        <3> QED BY <3>1, <3>2, <3>3
    <2> QED BY <2>2, <2>3
<1>4. CASE ~(Log \/ Rotate)
    <2>1. files' = files
        BY <1>4 DEF Next, Tick, Begin, Visit, ReadLine, GrownEnd, MissingEnd, Deliver, Finish, vars, disk
    <2> QED BY <2>1 DEF Prefix
<1> QED BY <1>2, <1>3, <1>4

LEMMA FilesStep ==
    ASSUME TypeOK, FilesInOrder, [Next]_vars
    PROVE  FilesInOrder'
<1>1. /\ files[Current] \in Seq(Line) /\ files[Current] # <<>> /\ Current \in Names
      /\ now \in Nat /\ DOMAIN files = Names
      /\ \A n \in Names : files[n] # <<>> => Head(files[n]).time \in Nat /\ Head(files[n]).time <= now
    BY BoundsAre, FirstLine DEF TypeOK, FilesInOrder
<1>2. CASE Log
    <2>1. PICK line : files' = [files EXCEPT ![Current] = Append(@, line)]
        BY <1>2 DEF Log
    <2>2. files'[Current] # <<>> /\ Head(files'[Current]) = Head(files[Current])
        <3>1. files'[Current] = Append(files[Current], line)
            BY <1>1, <2>1
        <3>2. PICK f \in Seq(Line) : f = files[Current] /\ f # <<>>
            BY <1>1
        <3>3. /\ Len(f) \in Nat /\ Len(f) >= 1 /\ Len(Append(f, line)) = Len(f) + 1
              /\ Append(f, line)[1] = f[1]
            BY <3>2
        <3>4. Append(f, line) # <<>>
            BY <3>3
        <3> QED BY <3>1, <3>2, <3>3, <3>4
    <2>3. \A n \in Names : n # Current => files'[n] = files[n]
        BY <1>1, <2>1
    <2>4. now' = now
        BY <1>2 DEF Log
    <2> QED BY <2>2, <2>3, <2>4 DEF FilesInOrder
<1>3. CASE Tick
    <2>1. files' = files /\ now' = now + 1
        BY <1>3 DEF Tick
    <2>2. \A n \in Names : files[n] # <<>> => Head(files[n]).time <= now + 1
        BY <1>1
    <2> QED BY <2>1, <2>2 DEF FilesInOrder
<1>4. CASE Rotate
    <2>1. PICK name \in Names, class \in Classes :
            /\ files[name] = <<>>
            /\ files' = [files EXCEPT ![name] = files[Current], ![Current] = <<NewLine(class)>>]
        BY <1>4 DEF Rotate
    <2>2. name # Current /\ now' = now /\ Head(files[Current]).time < now
        BY <1>1, <1>4, <2>1 DEF Rotate
    <2>3. /\ files'[Current] = <<NewLine(class)>> /\ files'[name] = files[Current]
          /\ \A n \in Names : n # Current /\ n # name => files'[n] = files[n]
        BY <1>1, <2>1, <2>2
    <2>4. Head(files'[Current]).time = now /\ files'[Current] # <<>>
        BY <2>3 DEF NewLine
    <2>5. ASSUME NEW n \in Names, n # Current, files'[n] # <<>>
          PROVE  /\ Head(files'[n]).time < now /\ Head(files'[n]).time \in Nat
                 /\ n # name => files[n] # <<>> /\ Head(files'[n]).time = Head(files[n]).time
                                /\ Head(files'[n]).time # Head(files[Current]).time
        BY <1>1, <2>2, <2>3, <2>5 DEF FilesInOrder
    <2>6. ASSUME NEW m \in Names, NEW n \in Names, m # n, files'[m] # <<>>, files'[n] # <<>>
          PROVE  /\ Head(files'[m]).time # Head(files'[n]).time
                 /\ m = Current => Head(files'[n]).time < Head(files'[m]).time
        <3>1. CASE m = Current \/ n = Current
            BY <1>1, <2>4, <2>5, <2>6, <3>1
        <3>2. CASE m # Current /\ n # Current /\ m # name /\ n # name
            BY <2>5, <2>6, <3>2 DEF FilesInOrder
        <3>3. CASE m # Current /\ n # Current /\ (m = name \/ n = name)
            BY <2>3, <2>5, <2>6, <3>3
        <3> QED BY <3>1, <3>2, <3>3
    <2>7. \A n \in Names : files'[n] # <<>> => Head(files'[n]).time <= now
        BY <1>1, <2>4, <2>5
    <2> QED BY <2>2, <2>4, <2>6, <2>7 DEF FilesInOrder
<1>5. CASE ~(Log \/ Tick \/ Rotate)
    <2>1. files' = files /\ now' = now
        BY <1>5 DEF Next, Begin, Visit, ReadLine, GrownEnd, MissingEnd, Deliver, Finish, vars, disk
    <2> QED BY <2>1 DEF FilesInOrder
<1> QED BY <1>2, <1>3, <1>4, <1>5

-----------------------------------------------------------------------------
(* The index                                                               *)

\* The index, its order, its sizes and its counter.
LEMMA IndexStep ==
    ASSUME TypeOK, FilesInOrder, IndexInOrder, FiniteEntries, CounterExact, [Next]_vars
    PROVE  IndexInOrder' /\ FiniteEntries' /\ CounterExact'
<1>1. PICK next : next = logfiles'
    OBVIOUS
<1>2. CASE Log \/ Tick \/ Rotate \/ UNCHANGED vars
    <2>1. logfiles' = logfiles /\ num' = num /\ at' = at
        BY <1>2 DEF Log, Tick, Rotate, vars, cache
    <2> QED BY <2>1 DEF IndexInOrder, Since, FiniteEntries, CounterExact
<1>3. CASE Begin
    <2>1. CASE logfiles' = NewIndex /\ num' = 0
        <3>1. PICK logs : logs = NewIndex
            OBVIOUS
        <3>2. /\ Current \in DOMAIN logs
              /\ \A n \in DOMAIN logs : logs[n].entries = {}
              /\ \A m, n \in DOMAIN logs : m # n => logs[m].since # logs[n].since
            BY <3>1, NewIndexIs DEF TypeOK
        <3>3. \A n \in DOMAIN logs : IsFiniteSet(logs[n].entries)
            BY <3>2, FS_EmptySet
        <3>4. Size([n \in DOMAIN logs |-> logs[n].entries], DOMAIN logs) = 0
            BY <3>2, NothingCounted
        <3>5. at' \in DOMAIN logs
            BY <1>3, <2>1, <3>1, <3>2, SearchIs DEF Begin
        <3> QED BY <2>1, <3>1, <3>2, <3>3, <3>4, <3>5
                DEF IndexInOrder, Since, FiniteEntries, CounterExact
    <2>2. CASE logfiles' = logfiles /\ num' = num
        <3>1. PICK logs : logs = logfiles
            OBVIOUS
        <3>2. at' \in DOMAIN logs
            BY <1>3, <2>2, <3>1, SearchIs DEF Begin, IndexInOrder
        <3> QED BY <2>2, <3>1, <3>2 DEF IndexInOrder, Since, FiniteEntries, CounterExact
    <2> QED BY <1>3, <2>1, <2>2 DEF Begin
<1>4. CASE Visit \/ GrownEnd \/ MissingEnd \/ Deliver \/ Finish
    <2>1. SameEntries(logfiles, next) /\ num' = num
        BY <1>1, <1>4, LoadStepIs
    <2>2. at' \in DOMAIN logfiles
        <3>1. CASE Visit \/ GrownEnd \/ MissingEnd
            BY <3>1 DEF Visit, GrownEnd, MissingEnd, IndexInOrder
        <3>2. CASE Deliver
            BY <3>2, DeliverTypes
        <3>3. CASE Finish
            BY <3>3 DEF Finish, Goto, IndexInOrder
        <3> QED BY <1>4, <3>1, <3>2, <3>3
    <2> QED BY <1>1, <2>1, <2>2, SameEntriesKeep
<1>5. CASE ReadLine
    <2>1. /\ DOMAIN next = DOMAIN logfiles
          /\ \A n \in DOMAIN logfiles : next[n].since = logfiles[n].since
          /\ FiniteEntries' /\ CounterExact'
        BY <1>1, <1>5, LineHandled
    <2>2. at' = at
        BY <1>5 DEF ReadLine
    <2>3. IndexInOrder'
        BY <1>1, <2>1, <2>2 DEF IndexInOrder, Since
    <2> QED BY <2>1, <2>3
<1> QED BY <1>2, <1>3, <1>4, <1>5 DEF Next

\* How far the current log was read, seen from where a load is in it.
LEMMA EndedIs ==
    ASSUME TypeOK, IndexInOrder, AtEnd,
           pos = logfiles[at].lineno \/ logfiles[at].lineno >= MaxLines
    PROVE  Ended = logfiles[at].lineno \/ logfiles[at].lineno >= MaxLines
<1>1. PICK f \in Seq(Line), lineno \in Nat : f = files[open] /\ lineno = logfiles[at].lineno
    BY DEF TypeOK, IndexInOrder, Logfile
<1>2. pos \in Nat /\ Len(f) \in Nat /\ MaxLines \in Nat
    BY BoundsAre DEF TypeOK
<1>3. CASE lineno >= MaxLines
    BY <1>1, <1>3
<1>4. CASE ~(lineno >= MaxLines)
    <2>1. pos = lineno /\ pos >= Len(f)
        BY <1>1, <1>4 DEF AtEnd
    <2>2. ~(pos < Len(f))
        BY <1>2, <2>1
    <2> QED BY <1>1, <2>1, <2>2 DEF Ended
<1> QED BY <1>3, <1>4

LEMMA PositionsStep ==
    ASSUME TypeOK, FilesInOrder, IndexInOrder, FiniteEntries, CounterExact, PositionsAreLines,
           [Next]_vars
    PROVE  PositionsAreLines'
<1>1. PICK D : D = DOMAIN logfiles
    OBVIOUS
<1>2. Current \in D /\ at \in D /\ \A n \in D : logfiles[n] \in Logfile
    BY <1>1 DEF TypeOK, IndexInOrder
<1> USE DEF PositionsAreLines
<1>3. CASE Log \/ Tick \/ Rotate \/ UNCHANGED vars
    <2>1. /\ UNCHANGED <<logfiles, pc, at, pos>>
          /\ stale' \/ (stale' = stale /\ open' = open)
        BY <1>3 DEF Log, Tick, Rotate, vars, cache
    <2> QED BY <2>1
<1>4. CASE Begin
    <2>1. pc = "idle" /\ pc' \in {"visit", "answered"}
        BY <1>4 DEF Begin, Search, Goto
    <2>2. CASE logfiles' = NewIndex
        <3>1. NewIndex[Current].classesRead = {}
            BY NewIndexIs DEF TypeOK
        <3> QED BY <2>1, <2>2, <3>1
    <2>3. CASE logfiles' = logfiles
        BY <2>1, <2>3
    <2> QED BY <1>4, <2>2, <2>3 DEF Begin
<1>5. CASE Visit
    <2>1. /\ pc = "visit" /\ at' = at /\ stale' = stale
          /\ \/ pc' \in {"answered", "deliver"} /\ logfiles' = logfiles
             \/ /\ pc' = "grown" /\ at = Current /\ logfiles[at].classesRead # {}
                /\ logfiles' = logfiles /\ pos' = logfiles[at].readPos /\ open' = at
             \/ /\ pc' = "missing" /\ pos' = 0 /\ open' = at
                /\ logfiles' = [logfiles EXCEPT ![at].lineno = 0]
        BY <1>5 DEF Visit
    <2>2. CASE pc' \in {"answered", "deliver"} /\ logfiles' = logfiles
        BY <2>1, <2>2
    <2>3. CASE /\ pc' = "grown" /\ at = Current /\ logfiles[at].classesRead # {}
               /\ logfiles' = logfiles /\ pos' = logfiles[at].readPos /\ open' = at
        BY <2>1, <2>3
    <2>4. CASE /\ pc' = "missing" /\ pos' = 0 /\ open' = at
               /\ logfiles' = [logfiles EXCEPT ![at].lineno = 0]
        <3>1. logfiles'[at].lineno = 0
            BY <1>1, <1>2, <2>4 DEF Logfile
        <3>2. at # Current => logfiles'[Current] = logfiles[Current]
            BY <1>1, <1>2, <2>4
        <3> QED BY <2>1, <2>4, <3>1, <3>2
    <2> QED BY <2>1, <2>2, <2>3, <2>4
<1>6. CASE ReadLine
    <2>1. /\ pc \in {"grown", "missing"} /\ pc' = pc /\ at' = at /\ stale' = stale /\ open' = open
          /\ pos' = pos + 1
        BY <1>6 DEF ReadLine
    <2>2. PICK next : next = logfiles'
        OBVIOUS
    <2>3. \A n \in D : /\ next[n].classesRead \subseteq logfiles[n].classesRead
                       /\ next[n].readPos = logfiles[n].readPos
                       /\ next[n].lineno = IF n = at THEN logfiles[n].lineno + 1
                                           ELSE logfiles[n].lineno
        BY <1>1, <1>6, <2>2, LineHandled
    <2>4. next[at].lineno = logfiles[at].lineno + 1 /\ logfiles[at].lineno \in Nat
        BY <1>2, <2>3 DEF Logfile
    <2>5. pos + 1 = next[at].lineno \/ next[at].lineno >= MaxLines
        BY <2>1, <2>4, BoundsAre
    <2>6. at # Current =>
            /\ next[Current].classesRead \subseteq logfiles[Current].classesRead
            /\ next[Current].readPos = logfiles[Current].readPos
            /\ next[Current].lineno = logfiles[Current].lineno
        BY <1>2, <2>3
    <2> QED BY <2>1, <2>2, <2>5, <2>6
<1>7. CASE GrownEnd
    <2>1. /\ pc = "grown" /\ AtEnd /\ at = Current /\ at' = at /\ stale' = stale /\ open' = open
          /\ \/ /\ pc' = "deliver" /\ logfiles' = [logfiles EXCEPT ![at].readPos = Ended]
             \/ /\ pc' = "missing" /\ pos' = 0
                /\ logfiles' = [logfiles EXCEPT ![at].readPos = Ended, ![at].lineno = 0]
        BY <1>7 DEF GrownEnd
    <2>2. Ended = logfiles[at].lineno \/ logfiles[at].lineno >= MaxLines
        BY <2>1, EndedIs
    <2>3. CASE pc' = "deliver" /\ logfiles' = [logfiles EXCEPT ![at].readPos = Ended]
        <3>1. logfiles'[at].readPos = Ended /\ logfiles'[at].lineno = logfiles[at].lineno
            BY <1>1, <1>2, <2>3 DEF Logfile
        <3> QED BY <2>1, <2>2, <2>3, <3>1
    <2>4. CASE /\ pc' = "missing" /\ pos' = 0
               /\ logfiles' = [logfiles EXCEPT ![at].readPos = Ended, ![at].lineno = 0]
        <3>1. logfiles'[at].lineno = 0
            BY <1>1, <1>2, <2>4 DEF Logfile
        <3> QED BY <2>1, <2>4, <3>1
    <2> QED BY <2>1, <2>3, <2>4
<1>8. CASE MissingEnd
    <2>1. /\ pc = "missing" /\ AtEnd /\ at' = at /\ pc' = "deliver"
          /\ logfiles' = [logfiles EXCEPT ![at].classesRead = @ \cup missing,
                              ![at].readPos = IF at = Current THEN Ended ELSE @]
        BY <1>8 DEF MissingEnd
    <2>2. Ended = logfiles[at].lineno \/ logfiles[at].lineno >= MaxLines
        BY <2>1, EndedIs
    <2>3. CASE at = Current
        <3>1. logfiles'[at].readPos = Ended /\ logfiles'[at].lineno = logfiles[at].lineno
            BY <1>1, <1>2, <2>1, <2>3 DEF Logfile
        <3> QED BY <2>1, <2>2, <2>3, <3>1
    <2>4. CASE at # Current
        <3>1. logfiles'[Current] = logfiles[Current]
            BY <1>1, <1>2, <2>1, <2>4
        <3> QED BY <2>1, <2>4, <3>1
    <2> QED BY <2>3, <2>4
<1>9. CASE Deliver \/ Finish
    <2>1. logfiles' = logfiles /\ pc \in {"deliver", "answered"} /\ pc' \in {"visit", "answered", "idle"}
        BY <1>9 DEF Deliver, Finish, Goto, cache
    <2> QED BY <2>1
<1> QED BY <1>3, <1>4, <1>5, <1>6, <1>7, <1>8, <1>9 DEF Next

\* What is read is added as the line that it is.
LEMMA EntriesStep ==
    ASSUME TypeOK, FilesInOrder, IndexInOrder, FiniteEntries, CounterExact, PositionsAreLines,
           EntriesAreLines, [Next]_vars
    PROVE  EntriesAreLines'
<1>1. PICK next, D : next = logfiles' /\ D = DOMAIN logfiles
    OBVIOUS
<1>2. D \subseteq Names
    BY <1>1 DEF TypeOK
<1>3. ASSUME NEW n \in Names
      PROVE  /\ ~stale' => LinesIn(files[n]) \subseteq LinesIn(files'[n])
             /\ \E m \in Names : LinesIn(files[n]) \subseteq LinesIn(files'[m])
    BY FilesGrow, LinesGrow
<1>4. ASSUME DOMAIN next = D, \A n \in D : next[n].entries = logfiles[n].entries,
             stale' => mixed' = mixed, ~stale' => stale' = stale /\ mixed' = mixed
      PROVE  EntriesAreLines'
    <2>1. ASSUME NEW n \in D
          PROVE  /\ ~stale' => next[n].entries \subseteq LinesIn(files'[n])
                 /\ ~mixed' => \E name \in Names : next[n].entries \subseteq LinesIn(files'[name])
        <3>1. ~stale' => next[n].entries \subseteq LinesIn(files'[n])
            BY <1>1, <1>2, <1>3, <1>4 DEF EntriesAreLines
        <3>2. ASSUME ~mixed'
              PROVE  \E name \in Names : next[n].entries \subseteq LinesIn(files'[name])
            <4>1. PICK name \in Names : logfiles[n].entries \subseteq LinesIn(files[name])
                BY <1>1, <1>4, <3>2 DEF EntriesAreLines
            <4>2. PICK m \in Names : LinesIn(files[name]) \subseteq LinesIn(files'[m])
                BY <1>3
            <4> QED BY <1>4, <4>1, <4>2
        <3> QED BY <3>1, <3>2
    <2> QED BY <1>1, <1>4, <2>1 DEF EntriesAreLines
<1>5. CASE Log \/ Tick \/ Rotate \/ UNCHANGED vars
    <2>1. logfiles' = logfiles /\ mixed' = mixed /\ (stale' \/ stale' = stale)
        BY <1>5 DEF Log, Tick, Rotate, vars, cache
    <2> QED BY <1>1, <1>4, <2>1
<1>6. CASE Begin
    <2>1. CASE logfiles' = NewIndex
        <3>1. \A n \in DOMAIN next : next[n].entries = {} /\ n \in Names
            BY <1>1, <2>1, NewIndexIs DEF TypeOK
        <3> QED BY <1>1, <3>1 DEF EntriesAreLines
    <2>2. CASE logfiles' = logfiles /\ stale' = stale
        <3>1. mixed' = mixed
            BY <1>6 DEF Begin
        <3> QED BY <1>1, <1>4, <2>2, <3>1
    <2> QED BY <1>6, <2>1, <2>2 DEF Begin
<1>7. CASE Visit \/ GrownEnd \/ MissingEnd \/ Deliver \/ Finish
    <2>1. SameEntries(logfiles, next) /\ stale' = stale /\ mixed' = mixed
        BY <1>1, <1>7, LoadStepIs
    <2> QED BY <1>1, <1>4, <2>1 DEF SameEntries
<1>8. CASE ReadLine
    <2>1. /\ DOMAIN next = D
          /\ \A n \in D : next[n].entries \subseteq logfiles[n].entries
                                \cup (IF n = at THEN {NextEntry} ELSE {})
        BY <1>1, <1>8, LineHandled
    <2>2. /\ files' = files /\ stale' = stale /\ mixed' = (mixed \/ stale)
          /\ pc \in {"grown", "missing"} /\ ~AtEnd
        BY <1>8 DEF ReadLine, disk
    <2>3. ASSUME ~stale
          PROVE  NextEntry \in LinesIn(files[at])
        <3>1. open = at /\ ~(logfiles[at].lineno >= MaxLines)
            BY <2>2, <2>3 DEF PositionsAreLines, AtEnd
        <3>2. NextEntry = [lineno |-> pos + 1, line |-> files[at][pos + 1]]
            BY <2>2, <3>1 DEF PositionsAreLines, NextEntry, NextLine
        <3>3. pos + 1 \in DOMAIN files[at]
            BY <1>8, <3>1, ReadLineIs
        <3> QED BY <3>2, <3>3 DEF LinesIn
    <2>4. ASSUME NEW n \in D, ~stale
          PROVE  next[n].entries \subseteq LinesIn(files[n])
        BY <1>1, <2>1, <2>3, <2>4 DEF EntriesAreLines
    <2>5. \A n \in D : ~stale => n \in Names /\ next[n].entries \subseteq LinesIn(files'[n])
        BY <1>2, <2>2, <2>4
    <2> QED BY <1>1, <2>1, <2>2, <2>5 DEF EntriesAreLines
<1> QED BY <1>5, <1>6, <1>7, <1>8 DEF Next

\* A check leaves one file's messages if it leaves more than the limit.
LEMMA CheckStep ==
    ASSUME TypeOK, FilesInOrder, IndexInOrder, FiniteEntries, CounterExact, PositionsAreLines,
           EntriesAreLines, CheckedInTime, [Next]_vars
    PROVE  CheckedInTime'
<1>1. \A n \in Names : files[n] \in Seq(Line) /\ files'[n] \in Seq(Line)
    BY TypeStep DEF TypeOK
<1>2. num \in Nat /\ lastCheck \in Nat
    BY DEF TypeOK
<1>3. ASSUME lastCheck' = lastCheck, mixed' = mixed \/ mixed'
      PROVE  ~mixed' => lastCheck' <= MaxCached \/ \E name \in Names : lastCheck' <= Len(files'[name])
    <2>1. SUFFICES ASSUME ~mixed', ~(lastCheck <= MaxCached)
                   PROVE  \E name \in Names : lastCheck <= Len(files'[name])
        BY <1>3
    <2>2. PICK name \in Names : lastCheck <= Len(files[name])
        BY <1>3, <2>1 DEF CheckedInTime
    <2>3. PICK m \in Names : Prefix(files[name], files'[m])
        BY FilesGrow
    <2>4. PICK f \in Seq(Line), g \in Seq(Line) : f = files[name] /\ g = files'[m]
        BY <1>1
    <2>5. Len(f) <= Len(g) /\ Len(f) \in Nat /\ Len(g) \in Nat
        <3>1. 1 .. Len(f) \subseteq 1 .. Len(g) /\ Len(f) \in Nat /\ Len(g) \in Nat
            BY <2>3, <2>4 DEF Prefix
        <3> QED BY <3>1
    <2> QED BY <1>2, <2>2, <2>4, <2>5
<1>4. CASE ~ReadLine
    <2>1. lastCheck' = lastCheck /\ mixed' = mixed /\ (num' = num \/ num' = 0)
        <3>1. CASE Visit \/ GrownEnd \/ MissingEnd \/ Deliver \/ Finish
            BY <3>1, LoadStepIs
        <3>2. CASE Log \/ Tick \/ Rotate \/ Begin \/ UNCHANGED vars
            BY <3>2 DEF Log, Tick, Rotate, Begin, vars, cache
        <3> QED BY <1>4, <3>1, <3>2 DEF Next
    <2>2. num' <= MaxCached \/ num' < lastCheck' + CheckMemCycle
        BY <2>1, BoundsAre DEF CheckedInTime
    <2> QED BY <1>3, <2>1, <2>2 DEF CheckedInTime
<1>5. CASE ReadLine
    <2>1. mixed' = (mixed \/ stale)
        BY <1>5 DEF ReadLine
    <2>2. /\ num' \in Nat /\ lastCheck' \in Nat
          /\ \/ /\ num' = num /\ lastCheck' = lastCheck
             \/ /\ lastCheck' = lastCheck
                /\ num' <= MaxCached \/ num' < lastCheck + CheckMemCycle
             \/ /\ lastCheck' = num'
                /\ num' <= MaxCached \/ num' <= Cardinality(logfiles'[at].entries)
        BY <1>5, LineHandled
    <2>3. num' <= MaxCached \/ num' < lastCheck' + CheckMemCycle
        <3>1. MaxCached \in Nat /\ CheckMemCycle \in Nat /\ CheckMemCycle >= 1
            BY BoundsAre
        <3>2. num <= MaxCached \/ num < lastCheck + CheckMemCycle
            BY DEF CheckedInTime
        <3>3. CASE num' = num /\ lastCheck' = lastCheck
            BY <3>2, <3>3
        <3>4. CASE lastCheck' = lastCheck /\ (num' <= MaxCached \/ num' < lastCheck + CheckMemCycle)
            BY <3>4
        <3>5. CASE lastCheck' = num'
            <4>1. PICK k \in Nat : k = num'
                BY <2>2
            <4>2. k < k + CheckMemCycle
                BY <3>1
            <4> QED BY <3>5, <4>1, <4>2
        <3> QED BY <2>2, <3>3, <3>4, <3>5
    <2>4. CASE lastCheck' = lastCheck
        <3>1. mixed' = mixed \/ mixed'
            BY <2>1 DEF TypeOK
        <3>2. ~mixed' => lastCheck' <= MaxCached \/ \E name \in Names : lastCheck' <= Len(files'[name])
            BY <1>3, <2>4, <3>1
        <3> QED BY <2>3, <3>2 DEF CheckedInTime
    <2>5. CASE /\ lastCheck' = num'
               /\ num' <= MaxCached \/ num' <= Cardinality(logfiles'[at].entries)
        <3>1. ASSUME ~mixed', ~(lastCheck' <= MaxCached)
              PROVE  \E name \in Names : lastCheck' <= Len(files'[name])
            <4>1. EntriesAreLines' /\ at' = at /\ IndexInOrder'
                BY <1>5, EntriesStep, IndexStep DEF ReadLine
            <4>2. PICK name \in Names : logfiles'[at].entries \subseteq LinesIn(files'[name])
                BY <3>1, <4>1 DEF EntriesAreLines, IndexInOrder
            <4>3. PICK f \in Seq(Line) : f = files'[name]
                BY <1>1
            <4>4. PICK entries : entries = logfiles'[at].entries
                OBVIOUS
            <4>5. Cardinality(entries) <= Len(f) /\ IsFiniteSet(entries)
                BY <4>2, <4>3, <4>4, LinesCounted
            <4>6. Cardinality(entries) \in Nat /\ Len(f) \in Nat
                BY <4>3, <4>5, FS_CardinalityType
            <4> QED BY <2>2, <2>5, <3>1, <4>3, <4>4, <4>5, <4>6
        <3> QED BY <2>3, <3>1 DEF CheckedInTime
    <2> QED BY <2>2, <2>4, <2>5
<1> QED BY <1>4, <1>5

\* An index made from one file with one line, and nothing read yet.
LEMMA InitIInv ==
    ASSUME Init
    PROVE  IInv
<1>1. PICK class \in Classes :
        files = [name \in Names |-> IF name = Current
                    THEN <<[time |-> now, class |-> class, id |-> logged]>> ELSE <<>>]
    BY DEF Init
<1>2. PICK first : first = [time |-> now, class |-> class, id |-> logged]
    OBVIOUS
<1>3. first \in Line /\ <<first>> \in Seq(Line) /\ first.time = 1
    BY <1>2 DEF Init, Line
<1>4. /\ Current \in Names /\ files[Current] = <<first>> /\ <<first>> # <<>>
      /\ \A n \in Names : n # Current => files[n] = <<>>
    BY <1>1, <1>2, BoundsAre DEF Current, Names
<1>5. files \in [Names -> Seq(Line)]
    <2>1. <<>> \in Seq(Line)
        OBVIOUS
    <2>2. files = [name \in Names |-> IF name = Current THEN <<first>> ELSE <<>>]
        BY <1>1, <1>2
    <2> QED BY <1>3, <2>1, <2>2
<1>6. FilesInOrder
    <2>1. Head(files[Current]).time = 1 /\ now = 1
        BY <1>3, <1>4 DEF Init
    <2> QED BY <1>4, <2>1 DEF FilesInOrder
<1>7. logfiles = NewIndex
    BY DEF Init
<1>8. TypeOK
    <2>1. DOMAIN logfiles \subseteq Names /\ \A n \in DOMAIN logfiles : logfiles[n] \in Logfile
        BY <1>5, <1>6, <1>7, NewIndexIs
    <2>2. /\ logged = 1 /\ now = 1 /\ lastRotation = 0 /\ lastUpdate = 1 /\ num = 0
          /\ lastCheck = 0 /\ pos = 0
        BY DEF Init
    <2>3. /\ pc = "idle" /\ query = NoQuery /\ at = Current /\ open = Current
          /\ types = {} /\ missing = {} /\ result = {} /\ before = {}
          /\ stale = FALSE /\ skipped = FALSE /\ mixed = FALSE
        BY DEF Init
    <2>4. {logged, now, lastRotation, lastUpdate, num, lastCheck, pos} \subseteq Nat
        BY <2>2
    <2> QED BY <1>4, <1>5, <2>1, <2>3, <2>4 DEF TypeOK
<1>9. IndexInOrder /\ FiniteEntries
    <2>1. PICK index : index = NewIndex
        OBVIOUS
    <2>2. DOMAIN index = {n \in Names : files[n] # <<>>}
        BY <2>1 DEF NewIndex
    <2>3. \A n \in DOMAIN index : index[n].since = Head(files[n]).time /\ index[n].entries = {}
        BY <1>5, <1>6, <2>1, NewIndexIs
    <2>4. DOMAIN logfiles = {Current} /\ logfiles = index /\ at = Current
        BY <1>4, <1>7, <2>1, <2>2 DEF Init
    <2>5. IndexInOrder
        BY <1>4, <2>2, <2>3, <2>4 DEF IndexInOrder
    <2>6. FiniteEntries
        BY <2>3, <2>4, FS_EmptySet DEF FiniteEntries
    <2> QED BY <2>5, <2>6
<1>10. PositionsAreLines /\ EntriesAreLines
    BY <1>4, <1>5, <1>6, <1>7, NewIndexIs DEF PositionsAreLines, EntriesAreLines, Init
<1>11. CheckedInTime
    BY BoundsAre DEF CheckedInTime, Init
<1>12. CounterExact
    <2>1. PICK logs : logs = NewIndex
        OBVIOUS
    <2>2. \A n \in DOMAIN logs : logs[n].entries = {}
        BY <1>5, <1>6, <2>1, NewIndexIs
    <2>3. Size([n \in DOMAIN logs |-> logs[n].entries], DOMAIN logs) = 0
        BY <2>2, NothingCounted
    <2> QED BY <1>7, <2>1, <2>3 DEF CounterExact, Init
<1> QED BY <1>6, <1>8, <1>9, <1>10, <1>11, <1>12 DEF IInv

LEMMA IInvStep ==
    ASSUME IInv, [Next]_vars
    PROVE  IInv'
<1>1. TypeOK' /\ FilesInOrder'
    BY TypeStep, FilesStep DEF IInv
<1>2. IndexInOrder' /\ FiniteEntries' /\ CounterExact'
    BY IndexStep DEF IInv
<1>3. PositionsAreLines' /\ EntriesAreLines'
    BY PositionsStep, EntriesStep DEF IInv
<1>4. CheckedInTime'
    BY CheckStep DEF IInv
<1> QED BY <1>1, <1>2, <1>3, <1>4 DEF IInv

LEMMA IInvHolds == Spec => []IInv
<1>1. Init => IInv
    BY InitIInv
<1>2. IInv /\ [Next]_vars => IInv'
    BY IInvStep
<1> QED BY <1>1, <1>2, PTL DEF Spec

\* Every variable keeps its type: the files, the cache, and how far a query is.
THEOREM TypeCorrect == Spec => []TypeOK
<1>1. IInv => TypeOK
    BY DEF IInv
<1> QED BY <1>1, IInvHolds, PTL

\* num_cached_log_messages is the number of messages in memory.  Each phase of
\* handleNewMessage counts what it frees as it goes, and stops in the middle.
THEOREM CounterCorrect == Spec => []CounterExact
<1>1. IInv => CounterExact
    BY DEF IInv
<1> QED BY <1>1, IInvHolds, PTL

\* Memory never holds more than the limit, or what the biggest file has, and one
\* cycle without a check.
THEOREM MemoryCorrect == Spec => []MemoryBounded
<1>1. ASSUME IInv
      PROVE  MemoryBounded
    <2>1. SUFFICES ASSUME ~mixed
                   PROVE  \E name \in Names : num < CheckMemCycle +
                             IF Len(files[name]) > MaxCached THEN Len(files[name]) ELSE MaxCached
        BY DEF MemoryBounded
    <2>2. /\ num \in Nat /\ lastCheck \in Nat /\ MaxCached \in Nat /\ CheckMemCycle \in Nat \ {0}
          /\ Current \in Names
        BY <1>1, BoundsAre DEF IInv, TypeOK, IndexInOrder
    <2>3. \A name \in Names : Len(files[name]) \in Nat
        BY <1>1 DEF IInv, TypeOK
    <2>4. /\ num <= MaxCached \/ num < lastCheck + CheckMemCycle
          /\ lastCheck <= MaxCached \/ \E name \in Names : lastCheck <= Len(files[name])
        BY <1>1, <2>1 DEF IInv, CheckedInTime
    <2>5. CASE num <= MaxCached \/ lastCheck <= MaxCached
        BY <2>2, <2>3, <2>4, <2>5
    <2>6. CASE ~(num <= MaxCached \/ lastCheck <= MaxCached)
        <3>1. PICK name \in Names : lastCheck <= Len(files[name])
            BY <2>4, <2>6
        <3> QED BY <2>2, <2>3, <2>4, <2>6, <3>1
    <2> QED BY <2>5, <2>6
<1> QED BY <1>1, IInvHolds, PTL

-----------------------------------------------------------------------------
(* The answer of a query                                                   *)

\* Lines are written one after the other, within a file and from one to the next.
LogInOrder ==
    /\ \A n \in Names : \A i \in DOMAIN files[n] :
        files[n][i].id <= logged /\ files[n][i].time <= now
    /\ \A m, n \in Names : \A i \in DOMAIN files[m], j \in DOMAIN files[n] :
        (m = n /\ i < j) \/ Head(files[m]).time < Head(files[n]).time =>
            files[m][i].id < files[n][j].id /\ files[m][i].time <= files[n][j].time

\* Until a rotation the index knows the files, each by its first line.
FilesAreIndexed ==
    ~stale =>
        /\ DOMAIN logfiles = {n \in Names : files[n] # <<>>}
        /\ \A n \in DOMAIN logfiles : Since(n) = Head(files[n]).time

Loading == pc \in {"grown", "missing"}

\* No line is skipped: a load is at least as far as its line number says, and not
\* beyond the end of the file.
PositionsInFile ==
    /\ Loading => pos >= logfiles[at].lineno
    /\ ~(Loading /\ at = Current) => logfiles[Current].readPos >= logfiles[Current].lineno
    /\ ~stale => /\ logfiles[Current].readPos <= Len(files[Current])
                 /\ Loading => pos <= Len(files[at])

\* What a load looks for: the classes that were read before, or those missing.
LoadsLacking ==
    /\ pc = "grown" => logfiles[at].classesRead \subseteq types
    /\ pc = "missing" => types = missing
    /\ Loading => /\ missing \subseteq query.classes
                  /\ query.classes \ missing \subseteq logfiles[at].classesRead

\* What follows after the limit of lines is never read.
EntriesInLimit ==
    \A n \in DOMAIN logfiles : \A e \in logfiles[n].entries : e.lineno <= MaxLines

EntryOf(n, i) == [lineno |-> i, line |-> files[n][i]]

\* How far the current log has been read for its classes.
Far == IF pc = "grown" THEN pos ELSE logfiles[Current].readPos

\* Whatever was freed, a class that a logfile claims to have read is in memory.
ClassesAreRead ==
    ~stale /\ ~skipped =>
        \A n \in DOMAIN logfiles : \A i \in DOMAIN files[n] :
            /\ i <= MaxLines /\ files[n][i].class \in logfiles[n].classesRead
            /\ n = Current => i <= Far
            => EntryOf(n, i) \in logfiles[n].entries

\* So is what the load of the missing classes has come past.
MissingIsRead ==
    ~stale /\ pc = "missing" =>
        \A i \in DOMAIN files[at] :
            i <= MaxLines /\ i <= pos /\ files[at][i].class \in missing
                => EntryOf(at, i) \in logfiles[at].entries

\* A logfile that is delivered has all that the query asks for.
ReadyToDeliver ==
    ~stale /\ ~skipped /\ pc = "deliver" =>
        \A i \in DOMAIN files[at] :
            i <= MaxLines /\ files[at][i] \in before => EntryOf(at, i) \in logfiles[at].entries

BeforeIsHeld == ~stale /\ pc # "idle" => before \subseteq Held(query)

\* What was delivered so far is what the newer files hold for the query.
NewerAreDone ==
    ~stale /\ ~skipped /\ pc \in {"visit", "grown", "missing", "deliver"} =>
        /\ IsFiniteSet(result) /\ Cardinality(result) <= query.limit
        /\ \A line \in result :
            Matches(query, line) /\ \E n \in NewerThan(at) : line \in LinesOf(n)
        /\ \A n \in NewerThan(at) : LinesOf(n) \cap before \subseteq result

\* Between two requests nothing has been found.
NothingYet == pc = "idle" => result = {}

AInv ==
    /\ IInv
    /\ NothingYet
    /\ LogInOrder
    /\ FilesAreIndexed
    /\ PositionsInFile
    /\ LoadsLacking
    /\ EntriesInLimit
    /\ ClassesAreRead
    /\ MissingIsRead
    /\ ReadyToDeliver
    /\ BeforeIsHeld
    /\ NewerAreDone
    /\ AnswerIsLog

-----------------------------------------------------------------------------
(* The order of the log                                                    *)

\* A file is as long as it has lines.
LEMMA LinesAre ==
    ASSUME NEW f \in Seq(Line)
    PROVE  /\ Len(f) \in Nat /\ DOMAIN f = 1 .. Len(f)
           /\ \A i \in DOMAIN f : /\ i \in Nat /\ i >= 1 /\ i <= Len(f)
                                /\ f[i] \in Line /\ f[i].time \in Nat /\ f[i].id \in Nat
           /\ f # <<>> <=> 1 \in DOMAIN f
           /\ f # <<>> => Head(f) = f[1] /\ Head(f).time \in Nat
<1>1. Len(f) \in Nat /\ DOMAIN f = 1 .. Len(f) /\ \A i \in DOMAIN f : f[i] \in Line
    OBVIOUS
<1>2. f # <<>> => Len(f) >= 1 /\ Head(f) = f[1]
    OBVIOUS
<1>3. 1 \in DOMAIN f => f # <<>>
    BY <1>1
<1>4. f # <<>> => 1 \in DOMAIN f
    BY <1>1, <1>2
<1> QED BY <1>1, <1>2, <1>3, <1>4 DEF Line

\* What a step does to the disk.  Unless the log is rotated, lines are added at
\* the end of the current file only.
LEMMA LinesKept ==
    ASSUME TypeOK, FilesInOrder, [Next]_vars, ~Rotate, NEW n \in Names
    PROVE  /\ Prefix(files[n], files'[n]) /\ (n # Current => files'[n] = files[n])
           /\ files'[n] = <<>> <=> files[n] = <<>>
           /\ files[n] # <<>> => Head(files'[n]) = Head(files[n])
           /\ \A i \in DOMAIN files'[n] :
                \/ i \in DOMAIN files[n]
                \/ Log /\ n = Current /\ i > Len(files[n]) /\ files'[n][i].id = logged + 1
<1>1. CASE Log
    <2>1. PICK class \in Classes \cup {Invalid} :
            files' = [files EXCEPT ![Current] = Append(@, NewLine(class))]
        BY <1>1 DEF Log
    <2>2. PICK line : line = NewLine(class)
        OBVIOUS
    <2>3. CASE n # Current
        <3>1. files'[n] = files[n]
            BY <2>1, <2>3 DEF TypeOK
        <3> QED BY <2>3, <3>1 DEF Prefix
    <2>4. CASE n = Current
        <3>1. PICK f \in Seq(Line) : f = files[n]
            BY DEF TypeOK
        <3>2. files'[n] = Append(f, line) /\ line.id = logged + 1
            BY <2>1, <2>2, <2>4, <3>1 DEF TypeOK, NewLine
        <3>3. f # <<>>
            BY <2>4, <3>1 DEF FilesInOrder
        <3>4. Len(f) \in Nat /\ Len(f) >= 1 /\ DOMAIN f = 1 .. Len(f)
            BY <3>3
        <3>5. PICK g : g = Append(f, line)
            OBVIOUS
        <3>6. /\ DOMAIN g = 1 .. Len(f) + 1 /\ g[Len(f) + 1] = line
              /\ \A i \in 1 .. Len(f) : g[i] = f[i]
            BY <3>4, <3>5
        <3>7. g # <<>> /\ Head(g) = g[1] /\ Head(f) = f[1]
            BY <3>3, <3>4, <3>5
        <3>8. \A i \in DOMAIN g : i \in DOMAIN f \/ (i > Len(f) /\ g[i].id = logged + 1)
            BY <3>2, <3>4, <3>6
        <3> QED BY <1>1, <2>4, <3>1, <3>2, <3>3, <3>4, <3>5, <3>6, <3>7, <3>8 DEF Prefix
    <2> QED BY <2>3, <2>4
<1>2. CASE ~Log
    <2>1. files' = files
        BY <1>2 DEF Next, Tick, Begin, Visit, ReadLine, GrownEnd, MissingEnd, Deliver, Finish,
                    vars, disk
    <2> QED BY <2>1 DEF Prefix
<1> QED BY <1>1, <1>2

\* A new line is later than all that there were, which keep their order under
\* the names old they had.
LEMMA OrderKept ==
    ASSUME TypeOK, FilesInOrder, LogInOrder, TypeOK', FilesInOrder',
           NEW old \in [Names -> Names], NEW line,
           line.id = logged + 1, line.time = now, now' = now, logged' = logged + 1,
           \A n \in Names : \A i \in DOMAIN files'[n] :
                \/ n = Current /\ files'[n][i] = line /\ \A j \in DOMAIN files'[n] : j <= i
                \/ /\ i \in DOMAIN files[old[n]] /\ files'[n][i] = files[old[n]][i]
                   /\ Head(files'[n]).time = Head(files[old[n]]).time
    PROVE  LogInOrder'
<1> DEFINE New(n, i) == n = Current /\ files'[n][i] = line /\ \A j \in DOMAIN files'[n] : j <= i
           Old(n, i) == /\ i \in DOMAIN files[old[n]] /\ files'[n][i] = files[old[n]][i]
                        /\ Head(files'[n]).time = Head(files[old[n]]).time
<1>1. now \in Nat /\ logged \in Nat
    BY DEF TypeOK
<1>2. \A n \in Names : files[n] \in Seq(Line) /\ files'[n] \in Seq(Line)
    BY DEF TypeOK
<1>3. ASSUME NEW n \in Names, NEW i \in DOMAIN files'[n]
      PROVE  New(n, i) \/ Old(n, i)
    BY <1>3
<1>4. ASSUME NEW n \in Names, NEW i \in DOMAIN files'[n], Old(n, i)
      PROVE  /\ files'[n][i].id <= logged /\ files'[n][i].time <= now
             /\ files'[n][i].id \in Nat /\ files'[n][i].time \in Nat
    <2>1. old[n] \in Names /\ i \in DOMAIN files[old[n]] /\ files'[n][i] = files[old[n]][i]
        BY <1>4
    <2>2. files[old[n]][i].id <= logged /\ files[old[n]][i].time <= now
        BY <2>1 DEF LogInOrder
    <2>3. files[old[n]][i].id \in Nat /\ files[old[n]][i].time \in Nat
        BY <2>1, <1>2, LinesAre
    <2> QED BY <2>1, <2>2, <2>3
<1>5. ASSUME NEW n \in Names, NEW i \in DOMAIN files'[n]
      PROVE  files'[n][i].id <= logged + 1 /\ files'[n][i].time <= now
    BY <1>1, <1>3, <1>4
<1>6. ASSUME NEW m \in Names, NEW n \in Names, NEW i \in DOMAIN files'[m], NEW j \in DOMAIN files'[n],
             (m = n /\ i < j) \/ Head(files'[m]).time < Head(files'[n]).time
      PROVE  files'[m][i].id < files'[n][j].id /\ files'[m][i].time <= files'[n][j].time
    <2>1. CASE Old(m, i) /\ Old(n, j)
        <3>1. PICK a \in Names, b \in Names : a = old[m] /\ b = old[n]
            OBVIOUS
        <3>2. (a = b /\ i < j) \/ Head(files[a]).time < Head(files[b]).time
            BY <1>6, <2>1, <3>1
        <3>3. i \in DOMAIN files[a] /\ j \in DOMAIN files[b]
            BY <2>1, <3>1
        <3>4. files[a][i].id < files[b][j].id /\ files[a][i].time <= files[b][j].time
            BY <3>2, <3>3 DEF LogInOrder
        <3> QED BY <2>1, <3>1, <3>4
    <2>2. CASE Old(m, i) /\ New(n, j)
        BY <1>1, <1>4, <2>2
    <2>3. CASE New(m, i)
        <3>1. CASE m = n /\ i < j
            <4>1. PICK f \in Seq(Line) : f = files'[m]
                BY <1>2
            <4>2. j <= i /\ i \in Nat /\ j \in Nat
                BY <2>3, <3>1, <4>1, LinesAre
            <4> QED BY <3>1, <4>2
        <3>2. CASE m # n /\ Head(files'[m]).time < Head(files'[n]).time
            <4>1. files'[m] # <<>> /\ files'[n] # <<>>
                OBVIOUS
            <4>2. Head(files'[n]).time < Head(files'[m]).time
                BY <2>3, <3>2, <4>1 DEF FilesInOrder
            <4>3. Head(files'[n]).time \in Nat /\ Head(files'[m]).time \in Nat
                BY <1>2, <4>1, LinesAre
            <4> QED BY <3>2, <4>2, <4>3
        <3>3. CASE m = n /\ Head(files'[m]).time < Head(files'[n]).time
            <4>1. files'[m] # <<>>
                OBVIOUS
            <4>2. Head(files'[m]).time \in Nat
                BY <1>2, <4>1, LinesAre
            <4> QED BY <3>3, <4>2
        <3> QED BY <1>6, <3>1, <3>2, <3>3
    <2> QED BY <1>3, <2>1, <2>2, <2>3
<1> QED BY <1>5, <1>6 DEF LogInOrder

LEMMA OrderStep ==
    ASSUME TypeOK, FilesInOrder, LogInOrder, TypeOK', FilesInOrder', [Next]_vars
    PROVE  LogInOrder'
<1>1. /\ Current \in Names /\ DOMAIN files = Names
      /\ \A n \in Names : files[n] \in Seq(Line)
    BY BoundsAre DEF TypeOK
<1>2. CASE Log
    <2>1. PICK class \in Classes \cup {Invalid} :
            files' = [files EXCEPT ![Current] = Append(@, NewLine(class))]
        BY <1>2 DEF Log
    <2>2. PICK line : line = NewLine(class)
        OBVIOUS
    <2>3. line.id = logged + 1 /\ line.time = now /\ now' = now /\ logged' = logged + 1
        BY <1>2, <2>2 DEF NewLine, Log
    <2>4. PICK old \in [Names -> Names] : old = [n \in Names |-> n]
        OBVIOUS
    <2>5. ASSUME NEW n \in Names, NEW i \in DOMAIN files'[n]
          PROVE  \/ n = Current /\ files'[n][i] = line /\ \A j \in DOMAIN files'[n] : j <= i
                 \/ /\ i \in DOMAIN files[old[n]] /\ files'[n][i] = files[old[n]][i]
                    /\ Head(files'[n]).time = Head(files[old[n]]).time
        <3>1. CASE n # Current
            BY <1>1, <2>1, <2>4, <2>5, <3>1
        <3>2. CASE n = Current
            <4>1. PICK f \in Seq(Line) : f = files[n] /\ f # <<>>
                BY <1>1, <3>2 DEF FilesInOrder
            <4>2. PICK g : g = Append(f, line)
                OBVIOUS
            <4>3. files'[n] = g
                BY <1>1, <2>1, <2>2, <3>2, <4>1, <4>2
            <4>4. /\ Len(f) \in Nat /\ DOMAIN g = 1 .. Len(f) + 1 /\ g[Len(f) + 1] = line
                  /\ DOMAIN f = 1 .. Len(f) /\ \A k \in DOMAIN f : g[k] = f[k]
                BY <4>1, <4>2
            <4>5. Head(g) = Head(f)
                BY <4>1, <4>2
            <4>6. i \in DOMAIN f \/ i = Len(f) + 1
                BY <2>5, <4>3, <4>4
            <4>7. \A j \in DOMAIN g : j <= Len(f) + 1
                BY <4>4
            <4> QED BY <2>4, <3>2, <4>1, <4>3, <4>4, <4>5, <4>6, <4>7
        <3> QED BY <3>1, <3>2
    <2> QED BY <2>3, <2>5, OrderKept
<1>3. CASE Tick
    <2>1. files' = files /\ logged' = logged /\ now' = now + 1 /\ now \in Nat
        BY <1>3 DEF Tick, TypeOK
    <2>2. ASSUME NEW n \in Names, NEW i \in DOMAIN files[n]
          PROVE  files[n][i].id <= logged /\ files[n][i].time <= now + 1
        <3>1. files[n][i].time \in Nat
            BY <1>1, LinesAre
        <3> QED BY <2>1, <3>1 DEF LogInOrder
    <2> QED BY <2>1, <2>2 DEF LogInOrder
<1>4. CASE Rotate
    <2>1. PICK name \in Names, class \in Classes :
            /\ files[name] = <<>>
            /\ files' = [files EXCEPT ![name] = files[Current], ![Current] = <<NewLine(class)>>]
        BY <1>4 DEF Rotate
    <2>2. PICK line : line = NewLine(class)
        OBVIOUS
    <2>3. line.id = logged + 1 /\ line.time = now /\ now' = now /\ logged' = logged + 1
        BY <1>4, <2>2 DEF NewLine, Rotate
    <2>4. PICK old \in [Names -> Names] : old = [n \in Names |-> IF n = name THEN Current ELSE n]
        BY <1>1
    <2>5. name # Current
        BY <2>1 DEF FilesInOrder
    <2>6. ASSUME NEW n \in Names, NEW i \in DOMAIN files'[n]
          PROVE  \/ n = Current /\ files'[n][i] = line /\ \A j \in DOMAIN files'[n] : j <= i
                 \/ /\ i \in DOMAIN files[old[n]] /\ files'[n][i] = files[old[n]][i]
                    /\ Head(files'[n]).time = Head(files[old[n]]).time
        <3>1. CASE n = Current
            <4>1. files'[n] = <<line>>
                BY <1>1, <2>1, <2>2, <3>1
            <4> QED BY <2>6, <3>1, <4>1
        <3>2. CASE n = name
            <4>1. files'[n] = files[Current] /\ old[n] = Current
                BY <1>1, <2>1, <2>4, <2>5, <3>2
            <4> QED BY <2>6, <4>1
        <3>3. CASE n # Current /\ n # name
            <4>1. files'[n] = files[n] /\ old[n] = n
                BY <1>1, <2>1, <2>4, <3>3
            <4> QED BY <2>6, <4>1
        <3> QED BY <3>1, <3>2, <3>3
    <2> QED BY <2>3, <2>6, OrderKept
<1>5. CASE ~(Log \/ Tick \/ Rotate)
    <2>1. files' = files /\ now' = now /\ logged' = logged
        BY <1>5 DEF Next, Begin, Visit, ReadLine, GrownEnd, MissingEnd, Deliver, Finish, vars, disk
    <2> QED BY <2>1 DEF LogInOrder
<1> QED BY <1>2, <1>3, <1>4, <1>5

-----------------------------------------------------------------------------
(* How a file is read                                                      *)

\* The core's steps leave the cache and the query alone.
LEMMA CoreStepIs ==
    ASSUME Log \/ Tick \/ Rotate \/ UNCHANGED vars
    PROVE  /\ UNCHANGED <<logfiles, pc, query, at, pos, types, missing, result, before, skipped>>
           /\ stale' \/ (stale' = stale /\ ~Rotate)
<1>1. CASE Log
    <2>1. UNCHANGED <<logfiles, pc, query, at, pos, types, missing, result, before, skipped, stale>>
        BY <1>1 DEF Log, cache
    <2>2. CASE Rotate
        BY <2>1, <2>2 DEF Rotate
    <2> QED BY <2>1, <2>2
<1>2. CASE Tick
    <2>1. UNCHANGED <<logfiles, pc, query, at, pos, types, missing, result, before, skipped, stale>>
        BY <1>2 DEF Tick, cache
    <2>2. CASE Rotate
        BY <2>1, <2>2 DEF Rotate
    <2> QED BY <2>1, <2>2
<1>3. CASE Rotate
    BY <1>3 DEF Rotate, cache
<1>4. CASE UNCHANGED vars
    <2>1. UNCHANGED <<logfiles, pc, query, at, pos, types, missing, result, before, skipped, stale>>
        BY <1>4 DEF vars, cache
    <2>2. CASE Rotate
        BY <2>1, <2>2 DEF Rotate
    <2> QED BY <2>1, <2>2
<1> QED BY <1>1, <1>2, <1>3, <1>4

LEMMA IndexedStep ==
    ASSUME IInv, IInv', FilesAreIndexed, [Next]_vars
    PROVE  FilesAreIndexed'
<1>1. TypeOK /\ FilesInOrder /\ IndexInOrder
    BY DEF IInv
<1>2. SUFFICES ASSUME ~stale'
               PROVE  /\ DOMAIN logfiles' = {n \in Names : files'[n] # <<>>}
                      /\ \A n \in DOMAIN logfiles' : logfiles'[n].since = Head(files'[n]).time
    BY DEF FilesAreIndexed, Since
<1>3. ~Rotate
    BY <1>2 DEF Rotate
<1>4. ASSUME NEW next, DOMAIN next = DOMAIN logfiles, ~stale,
             \A n \in DOMAIN logfiles : next[n].since = logfiles[n].since
      PROVE  /\ DOMAIN next = {n \in Names : files'[n] # <<>>}
             /\ \A n \in DOMAIN next : next[n].since = Head(files'[n]).time
    <2>1. \A n \in Names : /\ files'[n] = <<>> <=> files[n] = <<>>
                           /\ files[n] # <<>> => Head(files'[n]) = Head(files[n])
        BY <1>1, <1>3, LinesKept
    <2>2. /\ DOMAIN logfiles = {n \in Names : files[n] # <<>>}
          /\ \A n \in DOMAIN logfiles : logfiles[n].since = Head(files[n]).time
        BY <1>4 DEF FilesAreIndexed, Since
    <2> QED BY <1>4, <2>1, <2>2
<1>5. PICK next : next = logfiles'
    OBVIOUS
<1>6. CASE Log \/ Tick \/ Rotate \/ UNCHANGED vars
    <2>1. next = logfiles /\ ~stale
        BY <1>2, <1>5, <1>6, CoreStepIs
    <2> QED BY <1>4, <1>5, <2>1
<1>7. CASE Begin
    <2>1. files' = files
        BY <1>7 DEF Begin, disk
    <2>2. CASE logfiles' = NewIndex
        <3>1. DOMAIN NewIndex = {n \in Names : files[n] # <<>>}
            BY DEF NewIndex
        <3>2. \A n \in DOMAIN NewIndex : NewIndex[n].since = Head(files[n]).time
            BY <1>1, NewIndexIs DEF TypeOK
        <3> QED BY <2>1, <2>2, <3>1, <3>2
    <2>3. CASE logfiles' = logfiles /\ stale' = stale
        BY <1>2, <1>4, <2>3
    <2> QED BY <1>7, <2>2, <2>3 DEF Begin
<1>8. CASE Visit \/ GrownEnd \/ MissingEnd \/ Deliver \/ Finish
    <2>1. SameEntries(logfiles, next) /\ stale' = stale
        BY <1>1, <1>5, <1>8, LoadStepIs
    <2> QED BY <1>2, <1>4, <1>5, <2>1 DEF SameEntries
<1>9. CASE ReadLine
    <2>1. stale' = stale
        BY <1>9 DEF ReadLine
    <2>2. /\ DOMAIN next = DOMAIN logfiles
          /\ \A n \in DOMAIN logfiles : next[n].since = logfiles[n].since
        BY <1>5, <1>9, LineHandled DEF IInv
    <2> QED BY <1>2, <1>4, <1>5, <2>1, <2>2
<1> QED BY <1>6, <1>7, <1>8, <1>9 DEF Next

\* A line that is read is remembered if its class is asked for or was read
\* before; what was remembered so stays.
LEMMA LineRead ==
    ASSUME IInv, ReadLine
    PROVE  /\ \A n \in DOMAIN logfiles : \A e \in logfiles[n].entries :
                e.line.class \in logfiles'[n].classesRead \/ (n = at /\ e.line.class \in query.classes)
                    => e \in logfiles'[n].entries
           /\ logfiles[at].classesRead \cap query.classes \subseteq logfiles'[at].classesRead
           /\ ~stale => /\ pos + 1 \in DOMAIN files[at] /\ pos = logfiles[at].lineno
                        /\ \/ files[at][pos + 1].class \notin types
                           \/ /\ files[at][pos + 1].class \notin logfiles'[at].classesRead
                              /\ files[at][pos + 1].class \notin query.classes
                           \/ EntryOf(at, pos + 1) \in logfiles'[at].entries
<1>1. /\ TypeOK /\ IndexInOrder /\ FiniteEntries /\ CounterExact
      /\ at \in DOMAIN logfiles
    BY DEF IInv, IndexInOrder
<1>2. PICK entry : entry = NextEntry
    OBVIOUS
<1>3. entry \in [lineno : Nat, line : Line]
    BY <1>1, <1>2, ReadLineIs
<1>4. /\ \A n \in DOMAIN logfiles : \A e \in logfiles[n].entries :
            e.line.class \in logfiles'[n].classesRead \/ (n = at /\ e.line.class \in query.classes)
                => e \in logfiles'[n].entries
      /\ logfiles[at].classesRead \cap query.classes \subseteq logfiles'[at].classesRead
      /\ \/ entry \in logfiles'[at].entries
         \/ /\ entry.line.class \notin logfiles'[at].classesRead
            /\ entry.line.class \notin query.classes
         \/ entry.line.class \notin types
         \/ ~Fresh(logfiles[at], entry) /\ logfiles'[at].entries = logfiles[at].entries
    <2>1. CASE Counted(Added(NextEntry)) /\ HandleNewMessage(Added(NextEntry))
        <3>1. PICK logs : logs = Added(entry)
            OBVIOUS
        <3>2. OnlyFreed(logs, logfiles')
            BY <1>2, <2>1, <3>1, Handled
        <3>3. /\ DOMAIN logs = DOMAIN logfiles
              /\ \A n \in DOMAIN logfiles :
                    /\ logs[n].classesRead = logfiles[n].classesRead
                    /\ logs[n].entries = IF n = at THEN logfiles[n].entries \cup {entry}
                                         ELSE logfiles[n].entries
            BY <1>1, <1>3, <3>1, AddedIs
        <3>4. \A n \in DOMAIN logfiles : \A e \in logs[n].entries :
                e.line.class \in logfiles'[n].classesRead \/ (n = at /\ e.line.class \in query.classes)
                    => e \in logfiles'[n].entries
            BY <3>2, <3>3 DEF OnlyFreed
        <3>5. logs[at].classesRead \cap query.classes \subseteq logfiles'[at].classesRead
            BY <1>1, <3>2, <3>3 DEF OnlyFreed
        <3> QED BY <1>1, <3>3, <3>4, <3>5
    <2>2. CASE /\ ~(NextLine.class \in types /\ Fresh(logfiles[at], NextEntry))
               /\ logfiles' = Advanced
        <3>1. PICK next : next = Advanced
            OBVIOUS
        <3>2. \A n \in DOMAIN logfiles : /\ next[n].entries = logfiles[n].entries
                                         /\ next[n].classesRead = logfiles[n].classesRead
            BY <1>1, <3>1, AdvancedIs DEF SameEntries
        <3>3. ~(entry.line.class \in types /\ Fresh(logfiles[at], entry))
            BY <1>2, <2>2 DEF NextEntry
        <3> QED BY <1>1, <2>2, <3>1, <3>2, <3>3
    <2> QED BY <1>1, <2>1, <2>2, ReadLineIs
<1>5. ASSUME ~stale
      PROVE  /\ pos + 1 \in DOMAIN files[at] /\ pos = logfiles[at].lineno
             /\ entry = EntryOf(at, pos + 1)
    <2>1. pc \in {"grown", "missing"} /\ ~AtEnd
        BY DEF ReadLine
    <2>2. open = at /\ pos = logfiles[at].lineno
        BY <1>5, <2>1 DEF IInv, PositionsAreLines, AtEnd
    <2>3. pos + 1 \in DOMAIN files[open]
        BY <1>1, ReadLineIs
    <2> QED BY <1>2, <2>2, <2>3 DEF NextEntry, NextLine, EntryOf
<1>6. ASSUME ~stale, ~Fresh(logfiles[at], entry)
      PROVE  entry \in logfiles[at].entries
    <2>1. PICK e \in logfiles[at].entries : e.lineno = entry.lineno
        BY <1>6 DEF Fresh
    <2>2. e \in LinesIn(files[at])
        BY <1>1, <1>6, <2>1 DEF IInv, EntriesAreLines
    <2>3. PICK i \in DOMAIN files[at] : e = [lineno |-> i, line |-> files[at][i]]
        BY <2>2 DEF LinesIn
    <2>4. i = pos + 1
        BY <1>5, <1>6, <2>1, <2>3 DEF EntryOf
    <2> QED BY <1>5, <1>6, <2>1, <2>3, <2>4 DEF EntryOf
<1>7. ASSUME ~stale
      PROVE  \/ files[at][pos + 1].class \notin types
             \/ /\ files[at][pos + 1].class \notin logfiles'[at].classesRead
                /\ files[at][pos + 1].class \notin query.classes
             \/ EntryOf(at, pos + 1) \in logfiles'[at].entries
    <2>1. entry = EntryOf(at, pos + 1) /\ entry.line = files[at][pos + 1]
        BY <1>5, <1>7 DEF EntryOf
    <2> QED BY <1>4, <1>6, <1>7, <2>1
<1> QED BY <1>4, <1>5, <1>7

LEMMA PrefixIsShorter ==
    ASSUME NEW f \in Seq(Line), NEW g \in Seq(Line), Prefix(f, g)
    PROVE  Len(f) <= Len(g)
<1>1. 1 .. Len(f) \subseteq 1 .. Len(g) /\ Len(f) \in Nat /\ Len(g) \in Nat
    BY DEF Prefix
<1> QED BY <1>1

\* A load that ends has come past every line of the file that counts.
LEMMA LoadEnds ==
    ASSUME IInv, PositionsInFile, Loading, AtEnd
    PROVE  /\ Ended \in Nat /\ Ended >= pos
           /\ ~stale => /\ Ended <= Len(files[at])
                        /\ \A i \in DOMAIN files[at] : i <= MaxLines => i <= pos
<1>1. PICK lineno : lineno = logfiles[at].lineno
    OBVIOUS
<1>2. PICK f \in Seq(Line) : f = files[open]
    BY DEF IInv, TypeOK
<1>3. Len(f) \in Nat /\ \A i \in DOMAIN f : i \in Nat /\ i <= Len(f)
    BY LinesAre
<1>4. pos \in Nat /\ lineno \in Nat /\ MaxLines \in Nat
    BY <1>1, BoundsAre DEF IInv, TypeOK, IndexInOrder, Logfile
<1>5. pos >= Len(f) \/ lineno >= MaxLines
    BY <1>1, <1>2 DEF AtEnd
<1>6. pos >= lineno
    BY <1>1 DEF PositionsInFile
<1>7. Ended = IF pos < Len(f) THEN pos + 1 ELSE pos
    BY <1>2 DEF Ended
<1>8. ~stale => files[at] = f /\ pos <= Len(f)
    BY <1>2 DEF IInv, PositionsAreLines, PositionsInFile, Loading
<1>9. \A i \in DOMAIN f : i <= MaxLines => i <= pos
    BY <1>3, <1>4, <1>5, <1>6
<1> QED BY <1>3, <1>4, <1>7, <1>8, <1>9

LEMMA PositionsInFileStep ==
    ASSUME IInv, IInv', PositionsInFile, [Next]_vars
    PROVE  PositionsInFile'
<1>1. PICK D : D = DOMAIN logfiles
    OBVIOUS
<1>2. /\ Current \in D /\ at \in D /\ pos \in Nat /\ D \subseteq Names
      /\ \A n \in D : logfiles[n] \in Logfile
    BY <1>1 DEF IInv, TypeOK, IndexInOrder
<1>3. \A n \in D : logfiles[n].lineno \in Nat /\ logfiles[n].readPos \in Nat
    BY <1>2 DEF Logfile
<1>4. \A n \in Names : Len(files[n]) \in Nat /\ files[n] \in Seq(Line) /\ files'[n] \in Seq(Line)
    BY LinesAre DEF IInv, TypeOK
<1>5. TypeOK /\ FilesInOrder /\ IndexInOrder /\ Current \in Names
    BY BoundsAre DEF IInv
<1> USE DEF PositionsInFile, Loading
<1>6. CASE Log \/ Tick \/ Rotate \/ UNCHANGED vars
    <2>1. /\ UNCHANGED <<logfiles, pc, at, pos>>
          /\ stale' \/ (stale' = stale /\ ~Rotate)
        BY <1>6, CoreStepIs
    <2>2. ASSUME ~Rotate, NEW n \in Names
          PROVE  Len(files[n]) <= Len(files'[n]) /\ Len(files'[n]) \in Nat
        <3>1. PICK f \in Seq(Line), g \in Seq(Line) : f = files[n] /\ g = files'[n]
            BY <1>4
        <3>2. Prefix(f, g)
            BY <1>5, <2>2, <3>1, LinesKept
        <3> QED BY <3>1, <3>2, PrefixIsShorter, LinesAre
    <2>3. at \in Names
        BY <1>2
    <2> QED BY <1>2, <1>3, <1>4, <1>5, <2>1, <2>2, <2>3
<1>7. CASE Begin
    <2>1. pc = "idle" /\ pc' \in {"visit", "answered"} /\ files' = files
        BY <1>7 DEF Begin, Search, Goto, disk
    <2>2. CASE logfiles' = NewIndex
        <3>1. Current \in DOMAIN NewIndex
            BY <1>5, NewIndexIs DEF TypeOK
        <3>2. NewIndex[Current].readPos = 0 /\ NewIndex[Current].lineno = 0
            BY <3>1 DEF NewIndex, NewLogfile
        <3> QED BY <1>4, <1>5, <2>1, <2>2, <3>2
    <2>3. CASE logfiles' = logfiles /\ stale' = stale
        BY <2>1, <2>3
    <2> QED BY <1>7, <2>2, <2>3 DEF Begin
<1>8. CASE Visit
    <2>1. /\ pc = "visit" /\ at' = at /\ stale' = stale /\ files' = files
          /\ \/ pc' \in {"answered", "deliver"} /\ logfiles' = logfiles
             \/ /\ pc' = "grown" /\ at = Current
                /\ logfiles' = logfiles /\ pos' = logfiles[at].readPos
             \/ /\ pc' = "missing" /\ pos' = 0
                /\ logfiles' = [logfiles EXCEPT ![at].lineno = 0]
        BY <1>8 DEF Visit, disk
    <2>2. CASE pc' \in {"answered", "deliver"} /\ logfiles' = logfiles
        BY <2>1, <2>2
    <2>3. CASE pc' = "grown" /\ at = Current /\ logfiles' = logfiles /\ pos' = logfiles[at].readPos
        BY <2>1, <2>3
    <2>4. CASE /\ pc' = "missing" /\ pos' = 0
               /\ logfiles' = [logfiles EXCEPT ![at].lineno = 0]
        <3>1. logfiles'[at].lineno = 0 /\ logfiles'[Current].readPos = logfiles[Current].readPos
            BY <1>1, <1>2, <2>4 DEF Logfile
        <3>2. at # Current => logfiles'[Current] = logfiles[Current]
            BY <1>1, <1>2, <2>4
        <3>3. Len(files[at]) >= 0
            BY <1>2, <1>4
        <3> QED BY <2>1, <2>4, <3>1, <3>2, <3>3
    <2> QED BY <2>1, <2>2, <2>3, <2>4
<1>9. CASE ReadLine
    <2>1. /\ pc \in {"grown", "missing"} /\ pc' = pc /\ at' = at /\ stale' = stale /\ files' = files
          /\ pos' = pos + 1
        BY <1>9 DEF ReadLine, disk
    <2>2. PICK next : next = logfiles'
        OBVIOUS
    <2>3. \A n \in D : /\ next[n].readPos = logfiles[n].readPos
                       /\ next[n].lineno = IF n = at THEN logfiles[n].lineno + 1
                                           ELSE logfiles[n].lineno
        BY <1>1, <1>9, <2>2, LineHandled DEF IInv
    <2>4. ~stale => pos + 1 <= Len(files[at])
        <3>1. PICK f \in Seq(Line) : f = files[at]
            BY <1>2, <1>4
        <3> QED BY <1>9, <3>1, LineRead, LinesAre
    <2>5. pos + 1 >= next[at].lineno
        BY <1>2, <1>3, <2>1, <2>3
    <2>6. at # Current => next[Current].readPos >= next[Current].lineno
        BY <1>2, <2>3
    <2>7. next[Current].readPos = logfiles[Current].readPos
        BY <1>2, <2>3
    <2> QED BY <2>1, <2>2, <2>4, <2>5, <2>6, <2>7
<1>10. CASE GrownEnd
    <2>1. /\ pc = "grown" /\ AtEnd /\ at = Current /\ at' = at /\ stale' = stale /\ files' = files
          /\ \/ /\ pc' = "deliver" /\ logfiles' = [logfiles EXCEPT ![at].readPos = Ended]
             \/ /\ pc' = "missing" /\ pos' = 0
                /\ logfiles' = [logfiles EXCEPT ![at].readPos = Ended, ![at].lineno = 0]
        BY <1>10 DEF GrownEnd, disk, IInv, PositionsAreLines
    <2>2. PICK ended \in Nat : ended = Ended /\ ended >= pos /\ (~stale => ended <= Len(files[at]))
        BY <2>1, LoadEnds
    <2>3. ended >= logfiles[at].lineno /\ logfiles'[at].readPos = ended
        BY <1>1, <1>2, <1>3, <2>1, <2>2 DEF Logfile
    <2>4. CASE pc' = "deliver" /\ logfiles' = [logfiles EXCEPT ![at].readPos = Ended]
        <3>1. logfiles'[at].lineno = logfiles[at].lineno
            BY <1>1, <1>2, <2>4 DEF Logfile
        <3> QED BY <2>1, <2>2, <2>3, <2>4, <3>1
    <2>5. CASE /\ pc' = "missing" /\ pos' = 0
               /\ logfiles' = [logfiles EXCEPT ![at].readPos = Ended, ![at].lineno = 0]
        <3>1. logfiles'[at].lineno = 0
            BY <1>1, <1>2, <2>5 DEF Logfile
        <3>2. Len(files[at]) >= 0
            BY <1>2, <1>4
        <3> QED BY <2>1, <2>2, <2>3, <2>5, <3>1, <3>2
    <2> QED BY <2>1, <2>4, <2>5
<1>11. CASE MissingEnd
    <2>1. /\ pc = "missing" /\ AtEnd /\ at' = at /\ pc' = "deliver" /\ stale' = stale /\ files' = files
          /\ logfiles' = [logfiles EXCEPT ![at].classesRead = @ \cup missing,
                              ![at].readPos = IF at = Current THEN Ended ELSE @]
        BY <1>11 DEF MissingEnd, disk
    <2>2. PICK ended \in Nat : ended = Ended /\ ended >= pos /\ (~stale => ended <= Len(files[at]))
        BY <2>1, LoadEnds
    <2>3. CASE at = Current
        <3>1. logfiles'[at].readPos = ended /\ logfiles'[at].lineno = logfiles[at].lineno
            BY <1>1, <1>2, <2>1, <2>2, <2>3 DEF Logfile
        <3>2. ended >= logfiles[at].lineno
            BY <1>2, <1>3, <2>1, <2>2
        <3> QED BY <2>1, <2>2, <2>3, <3>1, <3>2
    <2>4. CASE at # Current
        <3>1. logfiles'[Current] = logfiles[Current]
            BY <1>1, <1>2, <2>1, <2>4
        <3> QED BY <2>1, <2>4, <3>1
    <2> QED BY <2>3, <2>4
<1>12. CASE Deliver \/ Finish
    <2>1. /\ logfiles' = logfiles /\ pc \in {"deliver", "answered"} /\ files' = files /\ stale' = stale
          /\ pc' \in {"visit", "answered", "idle"}
        BY <1>12 DEF Deliver, Finish, Goto, cache, disk
    <2> QED BY <2>1
<1> QED BY <1>6, <1>7, <1>8, <1>9, <1>10, <1>11, <1>12 DEF Next

LEMMA LacksStep ==
    ASSUME IInv, IInv', LoadsLacking, [Next]_vars
    PROVE  LoadsLacking'
<1>1. /\ at \in DOMAIN logfiles /\ \A n \in DOMAIN logfiles : logfiles[n] \in Logfile
    BY DEF IInv, TypeOK, IndexInOrder
<1> USE DEF LoadsLacking, Loading
<1>2. CASE Log \/ Tick \/ Rotate \/ UNCHANGED vars
    BY <1>2, CoreStepIs
<1>3. CASE Begin \/ Deliver \/ Finish \/ MissingEnd
    <2>1. pc' \in {"visit", "answered", "idle", "deliver"}
        BY <1>3 DEF Begin, Search, Deliver, Finish, Goto, MissingEnd
    <2> QED BY <2>1
<1>4. CASE Visit
    <2>1. /\ at' = at /\ query' = query
          /\ \/ pc' \in {"answered", "deliver"}
             \/ /\ pc' = "grown" /\ logfiles' = logfiles /\ types' = logfiles[at].classesRead
                /\ missing' = query.classes \ logfiles[at].classesRead
             \/ /\ pc' = "missing" /\ types' = query.classes \ logfiles[at].classesRead
                /\ missing' = query.classes \ logfiles[at].classesRead
                /\ logfiles' = [logfiles EXCEPT ![at].lineno = 0]
        BY <1>4 DEF Visit
    <2>2. logfiles' = [logfiles EXCEPT ![at].lineno = 0] =>
            logfiles'[at].classesRead = logfiles[at].classesRead
        BY <1>1 DEF Logfile
    <2> QED BY <2>1, <2>2
<1>5. CASE ReadLine
    <2>1. /\ pc' = pc /\ at' = at /\ query' = query /\ types' = types /\ missing' = missing
          /\ pc \in {"grown", "missing"}
        BY <1>5 DEF ReadLine
    <2>2. PICK next : next = logfiles'
        OBVIOUS
    <2>3. /\ next[at].classesRead \subseteq logfiles[at].classesRead
          /\ logfiles[at].classesRead \cap query.classes \subseteq next[at].classesRead
        BY <1>1, <1>5, <2>2, LineHandled, LineRead DEF IInv
    <2> QED BY <2>1, <2>2, <2>3
<1>6. CASE GrownEnd
    <2>1. /\ pc = "grown" /\ at' = at /\ query' = query /\ missing' = missing
          /\ \/ pc' = "deliver"
             \/ /\ pc' = "missing" /\ types' = missing
                /\ logfiles' = [logfiles EXCEPT ![at].readPos = Ended, ![at].lineno = 0]
        BY <1>6 DEF GrownEnd
    <2>2. logfiles' = [logfiles EXCEPT ![at].readPos = Ended, ![at].lineno = 0] =>
            logfiles'[at].classesRead = logfiles[at].classesRead
        BY <1>1 DEF Logfile
    <2> QED BY <2>1, <2>2
<1> QED BY <1>2, <1>3, <1>4, <1>5, <1>6 DEF Next

-----------------------------------------------------------------------------
(* What was read is in memory                                              *)

LEMMA ClassesStep ==
    ASSUME IInv, IInv', PositionsInFile, LoadsLacking, ClassesAreRead, MissingIsRead, [Next]_vars
    PROVE  ClassesAreRead'
<1>1. PICK D, next : D = DOMAIN logfiles /\ next = logfiles'
    OBVIOUS
<1>2. /\ Current \in D /\ at \in D /\ D \subseteq Names /\ pos \in Nat
      /\ \A n \in D : logfiles[n] \in Logfile
    BY <1>1 DEF IInv, TypeOK, IndexInOrder
<1>3. \A n \in Names : files[n] \in Seq(Line)
    BY DEF IInv, TypeOK
<1>4. TypeOK /\ FilesInOrder /\ IndexInOrder
    BY DEF IInv
<1>5. SUFFICES ASSUME ~stale', ~skipped'
               PROVE  \A n \in DOMAIN next : \A i \in DOMAIN files'[n] :
                        /\ i <= MaxLines /\ files'[n][i].class \in next[n].classesRead
                        /\ n = Current => i <= Far'
                        => [lineno |-> i, line |-> files'[n][i]] \in next[n].entries
    BY <1>1 DEF ClassesAreRead, EntryOf
<1>6. ASSUME ~stale, ~skipped, NEW n \in D, NEW i \in DOMAIN files[n],
             i <= MaxLines, files[n][i].class \in logfiles[n].classesRead,
             n = Current => i <= Far
      PROVE  EntryOf(n, i) \in logfiles[n].entries
    BY <1>1, <1>6 DEF ClassesAreRead
<1>7. CASE Log \/ Tick \/ Rotate \/ UNCHANGED vars
    <2>1. next = logfiles /\ pc' = pc /\ pos' = pos /\ ~stale /\ ~skipped /\ ~Rotate
        BY <1>1, <1>5, <1>7, CoreStepIs
    <2>2. Far' = Far
        BY <1>1, <2>1 DEF Far
    <2>3. Far \in Nat /\ Far <= Len(files[Current])
        BY <1>2, <2>1 DEF Far, PositionsInFile, Loading, IInv, PositionsAreLines, Logfile
    <2>4. ASSUME NEW n \in D, NEW i \in DOMAIN files'[n], i <= MaxLines,
                 files'[n][i].class \in next[n].classesRead, n = Current => i <= Far
          PROVE  [lineno |-> i, line |-> files'[n][i]] \in next[n].entries
        <3>1. n \in Names /\ Prefix(files[n], files'[n])
            BY <1>2, <1>4, <2>1, LinesKept
        <3>2. \/ i \in DOMAIN files[n]
              \/ n = Current /\ i > Len(files[n])
            BY <1>4, <2>1, <3>1, LinesKept
        <3>3. CASE i \in DOMAIN files[n]
            <4>1. files'[n][i] = files[n][i]
                BY <3>1, <3>3 DEF Prefix
            <4> QED BY <1>6, <2>1, <2>4, <3>3, <4>1 DEF EntryOf
        <3>4. CASE n = Current /\ i > Len(files[n])
            <4>1. PICK f \in Seq(Line), g \in Seq(Line) : f = files[n] /\ g = files'[n]
                BY <3>1 DEF IInv, TypeOK
            <4>2. i \in Nat /\ Len(f) \in Nat
                BY <2>4, <4>1, LinesAre
            <4> QED BY <2>3, <2>4, <3>4, <4>1, <4>2
        <3> QED BY <3>2, <3>3, <3>4
    <2> QED BY <1>1, <2>1, <2>2, <2>4
<1>8. CASE Begin
    <2>1. CASE logfiles' = NewIndex
        <3>1. \A n \in DOMAIN NewIndex : NewIndex[n].classesRead = {}
            BY <1>4, NewIndexIs DEF TypeOK
        <3> QED BY <1>1, <2>1, <3>1
    <2>2. CASE logfiles' = logfiles /\ stale' = stale /\ skipped' = skipped
        <3>1. pc = "idle" /\ pc' \in {"visit", "answered"} /\ files' = files
            BY <1>8 DEF Begin, Search, Goto, disk
        <3>2. Far' = Far
            BY <2>2, <3>1 DEF Far
        <3> QED BY <1>1, <1>5, <1>6, <2>2, <3>1, <3>2 DEF EntryOf
    <2> QED BY <1>8, <2>1, <2>2 DEF Begin
<1>9. CASE Visit \/ Deliver \/ Finish
    <2>1. /\ files' = files /\ stale' = stale /\ skipped' = skipped
          /\ DOMAIN next = D /\ \A n \in D : next[n].entries = logfiles[n].entries
        BY <1>1, <1>4, <1>9, LoadStepIs DEF SameEntries, Visit, Deliver, Finish
    <2>2. Far' = Far /\ \A n \in D : next[n].classesRead = logfiles[n].classesRead
        <3>1. CASE Visit
            <4>1. /\ pc = "visit"
                  /\ \/ pc' \in {"answered", "deliver"} /\ next = logfiles
                     \/ /\ pc' = "grown" /\ at = Current
                        /\ next = logfiles /\ pos' = logfiles[at].readPos
                     \/ /\ pc' = "missing" /\ next = [logfiles EXCEPT ![at].lineno = 0]
                BY <1>1, <3>1 DEF Visit
            <4>2. next = [logfiles EXCEPT ![at].lineno = 0] =>
                    \A n \in D : /\ next[n].classesRead = logfiles[n].classesRead
                                 /\ next[n].readPos = logfiles[n].readPos
                BY <1>1, <1>2 DEF Logfile
            <4> QED BY <1>1, <1>2, <4>1, <4>2 DEF Far
        <3>2. CASE Deliver \/ Finish
            <4>1. /\ next = logfiles /\ pc \in {"deliver", "answered"}
                  /\ pc' \in {"visit", "answered", "idle"}
                BY <1>1, <3>2 DEF Deliver, Finish, Goto, cache
            <4> QED BY <1>1, <4>1 DEF Far
        <3> QED BY <1>9, <3>1, <3>2
    <2> QED BY <1>1, <1>5, <1>6, <2>1, <2>2 DEF EntryOf
<1>10. CASE ReadLine
    <2>1. /\ pc \in {"grown", "missing"} /\ pc' = pc /\ stale' = stale /\ files' = files
          /\ skipped' = skipped /\ pos' = pos + 1
        BY <1>10 DEF ReadLine, disk
    <2>2. /\ DOMAIN next = D
          /\ \A n \in D : /\ next[n].classesRead \subseteq logfiles[n].classesRead
                          /\ next[n].readPos = logfiles[n].readPos
        BY <1>1, <1>10, LineHandled DEF IInv
    <2>3. \A n \in D : \A e \in logfiles[n].entries :
            e.line.class \in next[n].classesRead => e \in next[n].entries
        BY <1>1, <1>10, LineRead
    <2>4. ASSUME NEW n \in D, NEW i \in DOMAIN files[n], i <= MaxLines,
                 files[n][i].class \in next[n].classesRead, n = Current => i <= Far'
          PROVE  EntryOf(n, i) \in next[n].entries
        <3>1. CASE n = Current => i <= Far
            <4>1. EntryOf(n, i) \in logfiles[n].entries
                BY <1>5, <1>6, <2>1, <2>2, <2>4, <3>1
            <4>2. EntryOf(n, i).line.class = files[n][i].class
                BY DEF EntryOf
            <4> QED BY <2>3, <2>4, <4>1, <4>2
        <3>2. CASE n = Current /\ ~(i <= Far)
            <4>1. Far' = IF pc = "grown" THEN pos + 1 ELSE logfiles[Current].readPos
                BY <1>1, <1>2, <2>1, <2>2 DEF Far
            <4>2. pc = "grown" /\ Far = pos /\ Far' = pos + 1
                BY <2>4, <3>2, <4>1 DEF Far
            <4>3. i \in Nat /\ i = pos + 1
                <5>1. i \in Nat
                    BY <1>2, <1>3, <2>4, LinesAre
                <5> QED BY <1>2, <2>4, <3>2, <4>2, <5>1
            <4>4. at = n
                BY <3>2, <4>2 DEF IInv, PositionsAreLines
            <4>5. files[n][i].class \in types
                BY <2>2, <2>4, <4>2, <4>4 DEF LoadsLacking
            <4> QED BY <1>1, <1>5, <1>10, <2>1, <2>4, <4>3, <4>4, <4>5, LineRead
        <3> QED BY <3>1, <3>2
    <2> QED BY <2>1, <2>2, <2>4 DEF EntryOf
<1>11. CASE GrownEnd
    <2>1. /\ pc = "grown" /\ AtEnd /\ at = Current /\ stale' = stale /\ files' = files
          /\ skipped' = skipped /\ pc' \in {"deliver", "missing"}
          /\ \/ next = [logfiles EXCEPT ![at].readPos = Ended]
             \/ next = [logfiles EXCEPT ![at].readPos = Ended, ![at].lineno = 0]
        BY <1>1, <1>11 DEF GrownEnd, disk, IInv, PositionsAreLines
    <2>2. /\ DOMAIN next = D
          /\ \A n \in D : /\ next[n].classesRead = logfiles[n].classesRead
                          /\ next[n].entries = logfiles[n].entries
        <3>1. /\ next[at].classesRead = logfiles[at].classesRead
              /\ next[at].entries = logfiles[at].entries
            BY <1>1, <1>2, <2>1 DEF Logfile
        <3>2. DOMAIN next = D /\ \A n \in D : n # at => next[n] = logfiles[n]
            BY <1>1, <1>2, <2>1
        <3> QED BY <3>1, <3>2
    <2>3. \A i \in DOMAIN files[Current] : i <= MaxLines => i <= Far
        BY <1>5, <2>1, LoadEnds DEF Loading, Far
    <2> QED BY <1>5, <1>6, <2>1, <2>2, <2>3 DEF EntryOf
<1>12. CASE MissingEnd
    <2>1. /\ pc = "missing" /\ AtEnd /\ stale' = stale /\ files' = files /\ pc' = "deliver"
          /\ next = [logfiles EXCEPT ![at].classesRead = @ \cup missing,
                              ![at].readPos = IF at = Current THEN Ended ELSE @]
          /\ skipped' = \/ skipped
                        \/ at = Current /\ logfiles[at].classesRead # {}
                            /\ Ended > logfiles[at].readPos
        BY <1>1, <1>12 DEF MissingEnd, disk
    <2>2. /\ DOMAIN next = D /\ next[at].classesRead = logfiles[at].classesRead \cup missing
          /\ \A n \in D : /\ n # at => next[n] = logfiles[n]
                          /\ next[n].entries = logfiles[n].entries
        <3>1. /\ next[at].classesRead = logfiles[at].classesRead \cup missing
              /\ next[at].entries = logfiles[at].entries
            BY <1>1, <1>2, <2>1 DEF Logfile
        <3>2. DOMAIN next = D /\ \A n \in D : n # at => next[n] = logfiles[n]
            BY <1>1, <1>2, <2>1
        <3> QED BY <3>1, <3>2
    <2>3. /\ \A i \in DOMAIN files[at] : i <= MaxLines => i <= pos
          /\ Ended \in Nat /\ Ended >= pos
        BY <1>5, <2>1, LoadEnds DEF Loading
    <2>4. ASSUME NEW i \in DOMAIN files[at], i <= MaxLines,
                 files[at][i].class \in next[at].classesRead
          PROVE  EntryOf(at, i) \in logfiles[at].entries
        <3>1. CASE files[at][i].class \in missing
            BY <1>5, <2>1, <2>3, <2>4, <3>1 DEF MissingIsRead
        <3>2. CASE files[at][i].class \in logfiles[at].classesRead
            <4>1. at = Current => i <= Far
                <5>1. SUFFICES ASSUME at = Current
                               PROVE  i <= logfiles[at].readPos
                    BY <2>1 DEF Far
                <5>2. ~(Ended > logfiles[at].readPos)
                    BY <1>5, <2>1, <3>2, <5>1
                <5>3. logfiles[at].readPos \in Nat /\ i \in Nat
                    BY <1>2, <1>3, <2>4, LinesAre DEF Logfile
                <5> QED BY <1>2, <2>3, <2>4, <5>2, <5>3
            <4> QED BY <1>2, <1>5, <1>6, <2>1, <2>4, <3>2, <4>1
        <3> QED BY <2>2, <2>4, <3>1, <3>2
    <2>5. ASSUME NEW n \in D, NEW i \in DOMAIN files[n], i <= MaxLines, n # at,
                 files[n][i].class \in next[n].classesRead, n = Current => i <= Far'
          PROVE  EntryOf(n, i) \in next[n].entries
        <3>1. n = Current => Far' = Far
            BY <1>1, <2>1, <2>2, <2>5 DEF Far
        <3> QED BY <1>5, <1>6, <2>1, <2>2, <2>5, <3>1
    <2> QED BY <2>1, <2>2, <2>4, <2>5 DEF EntryOf
<1> QED BY <1>7, <1>8, <1>9, <1>10, <1>11, <1>12 DEF Next

LEMMA MissingStep ==
    ASSUME IInv, IInv', PositionsInFile, LoadsLacking, MissingIsRead, [Next]_vars
    PROVE  MissingIsRead'
<1>1. PICK D, next : D = DOMAIN logfiles /\ next = logfiles'
    OBVIOUS
<1>2. /\ at \in D /\ D \subseteq Names /\ pos \in Nat
      /\ \A n \in D : logfiles[n] \in Logfile
    BY <1>1 DEF IInv, TypeOK, IndexInOrder
<1>3. \A n \in Names : files[n] \in Seq(Line) /\ files'[n] \in Seq(Line)
    BY DEF IInv, TypeOK
<1>4. TypeOK /\ FilesInOrder /\ IndexInOrder
    BY DEF IInv
<1>5. SUFFICES ASSUME ~stale', pc' = "missing"
               PROVE  \A i \in DOMAIN files'[at'] :
                        i <= MaxLines /\ i <= pos' /\ files'[at'][i].class \in missing'
                            => [lineno |-> i, line |-> files'[at'][i]] \in next[at'].entries
    BY <1>1 DEF MissingIsRead, EntryOf
<1>6. ASSUME ~stale, pc = "missing", NEW i \in DOMAIN files[at],
             i <= MaxLines, i <= pos, files[at][i].class \in missing
      PROVE  EntryOf(at, i) \in logfiles[at].entries
    BY <1>6 DEF MissingIsRead
<1>7. CASE Log \/ Tick \/ Rotate \/ UNCHANGED vars
    <2>1. /\ next = logfiles /\ pc' = pc /\ pos' = pos /\ at' = at /\ missing' = missing
          /\ ~stale /\ ~Rotate
        BY <1>1, <1>5, <1>7, CoreStepIs
    <2>2. pos <= Len(files[at])
        BY <1>5, <2>1 DEF PositionsInFile, Loading
    <2>3. ASSUME NEW i \in DOMAIN files'[at], i <= MaxLines, i <= pos, files'[at][i].class \in missing
          PROVE  [lineno |-> i, line |-> files'[at][i]] \in next[at].entries
        <3>1. at \in Names /\ Prefix(files[at], files'[at])
            BY <1>2, <1>4, <2>1, LinesKept
        <3>2. i \in DOMAIN files[at] \/ i > Len(files[at])
            BY <1>4, <2>1, <3>1, LinesKept
        <3>3. CASE i \in DOMAIN files[at]
            <4>1. files'[at][i] = files[at][i]
                BY <3>1, <3>3 DEF Prefix
            <4> QED BY <1>5, <1>6, <2>1, <2>3, <3>3, <4>1 DEF EntryOf
        <3>4. CASE i > Len(files[at])
            <4>1. PICK f \in Seq(Line), g \in Seq(Line) : f = files[at] /\ g = files'[at]
                BY <1>3, <3>1
            <4>2. i \in Nat /\ Len(f) \in Nat
                BY <2>3, <4>1, LinesAre
            <4> QED BY <1>2, <2>2, <2>3, <3>4, <4>1, <4>2
        <3> QED BY <3>2, <3>3, <3>4
    <2> QED BY <2>1, <2>3
<1>8. CASE Begin \/ Deliver \/ Finish \/ MissingEnd
    <2>1. pc' \in {"visit", "answered", "idle", "deliver"}
        BY <1>8 DEF Begin, Search, Deliver, Finish, Goto, MissingEnd
    <2> QED BY <1>5, <2>1
<1>9. CASE Visit \/ GrownEnd
    <2>1. pos' = 0 /\ files' = files /\ at' = at
        BY <1>5, <1>9 DEF Visit, GrownEnd, disk
    <2>2. \A i \in DOMAIN files[at] : i \in Nat /\ i >= 1
        BY <1>2, <1>3, LinesAre
    <2> QED BY <2>1, <2>2
<1>10. CASE ReadLine
    <2>1. /\ pc = "missing" /\ stale' = stale /\ files' = files /\ at' = at /\ missing' = missing
          /\ pos' = pos + 1
        BY <1>5, <1>10 DEF ReadLine, disk
    <2>2. types = missing /\ missing \subseteq query.classes
        BY <2>1 DEF LoadsLacking, Loading
    <2>3. ASSUME NEW i \in DOMAIN files[at], i <= MaxLines, i <= pos + 1,
                 files[at][i].class \in missing
          PROVE  EntryOf(at, i) \in next[at].entries
        <3>1. CASE i <= pos
            <4>1. EntryOf(at, i) \in logfiles[at].entries
                BY <1>5, <1>6, <2>1, <2>3, <3>1
            <4>2. EntryOf(at, i).line.class \in query.classes
                BY <2>2, <2>3 DEF EntryOf
            <4> QED BY <1>1, <1>2, <1>10, <4>1, <4>2, LineRead
        <3>2. CASE ~(i <= pos)
            <4>1. i \in Nat
                BY <1>2, <1>3, <2>3, LinesAre
            <4>2. i = pos + 1
                BY <1>2, <2>3, <3>2, <4>1
            <4> QED BY <1>1, <1>5, <1>10, <2>1, <2>2, <2>3, <4>2, LineRead
        <3> QED BY <3>1, <3>2
    <2> QED BY <2>1, <2>3 DEF EntryOf
<1> QED BY <1>7, <1>8, <1>9, <1>10 DEF Next

\* What the log holds for a query was written, and remains there until a rotation.
LEMMA HeldWritten ==
    ASSUME LogInOrder, NEW q, NEW line \in Held(q)
    PROVE  line.id <= logged /\ Matches(q, line)
           /\ \E n \in Names : line \in LinesOf(n)
<1>1. PICK n \in Names : line \in LinesOf(n)
    BY DEF Held
<1>2. PICK i \in DOMAIN files[n] : line = files[n][i]
    BY <1>1 DEF LinesOf
<1> QED BY <1>1, <1>2 DEF LogInOrder, Held

LEMMA LinesOfGrow ==
    ASSUME TypeOK, FilesInOrder, [Next]_vars, ~Rotate, NEW n \in Names
    PROVE  LinesOf(n) \subseteq {files'[n][i] : i \in {j \in DOMAIN files'[n] : j <= MaxLines}}
<1>1. Prefix(files[n], files'[n])
    BY LinesKept
<1> QED BY <1>1 DEF Prefix, LinesOf

LEMMA BeforeStep ==
    ASSUME IInv, BeforeIsHeld, [Next]_vars
    PROVE  BeforeIsHeld'
<1>1. TypeOK /\ FilesInOrder
    BY DEF IInv
<1>2. SUFFICES ASSUME ~stale', pc' # "idle"
               PROVE  before' \subseteq Held(query)'
    BY DEF BeforeIsHeld
<1>3. CASE Begin
    <2>1. files' = files
        BY <1>3 DEF Begin, disk
    <2>2. PICK q : query' = q /\ before' = Held(q)
        BY <1>3 DEF Begin
    <2> QED BY <2>1, <2>2 DEF Held, LinesOf, Matches
<1>4. CASE ~Begin /\ ~Finish
    <2>1. before' = before /\ query' = query /\ ~Rotate /\ (pc # "idle" => before \subseteq Held(query))
        BY <1>2, <1>4, CoreStepIs DEF Next, Visit, ReadLine, GrownEnd, MissingEnd, Deliver, BeforeIsHeld
    <2>2. pc # "idle"
        BY <1>2, <1>4, CoreStepIs DEF Next, Visit, ReadLine, GrownEnd, MissingEnd, Deliver
    <2>3. ASSUME NEW line \in before
          PROVE  line \in Held(query)'
        <3>1. line \in Held(query)
            BY <2>1, <2>2, <2>3
        <3>2. PICK n \in Names : line \in LinesOf(n)
            BY <3>1 DEF Held
        <3>3. line \in LinesOf(n)'
            BY <1>1, <2>1, <3>2, LinesOfGrow DEF LinesOf
        <3>4. Matches(query, line)
            BY <3>1 DEF Held
        <3> QED BY <2>1, <3>3, <3>4 DEF Held, Matches
    <2> QED BY <2>1, <2>3
<1>5. CASE Finish
    BY <1>2, <1>5 DEF Finish, Goto
<1> QED BY <1>3, <1>4, <1>5

\* When a load ends, the classes that the query asks for have been read.
LEMMA ReadyStep ==
    ASSUME IInv, IInv', LogInOrder, PositionsInFile, LoadsLacking, ClassesAreRead',
           BeforeIsHeld, ReadyToDeliver, [Next]_vars
    PROVE  ReadyToDeliver'
<1>1. PICK D, next : D = DOMAIN logfiles /\ next = logfiles'
    OBVIOUS
<1>2. /\ at \in D /\ D \subseteq Names /\ \A n \in D : logfiles[n] \in Logfile
    BY <1>1 DEF IInv, TypeOK, IndexInOrder
<1>3. \A n \in Names : files[n] \in Seq(Line) /\ files'[n] \in Seq(Line)
    BY DEF IInv, TypeOK
<1>4. TypeOK /\ FilesInOrder /\ logged \in Nat
    BY DEF IInv, TypeOK
<1>5. SUFFICES ASSUME ~stale', ~skipped', pc' = "deliver"
               PROVE  \A i \in DOMAIN files'[at'] :
                        i <= MaxLines /\ files'[at'][i] \in before'
                            => [lineno |-> i, line |-> files'[at'][i]] \in next[at'].entries
    BY <1>1 DEF ReadyToDeliver, EntryOf
<1>6. CASE Log \/ Tick \/ Rotate \/ UNCHANGED vars
    <2>1. /\ next = logfiles /\ pc' = pc /\ at' = at /\ before' = before
          /\ ~stale /\ ~skipped /\ ~Rotate
        BY <1>1, <1>5, <1>6, CoreStepIs
    <2>2. ASSUME NEW i \in DOMAIN files'[at], i <= MaxLines, files'[at][i] \in before
          PROVE  [lineno |-> i, line |-> files'[at][i]] \in next[at].entries
        <3>1. at \in Names /\ Prefix(files[at], files'[at])
            BY <1>2, <1>4, <2>1, LinesKept
        <3>2. i \in DOMAIN files[at] \/ files'[at][i].id = logged + 1
            BY <1>4, <2>1, <3>1, LinesKept
        <3>3. files'[at][i].id <= logged
            BY <1>5, <2>1, <2>2, HeldWritten DEF BeforeIsHeld
        <3>4. i \in DOMAIN files[at]
            BY <1>4, <3>2, <3>3
        <3>5. files'[at][i] = files[at][i]
            BY <3>1, <3>4 DEF Prefix
        <3> QED BY <1>5, <2>1, <2>2, <3>4, <3>5 DEF ReadyToDeliver, EntryOf
    <2> QED BY <2>1, <2>2
<1>7. CASE Begin \/ Deliver \/ Finish \/ ReadLine
    <2>1. pc' \in {"visit", "answered", "idle", "grown", "missing"}
        BY <1>7 DEF Begin, Search, Deliver, Finish, Goto, ReadLine
    <2> QED BY <1>5, <2>1
<1>8. CASE Visit \/ GrownEnd \/ MissingEnd
    <2>1. /\ at' = at /\ files' = files /\ stale' = stale /\ before' = before /\ pc # "idle"
        BY <1>8 DEF Visit, GrownEnd, MissingEnd, disk
    <2>2. /\ query.classes \subseteq next[at].classesRead
          /\ at = Current => \A i \in DOMAIN files[at] : i <= MaxLines => i <= next[at].readPos
        <3>1. CASE Visit
            <4>1. at # Current /\ query.classes \ logfiles[at].classesRead = {} /\ next = logfiles
                BY <1>1, <1>5, <3>1 DEF Visit
            <4> QED BY <4>1
        <3>2. CASE GrownEnd
            <4>1. /\ pc = "grown" /\ AtEnd /\ missing = {}
                  /\ next = [logfiles EXCEPT ![at].readPos = Ended]
                BY <1>1, <1>5, <3>2 DEF GrownEnd
            <4>2. next[at].classesRead = logfiles[at].classesRead /\ next[at].readPos = Ended
                BY <1>1, <1>2, <4>1 DEF Logfile
            <4>3. query.classes \subseteq logfiles[at].classesRead
                BY <4>1 DEF LoadsLacking, Loading
            <4>4. /\ Ended \in Nat /\ Ended >= pos /\ pos \in Nat
                  /\ \A i \in DOMAIN files[at] : i <= MaxLines => i <= pos
                BY <1>4, <1>5, <2>1, <4>1, LoadEnds DEF Loading, TypeOK
            <4>5. \A i \in DOMAIN files[at] : i \in Nat
                BY <1>2, <1>3, LinesAre
            <4> QED BY <4>2, <4>3, <4>4, <4>5
        <3>3. CASE MissingEnd
            <4>1. /\ pc = "missing" /\ AtEnd
                  /\ next = [logfiles EXCEPT ![at].classesRead = @ \cup missing,
                                ![at].readPos = IF at = Current THEN Ended ELSE @]
                BY <1>1, <1>5, <3>3 DEF MissingEnd
            <4>2. /\ next[at].classesRead = logfiles[at].classesRead \cup missing
                  /\ at = Current => next[at].readPos = Ended
                <5>1. PICK log : log = logfiles[at]
                    OBVIOUS
                <5>2. PICK ended : ended = IF at = Current THEN Ended ELSE log.readPos
                    OBVIOUS
                <5>3. log \in Logfile
                    BY <1>1, <1>2, <5>1
                <5>4. PICK read : read = [log EXCEPT !.classesRead = @ \cup missing]
                    OBVIOUS
                <5>5. PICK logs : logs = [logfiles EXCEPT ![at].classesRead = @ \cup missing]
                    OBVIOUS
                <5>6. DOMAIN logs = DOMAIN logfiles /\ logs[at] = read
                    BY <1>1, <1>2, <5>1, <5>4, <5>5
                <5>7. next = [logs EXCEPT ![at].readPos = IF at = Current THEN Ended ELSE @]
                    BY <4>1, <5>5
                <5>8. next[at] = [read EXCEPT !.readPos = IF at = Current THEN Ended ELSE @]
                    BY <1>1, <1>2, <5>6, <5>7
                <5>9. read \in Logfile /\ read.classesRead = log.classesRead \cup missing
                    BY <1>4, <5>3, <5>4 DEF Logfile, TypeOK
                <5>10. next[at].classesRead = read.classesRead
                       /\ next[at].readPos = IF at = Current THEN Ended ELSE read.readPos
                    BY <5>8, <5>9 DEF Logfile
                <5> QED BY <5>1, <5>9, <5>10
            <4>3. query.classes \subseteq logfiles[at].classesRead \cup missing
                BY <4>1 DEF LoadsLacking, Loading
            <4>4. /\ Ended \in Nat /\ Ended >= pos /\ pos \in Nat
                  /\ \A i \in DOMAIN files[at] : i <= MaxLines => i <= pos
                BY <1>4, <1>5, <2>1, <4>1, LoadEnds DEF Loading, TypeOK
            <4>5. \A i \in DOMAIN files[at] : i \in Nat
                BY <1>2, <1>3, LinesAre
            <4> QED BY <4>2, <4>3, <4>4, <4>5
        <3> QED BY <1>8, <3>1, <3>2, <3>3
    <2>3. ASSUME NEW i \in DOMAIN files[at], i <= MaxLines, files[at][i] \in before
          PROVE  EntryOf(at, i) \in next[at].entries
        <3>1. Matches(query, files[at][i])
            BY <1>5, <2>1, <2>3, HeldWritten DEF BeforeIsHeld
        <3>2. files[at][i].class \in next[at].classesRead
            BY <2>2, <3>1 DEF Matches
        <3>3. at \in DOMAIN next
            BY <1>1, <2>1 DEF IInv, IndexInOrder
        <3>4. at = Current => i <= Far'
            BY <1>1, <1>5, <2>2, <2>3 DEF Far
        <3> QED BY <1>1, <1>5, <2>1, <2>3, <3>2, <3>3, <3>4 DEF ClassesAreRead, EntryOf
    <2> QED BY <2>1, <2>3 DEF EntryOf
<1> QED BY <1>6, <1>7, <1>8 DEF Next

-----------------------------------------------------------------------------
(* The newest entries                                                      *)

\* R orders the elements of S.
Orders(R, S) ==
    /\ \A d \in S : <<d, d>> \notin R
    /\ \A d, e \in S : d # e => <<d, e>> \in R \/ <<e, d>> \in R
    /\ \A c, d, e \in S : <<c, d>> \in R /\ <<d, e>> \in R => <<c, e>> \in R

Preceding(e, R, S) == {d \in S : <<d, e>> \in R}

\* The first k elements are those that less than k others precede.
FirstOf(k, R, S) == {e \in S : Cardinality(Preceding(e, R, S)) < k}

LEMMA PrecedingIs ==
    ASSUME NEW S, IsFiniteSet(S), NEW R, Orders(R, S)
    PROVE  /\ \A e \in S : /\ IsFiniteSet(Preceding(e, R, S))
                           /\ Cardinality(Preceding(e, R, S)) \in Nat
                           /\ Cardinality(Preceding(e, R, S)) < Cardinality(S)
           /\ \A d, e \in S : <<d, e>> \in R =>
                Cardinality(Preceding(d, R, S)) < Cardinality(Preceding(e, R, S))
<1>1. ASSUME NEW U \in SUBSET S, NEW e \in S
      PROVE  /\ IsFiniteSet(U) /\ Cardinality(U) \in Nat /\ Cardinality(S) \in Nat
             /\ Cardinality(U) <= Cardinality(S)
             /\ e \notin U => Cardinality(U) < Cardinality(S)
    <2>1. /\ IsFiniteSet(U) /\ Cardinality(U) <= Cardinality(S)
          /\ Cardinality(U) = Cardinality(S) => U = S
        BY FS_Subset
    <2>2. Cardinality(U) \in Nat /\ Cardinality(S) \in Nat
        BY <2>1, FS_CardinalityType
    <2> QED BY <2>1, <2>2
<1>2. ASSUME NEW e \in S
      PROVE  /\ IsFiniteSet(Preceding(e, R, S))
             /\ Cardinality(Preceding(e, R, S)) \in Nat
             /\ Cardinality(Preceding(e, R, S)) < Cardinality(S)
    <2>1. Preceding(e, R, S) \in SUBSET S /\ e \notin Preceding(e, R, S)
        BY DEF Preceding, Orders
    <2> QED BY <1>1, <2>1
<1>3. ASSUME NEW d \in S, NEW e \in S, <<d, e>> \in R
      PROVE  Cardinality(Preceding(d, R, S)) < Cardinality(Preceding(e, R, S))
    <2>1. PICK U, V : U = Preceding(d, R, S) /\ V = Preceding(e, R, S)
        OBVIOUS
    <2>2. U \in SUBSET V /\ d \in V /\ d \notin U
        BY <1>3, <2>1 DEF Preceding, Orders
    <2>3. IsFiniteSet(V) /\ Cardinality(U) \in Nat /\ Cardinality(V) \in Nat
        BY <1>2, <2>1
    <2>4. Cardinality(U) <= Cardinality(V) /\ (Cardinality(U) = Cardinality(V) => U = V)
        BY <2>2, <2>3, FS_Subset
    <2> QED BY <2>1, <2>2, <2>3, <2>4
<1> QED BY <1>2, <1>3

\* There are k of them.
LEMMA FirstAreCounted ==
    ASSUME NEW S, IsFiniteSet(S), NEW R, Orders(R, S), NEW k \in Nat, k <= Cardinality(S)
    PROVE  Cardinality(FirstOf(k, R, S)) = k
<1> DEFINE Rank(e) == Cardinality(Preceding(e, R, S))
           F(n) == FirstOf(n, R, S)
           Wrong == {n \in Nat : n <= Cardinality(S) /\ Cardinality(F(n)) # n}
<1>1. /\ \A e \in S : Rank(e) \in Nat
      /\ \A d, e \in S : <<d, e>> \in R => Rank(d) < Rank(e)
    BY PrecedingIs
<1>2. \A n : F(n) \in SUBSET S /\ \A e : e \in F(n) <=> e \in S /\ Rank(e) < n
    BY DEF FirstOf
<1>3. Cardinality(S) \in Nat
    BY FS_CardinalityType
<1> HIDE DEF Rank, F
<1>4. SUFFICES ASSUME Wrong # {}
               PROVE  FALSE
    BY DEF F
<1>5. PICK n \in Wrong : \A m \in Wrong : n <= m
    BY <1>4, Least
<1>6. n # 0
    <2>1. F(0) = {}
        BY <1>1, <1>2
    <2> QED BY <1>5, <2>1, FS_EmptySet
<1>7. PICK m \in Nat : n = m + 1
    <2>1. n - 1 \in Nat /\ n = (n - 1) + 1
        BY <1>5, <1>6
    <2> QED BY <2>1
<1>8. Cardinality(F(m)) = m /\ m < Cardinality(S)
    <2>1. m <= Cardinality(S) /\ m < Cardinality(S)
        BY <1>3, <1>5, <1>7
    <2>2. m \notin Wrong
        BY <1>5, <1>7
    <2> QED BY <2>1, <2>2
<1>9. PICK rest : rest = S \ F(m)
    OBVIOUS
<1>10. rest # {}
    <2>1. S # F(m)
        BY <1>3, <1>8
    <2> QED BY <1>2, <1>9, <2>1
<1>11. PICK e \in rest : \A x \in rest : Rank(e) <= Rank(x)
    <2>1. PICK ranks : ranks = {Rank(x) : x \in rest}
        OBVIOUS
    <2>2. ranks \subseteq Nat /\ ranks # {}
        BY <1>1, <1>9, <1>10, <2>1
    <2>3. PICK r \in ranks : \A q \in ranks : r <= q
        BY <2>2, Least
    <2> QED BY <2>1, <2>3
<1>12. e \in S /\ e \notin F(m) /\ ~(Rank(e) < m)
    BY <1>2, <1>9, <1>11
<1>13. Preceding(e, R, S) = F(m)
    <2>1. ASSUME NEW d \in S, <<d, e>> \in R
          PROVE  d \in F(m)
        <3>1. Rank(d) < Rank(e) /\ Rank(d) \in Nat /\ Rank(e) \in Nat
            BY <1>1, <1>12, <2>1
        <3> QED BY <1>9, <1>11, <3>1
    <2>2. ASSUME NEW d \in F(m)
          PROVE  d \in S /\ <<d, e>> \in R
        <3>1. d \in S /\ Rank(d) < m /\ Rank(d) \in Nat /\ Rank(e) \in Nat /\ d # e
            BY <1>1, <1>2, <1>12, <2>2
        <3>2. <<e, d>> \notin R
            BY <1>1, <1>12, <3>1
        <3> QED BY <1>12, <3>1, <3>2 DEF Orders
    <2> QED BY <2>1, <2>2 DEF Preceding
<1>14. Rank(e) = m
    BY <1>8, <1>13 DEF Rank
<1>15. F(n) = F(m) \cup {e}
    <2>1. ASSUME NEW x \in S, Rank(x) < m + 1, ~(Rank(x) < m)
          PROVE  x = e
        <3>1. Rank(x) = Rank(e) /\ Rank(x) \in Nat
            BY <1>1, <1>14, <2>1
        <3>2. <<x, e>> \notin R /\ <<e, x>> \notin R
            BY <1>1, <1>12, <3>1
        <3> QED BY <1>12, <3>2 DEF Orders
    <2>2. \A x \in S : Rank(x) \in Nat
        BY <1>1
    <2>3. \A x : x \in F(n) <=> x \in S /\ Rank(x) < m + 1
        BY <1>2, <1>7
    <2>4. \A x : x \in F(m) <=> x \in S /\ Rank(x) < m
        BY <1>2
    <2>5. \A x \in S : Rank(x) < m + 1 <=> Rank(x) < m \/ x = e
        BY <1>14, <2>1, <2>2
    <2> QED BY <1>12, <2>3, <2>4, <2>5
<1>16. IsFiniteSet(F(m))
    BY <1>2, FS_Subset
<1>17. Cardinality(F(m) \cup {e}) = m + 1
    BY <1>8, <1>12, <1>16, FS_AddElement
<1> QED BY <1>5, <1>7, <1>15, <1>17

\* All the others come after them.
LEMMA FirstPrecede ==
    ASSUME NEW S, IsFiniteSet(S), NEW R, Orders(R, S), NEW k \in Nat,
           NEW d \in FirstOf(k, R, S), NEW e \in S \ FirstOf(k, R, S)
    PROVE  <<d, e>> \in R
<1>1. PICK c \in Nat, b \in Nat : /\ c = Cardinality(Preceding(d, R, S))
                                  /\ b = Cardinality(Preceding(e, R, S))
    BY PrecedingIs DEF FirstOf
<1>2. d \in S /\ d # e /\ c < k /\ ~(b < k)
    BY <1>1 DEF FirstOf
<1>3. <<e, d>> \notin R
    BY <1>1, <1>2, PrecedingIs
<1> QED BY <1>2, <1>3 DEF Orders

-----------------------------------------------------------------------------
(* What a delivery adds                                                    *)

LEMMA LimitStep ==
    ASSUME IInv, EntriesInLimit, [Next]_vars
    PROVE  EntriesInLimit'
<1>1. PICK D, next : D = DOMAIN logfiles /\ next = logfiles'
    OBVIOUS
<1>2. TypeOK /\ FilesInOrder /\ IndexInOrder
    BY DEF IInv
<1>3. ASSUME DOMAIN next = D, \A n \in D : next[n].entries = logfiles[n].entries
      PROVE  EntriesInLimit'
    BY <1>1, <1>3 DEF EntriesInLimit
<1>4. CASE Log \/ Tick \/ Rotate \/ UNCHANGED vars
    BY <1>1, <1>3, <1>4, CoreStepIs
<1>5. CASE Begin
    <2>1. CASE logfiles' = NewIndex
        <3>1. \A n \in DOMAIN NewIndex : NewIndex[n].entries = {}
            BY <1>2, NewIndexIs DEF TypeOK
        <3> QED BY <2>1, <3>1 DEF EntriesInLimit
    <2>2. CASE logfiles' = logfiles
        BY <1>1, <1>3, <2>2
    <2> QED BY <1>5, <2>1, <2>2 DEF Begin
<1>6. CASE Visit \/ GrownEnd \/ MissingEnd \/ Deliver \/ Finish
    BY <1>1, <1>2, <1>3, <1>6, LoadStepIs DEF SameEntries
<1>7. CASE ReadLine
    <2>1. /\ DOMAIN next = D
          /\ \A n \in D : next[n].entries \subseteq logfiles[n].entries
                                \cup (IF n = at THEN {NextEntry} ELSE {})
        BY <1>1, <1>7, LineHandled DEF IInv
    <2>2. NextEntry.lineno <= MaxLines
        <3>1. PICK lineno \in Nat : lineno = logfiles[at].lineno
            BY DEF IInv, TypeOK, IndexInOrder, Logfile
        <3>2. ~(lineno >= MaxLines) /\ MaxLines \in Nat
            BY <1>7, <3>1, BoundsAre DEF ReadLine, AtEnd
        <3>3. NextEntry.lineno = lineno + 1
            BY <3>1 DEF NextEntry
        <3> QED BY <3>1, <3>2, <3>3
    <2>3. ASSUME NEW n \in D, NEW e \in next[n].entries
          PROVE  e.lineno <= MaxLines
        BY <1>1, <2>1, <2>2, <2>3 DEF EntriesInLimit
    <2> QED BY <1>1, <2>1, <2>3 DEF EntriesInLimit
<1> QED BY <1>4, <1>5, <1>6, <1>7 DEF Next

\* The lines of an older file come before those of a newer one.
LEMMA FilesFollow ==
    ASSUME IInv, LogInOrder, FilesAreIndexed, ~stale,
           NEW m \in DOMAIN logfiles, NEW n \in DOMAIN logfiles, Since(m) < Since(n),
           NEW a \in LinesOf(m), NEW b \in LinesOf(n)
    PROVE  a.id < b.id /\ a.time <= b.time
<1>1. m \in Names /\ n \in Names /\ Head(files[m]).time < Head(files[n]).time
    BY DEF FilesAreIndexed
<1>2. PICK i \in DOMAIN files[m], j \in DOMAIN files[n] : a = files[m][i] /\ b = files[n][j]
    BY DEF LinesOf
<1> QED BY <1>1, <1>2 DEF LogInOrder

\* What the log holds is in the files that the index knows.
LEMMA HeldIndexed ==
    ASSUME FilesAreIndexed, ~stale, NEW q, NEW line \in Held(q)
    PROVE  \E n \in DOMAIN logfiles : line \in LinesOf(n)
<1>1. PICK n \in Names : line \in LinesOf(n)
    BY DEF Held
<1>2. files[n] # <<>>
    BY <1>1 DEF LinesOf
<1> QED BY <1>1, <1>2 DEF FilesAreIndexed

LEMMA LinesOfType ==
    ASSUME TypeOK, NEW n \in Names
    PROVE  \A line \in LinesOf(n) : line.id \in Nat /\ line.time \in Nat
<1>1. files[n] \in Seq(Line)
    BY DEF TypeOK
<1> QED BY <1>1, LinesAre DEF LinesOf

\* Entries of one file are told apart and ordered by their line numbers.
LEMMA EntriesInOrder ==
    ASSUME IInv, LogInOrder, EntriesInLimit, ~stale, NEW n \in DOMAIN logfiles
    PROVE  /\ \A e \in logfiles[n].entries :
                /\ e.lineno \in DOMAIN files[n] /\ e.lineno \in Nat /\ e.lineno <= MaxLines
                /\ e.line = files[n][e.lineno] /\ e = EntryOf(n, e.lineno)
                /\ e.line \in LinesOf(n) /\ e.line.time \in Nat /\ e.line.id \in Nat
           /\ \A d, e \in logfiles[n].entries :
                /\ d.lineno < e.lineno => d.line.id < e.line.id /\ d.line.time <= e.line.time
                /\ d.lineno = e.lineno => d = e
                /\ d.line = e.line => d = e
<1>1. n \in Names /\ files[n] \in Seq(Line)
    BY DEF IInv, TypeOK
<1>2. ASSUME NEW e \in logfiles[n].entries
      PROVE  /\ e.lineno \in DOMAIN files[n] /\ e.lineno \in Nat /\ e.lineno <= MaxLines
             /\ e.line = files[n][e.lineno] /\ e = EntryOf(n, e.lineno)
             /\ e.line \in LinesOf(n) /\ e.line.time \in Nat /\ e.line.id \in Nat
    <2>1. e \in LinesIn(files[n]) /\ e.lineno <= MaxLines
        BY <1>2 DEF IInv, EntriesAreLines, EntriesInLimit
    <2>2. PICK i \in DOMAIN files[n] : e = [lineno |-> i, line |-> files[n][i]]
        BY <2>1 DEF LinesIn
    <2>3. e.lineno = i /\ e.line = files[n][i] /\ e = EntryOf(n, i)
        BY <2>2 DEF EntryOf
    <2>4. i \in Nat /\ files[n][i].time \in Nat /\ files[n][i].id \in Nat
        BY <1>1, LinesAre
    <2> QED BY <2>1, <2>3, <2>4 DEF LinesOf
<1>3. ASSUME NEW d \in logfiles[n].entries, NEW e \in logfiles[n].entries, d.lineno < e.lineno
      PROVE  d.line.id < e.line.id /\ d.line.time <= e.line.time
    <2>1. PICK i \in DOMAIN files[n], j \in DOMAIN files[n] :
            i = d.lineno /\ j = e.lineno /\ d.line = files[n][i] /\ e.line = files[n][j]
        BY <1>2
    <2> QED BY <1>1, <1>3, <2>1 DEF LogInOrder
<1>4. ASSUME NEW d \in logfiles[n].entries, NEW e \in logfiles[n].entries, d.lineno = e.lineno
      PROVE  d = e
    BY <1>2, <1>4
<1>5. ASSUME NEW d \in logfiles[n].entries, NEW e \in logfiles[n].entries, d.line = e.line
      PROVE  d = e
    <2>1. /\ d.lineno \in Nat /\ e.lineno \in Nat /\ d.line.id \in Nat
          /\ ~(d.lineno < e.lineno) /\ ~(e.lineno < d.lineno)
        BY <1>2, <1>3, <1>5
    <2> QED BY <1>4, <2>1
<1> QED BY <1>2, <1>3, <1>4, <1>5

\* A logfile that is delivered adds its lines to those of the newer ones: all
\* that the query asks for, or as many of the newest as there is room for.
LEMMA DeliverIs ==
    ASSUME IInv, LogInOrder, FilesAreIndexed, EntriesInLimit, ReadyToDeliver, BeforeIsHeld,
           NewerAreDone, ~stale, ~skipped, Deliver
    PROVE  /\ IsFiniteSet(result') /\ Cardinality(result') <= query.limit
           /\ \A line \in result' : /\ Matches(query, line)
                                    /\ \E n \in NewerThan(at) \cup {at} : line \in LinesOf(n)
           /\ \A n \in NewerThan(at) : LinesOf(n) \cap before \subseteq result'
           /\ \/ /\ LinesOf(at) \cap before \subseteq result'
                 /\ \/ /\ pc' = "answered"
                       /\ \/ OlderThan(at) = {}
                          \/ \E line \in LinesOf(at) : line.time < query.since
                    \/ /\ OlderThan(at) # {}
                       /\ pc' = "visit" /\ at' = NewestOf(OlderThan(at))
              \/ /\ pc' = "answered" /\ Cardinality(result') = query.limit
                 /\ \A line \in (LinesOf(at) \cap before) \ result' : \A r \in result' : r.id > line.id
<1> DEFINE Later(d, e) == \/ d.line.time > e.line.time
                          \/ d.line.time = e.line.time /\ d.lineno > e.lineno
<1>1. PICK entries, accepted : /\ entries = logfiles[at].entries
                               /\ accepted = {e \in entries : Matches(query, e.line)}
    OBVIOUS
<1>2. at \in DOMAIN logfiles /\ at \in Names /\ pc = "deliver"
    BY DEF IInv, IndexInOrder, TypeOK, Deliver
<1>3. /\ IsFiniteSet(result) /\ Cardinality(result) <= query.limit
      /\ \A line \in result :
            Matches(query, line) /\ \E n \in NewerThan(at) : line \in LinesOf(n)
      /\ \A n \in NewerThan(at) : LinesOf(n) \cap before \subseteq result
    BY <1>2 DEF NewerAreDone
<1>4. Cardinality(result) \in Nat /\ query.limit \in Nat
    BY <1>3, FS_CardinalityType, QueriesAre DEF IInv, TypeOK
<1>5. PICK room \in Nat : room = query.limit - Cardinality(result)
    <2>1. query.limit - Cardinality(result) \in Nat
        BY <1>3, <1>4
    <2> QED BY <2>1
<1>6. IsFiniteSet(accepted) /\ Cardinality(accepted) \in Nat
    <2>1. IsFiniteSet(entries) /\ accepted \in SUBSET entries
        BY <1>1, <1>2 DEF IInv, FiniteEntries
    <2> QED BY <2>1, FS_Subset, FS_CardinalityType
<1>7. /\ \A e \in accepted :
            /\ e \in entries /\ Matches(query, e.line)
            /\ e.lineno \in DOMAIN files[at] /\ e.lineno \in Nat /\ e.lineno <= MaxLines
            /\ e.line = files[at][e.lineno] /\ e = EntryOf(at, e.lineno)
            /\ e.line \in LinesOf(at) /\ e.line.time \in Nat /\ e.line.id \in Nat
      /\ \A d, e \in accepted :
            /\ d.lineno < e.lineno => d.line.id < e.line.id /\ d.line.time <= e.line.time
            /\ d.lineno = e.lineno => d = e
            /\ d.line = e.line => d = e
    BY <1>1, <1>2, EntriesInOrder
<1>8. PICK R : R = {p \in accepted \X accepted : Later(p[1], p[2])}
    OBVIOUS
<1>9. \A d, e \in accepted : <<d, e>> \in R <=> d.lineno > e.lineno
    <2>1. ASSUME NEW d \in accepted, NEW e \in accepted
          PROVE  Later(d, e) <=> d.lineno > e.lineno
        <3>1. /\ d.lineno \in Nat /\ e.lineno \in Nat /\ d.line.time \in Nat /\ e.line.time \in Nat
              /\ d.lineno < e.lineno => d.line.time <= e.line.time
              /\ e.lineno < d.lineno => e.line.time <= d.line.time
              /\ d.lineno = e.lineno => d = e
            BY <1>7, <2>1
        <3> QED BY <3>1
    <2>2. \A d, e \in accepted : <<d, e>> \in R <=> Later(d, e)
        BY <1>8
    <2> QED BY <2>1, <2>2
<1>10. Orders(R, accepted)
    <2>1. \A e \in accepted : e.lineno \in Nat
        BY <1>7
    <2>2. \A d, e \in accepted : d # e => d.lineno # e.lineno
        BY <1>7
    <2> QED BY <1>9, <2>1, <2>2 DEF Orders
<1>11. PICK taken : taken = FirstOf(room, R, accepted)
    OBVIOUS
<1>12. taken \in SUBSET accepted /\ IsFiniteSet(taken) /\ Cardinality(taken) \in Nat
    <2>1. taken \in SUBSET accepted
        BY <1>11 DEF FirstOf
    <2> QED BY <1>6, <2>1, FS_Subset, FS_CardinalityType
<1>13. PICK lines : lines = {e.line : e \in taken}
    OBVIOUS
<1>14. result' = result \cup lines
    <2>1. \A e \in accepted : {d \in accepted : Later(d, e)} = Preceding(e, R, accepted)
        BY <1>8 DEF Preceding
    <2>2. result' = result \cup {e.line : e \in
                        {e \in accepted : Cardinality({d \in accepted : Later(d, e)}) < room}}
        BY <1>1, <1>5 DEF Deliver
    <2>3. {e \in accepted : Cardinality({d \in accepted : Later(d, e)}) < room} = taken
        BY <1>11, <2>1 DEF FirstOf
    <2> QED BY <1>13, <2>2, <2>3
<1>15. \/ Cardinality(accepted) <= room /\ taken = accepted
       \/ Cardinality(accepted) > room /\ Cardinality(taken) = room
    <2>1. CASE Cardinality(accepted) <= room
        <3>1. \A e \in accepted :
                /\ Cardinality(Preceding(e, R, accepted)) < Cardinality(accepted)
                /\ Cardinality(Preceding(e, R, accepted)) \in Nat
            BY <1>6, <1>10, PrecedingIs
        <3>2. \A e \in accepted : Cardinality(Preceding(e, R, accepted)) < room
            BY <1>6, <2>1, <3>1
        <3> QED BY <1>11, <2>1, <3>2 DEF FirstOf
    <2>2. CASE Cardinality(accepted) > room
        BY <1>6, <1>10, <1>11, <2>2, FirstAreCounted
    <2> QED BY <1>6, <2>1, <2>2
<1>16. IsFiniteSet(lines) /\ Cardinality(lines) = Cardinality(taken)
    <2>1. PICK g : g = [e \in taken |-> e.line]
        OBVIOUS
    <2>2. \A d, e \in taken : g[d] = g[e] => d = e
        BY <1>7, <1>12, <2>1
    <2>3. \A line \in lines : \E e \in taken : g[e] = line
        BY <1>13, <2>1
    <2>4. g \in [taken -> lines]
        BY <1>13, <2>1
    <2>5. g \in Bijection(taken, lines)
        BY <2>2, <2>3, <2>4 DEF Bijection, Injection, Surjection, IsInjective
    <2>6. ExistsBijection(taken, lines)
        BY <2>5 DEF ExistsBijection
    <2> QED BY <1>12, <2>6, FS_Bijection
<1>17. ASSUME NEW r \in result, NEW line \in LinesOf(at)
       PROVE  r.id > line.id /\ r # line
    <2>1. PICK n \in NewerThan(at) : r \in LinesOf(n)
        BY <1>3
    <2>2. n \in DOMAIN logfiles /\ Since(at) < Since(n) /\ n \in Names
        <3>1. n \in DOMAIN logfiles /\ Since(n) > Since(at)
            BY <2>1 DEF NewerThan
        <3>2. Since(n) \in Nat /\ Since(at) \in Nat
            BY <1>2, <3>1 DEF Since, IInv, TypeOK, Logfile
        <3> QED BY <3>1, <3>2 DEF IInv, TypeOK
    <2>3. line.id < r.id
        BY <1>2, <1>17, <2>1, <2>2, FilesFollow
    <2>4. line.id \in Nat /\ r.id \in Nat
        BY <1>2, <1>17, <2>1, <2>2, LinesOfType DEF IInv
    <2> QED BY <2>3, <2>4
<1>18. /\ IsFiniteSet(result')
       /\ Cardinality(result') = Cardinality(result) + Cardinality(taken)
    <2>1. result \cap lines = {}
        BY <1>7, <1>12, <1>13, <1>17
    <2>2. /\ IsFiniteSet(result \cup lines)
          /\ Cardinality(result \cup lines) =
                Cardinality(result) + Cardinality(lines) - Cardinality(result \cap lines)
        BY <1>3, <1>16, FS_Union
    <2>3. Cardinality(result \cap lines) = 0
        BY <2>1, FS_EmptySet
    <2> QED BY <1>4, <1>12, <1>14, <1>16, <2>2, <2>3
<1>19. /\ Cardinality(result') <= query.limit
       /\ Cardinality(accepted) > room => Cardinality(result') = query.limit
    <2>1. Cardinality(taken) <= room
        BY <1>12, <1>15
    <2> QED BY <1>4, <1>5, <1>6, <1>12, <1>15, <1>18, <2>1
<1>20. \A line \in result' : /\ Matches(query, line)
                             /\ \E n \in NewerThan(at) \cup {at} : line \in LinesOf(n)
    BY <1>3, <1>7, <1>12, <1>13, <1>14
<1>21. \A n \in NewerThan(at) : LinesOf(n) \cap before \subseteq result'
    BY <1>3, <1>14
<1>22. ASSUME NEW line \in LinesOf(at), line \in before
       PROVE  \E e \in accepted : e.line = line
    <2>1. PICK i \in DOMAIN files[at] : i <= MaxLines /\ line = files[at][i]
        BY DEF LinesOf
    <2>2. EntryOf(at, i) \in entries
        BY <1>1, <1>2, <1>22, <2>1 DEF ReadyToDeliver
    <2>3. Matches(query, line)
        BY <1>2, <1>22, HeldWritten DEF BeforeIsHeld
    <2>4. EntryOf(at, i).line = line
        BY <2>1 DEF EntryOf
    <2> QED BY <1>1, <2>2, <2>3, <2>4
<1>23. CASE Cardinality(accepted) <= room
    <2>1. LinesOf(at) \cap before \subseteq result'
        BY <1>6, <1>13, <1>14, <1>15, <1>22, <1>23
    <2>2. IF (\E e \in entries : e.line.time < query.since) \/ OlderThan(at) = {}
          THEN pc' = "answered"
          ELSE pc' = "visit" /\ at' = NewestOf(OlderThan(at))
        <3>1. ~(Cardinality(accepted) > room)
            BY <1>6, <1>23
        <3> QED BY <1>1, <1>5, <3>1 DEF Deliver, Goto
    <2>3. ASSUME NEW e \in entries
          PROVE  e.line \in LinesOf(at)
        BY <1>1, <1>2, EntriesInOrder
    <2> QED BY <1>18, <1>19, <1>20, <1>21, <2>1, <2>2, <2>3
<1>24. CASE Cardinality(accepted) > room
    <2>1. pc' = "answered"
        BY <1>1, <1>5, <1>24 DEF Deliver, Goto
    <2>2. ASSUME NEW line \in LinesOf(at), line \in before, line \notin result', NEW r \in result'
          PROVE  r.id > line.id
        <3>1. CASE r \in result
            BY <1>17, <2>2, <3>1
        <3>2. CASE r \in lines
            <4>1. PICK d \in taken : r = d.line
                BY <1>13, <3>2
            <4>2. PICK e \in accepted : e.line = line
                BY <1>22, <2>2
            <4>3. e \notin taken
                BY <1>13, <1>14, <2>2, <4>2
            <4>4. <<d, e>> \in R
                BY <1>6, <1>10, <1>11, <4>1, <4>2, <4>3, FirstPrecede
            <4>5. d \in accepted
                BY <1>12, <4>1
            <4>6. e.lineno < d.lineno
                BY <1>7, <1>9, <4>2, <4>4, <4>5
            <4>7. e.line.id < d.line.id /\ e.line.id \in Nat /\ d.line.id \in Nat
                BY <1>7, <4>2, <4>5, <4>6
            <4> QED BY <4>1, <4>2, <4>7
        <3> QED BY <1>14, <2>2, <3>1, <3>2
    <2>3. \A line \in (LinesOf(at) \cap before) \ result' : \A r \in result' : r.id > line.id
        BY <2>2
    <2> QED BY <1>18, <1>19, <1>20, <1>21, <1>24, <2>1, <2>3
<1> QED BY <1>6, <1>23, <1>24

-----------------------------------------------------------------------------
(* What was found so far                                                   *)

\* A file begins with its earliest line.
LEMMA FirstIsEarliest ==
    ASSUME TypeOK, LogInOrder, NEW n \in Names, NEW line \in LinesOf(n)
    PROVE  /\ files[n] # <<>>
           /\ Head(files[n]).time \in Nat /\ line.time \in Nat
           /\ Head(files[n]).time <= line.time
<1>1. PICK i \in DOMAIN files[n] : line = files[n][i]
    BY DEF LinesOf
<1>2. PICK f \in Seq(Line) : f = files[n]
    BY DEF TypeOK
<1>3. i \in Nat /\ i >= 1 /\ 1 \in DOMAIN f /\ f # <<>> /\ f[i].time \in Nat
    BY <1>1, <1>2, LinesAre
<1>4. Head(f) = f[1] /\ Head(f).time \in Nat
    BY <1>2, <1>3, LinesAre
<1>5. CASE i = 1
    BY <1>1, <1>2, <1>3, <1>4, <1>5
<1>6. CASE 1 < i
    BY <1>1, <1>2, <1>3, <1>4, <1>6 DEF LogInOrder
<1> QED BY <1>3, <1>5, <1>6

\* A file that begins too late for a query has none of its lines.
LEMMA NoneTooLate ==
    ASSUME TypeOK, LogInOrder, NEW q \in Queries, NEW n \in Names,
           ~(Head(files[n]).time < q.until)
    PROVE  LinesOf(n) \cap Held(q) = {}
<1>1. SUFFICES ASSUME NEW line \in LinesOf(n), line \in Held(q)
               PROVE  FALSE
    OBVIOUS
<1>2. line.time < q.until /\ q.until \in Nat
    BY <1>1, HeldWritten, QueriesAre DEF Matches
<1>3. Head(files[n]).time \in Nat /\ line.time \in Nat /\ Head(files[n]).time <= line.time
    BY FirstIsEarliest
<1> QED BY <1>2, <1>3

\* A file has what it had of the lines a query is to find, and no other ones.
LEMMA SoughtKept ==
    ASSUME TypeOK, FilesInOrder, LogInOrder, BeforeIsHeld, ~stale, pc # "idle",
           [Next]_vars, ~Rotate, NEW n \in Names, NEW lines,
           lines = {files'[n][i] : i \in {j \in DOMAIN files'[n] : j <= MaxLines}}
    PROVE  LinesOf(n) \subseteq lines /\ lines \cap before \subseteq LinesOf(n)
<1>1. LinesOf(n) \subseteq lines
    BY LinesOfGrow
<1>2. ASSUME NEW line \in lines, line \in before
      PROVE  line \in LinesOf(n)
    <2>1. PICK i \in DOMAIN files'[n] : i <= MaxLines /\ line = files'[n][i]
        OBVIOUS
    <2>2. line.id <= logged /\ logged \in Nat
        BY <1>2, HeldWritten DEF BeforeIsHeld, TypeOK
    <2>3. line.id # logged + 1
        BY <2>2
    <2>4. i \in DOMAIN files[n]
        BY <2>1, <2>3, LinesKept
    <2>5. Prefix(files[n], files'[n])
        BY LinesKept
    <2>6. files'[n][i] = files[n][i]
        BY <2>4, <2>5 DEF Prefix
    <2> QED BY <2>1, <2>4, <2>6 DEF LinesOf
<1> QED BY <1>1, <1>2

LEMMA NothingStep ==
    ASSUME NothingYet, [Next]_vars
    PROVE  NothingYet'
<1>1. CASE Log \/ Tick \/ Rotate \/ UNCHANGED vars
    BY <1>1, CoreStepIs DEF NothingYet
<1>2. CASE Finish
    BY <1>2 DEF Finish, NothingYet
<1>3. CASE Begin \/ Visit \/ ReadLine \/ GrownEnd \/ MissingEnd \/ Deliver
    <2>1. pc' # "idle"
        BY <1>3 DEF Begin, Search, Visit, ReadLine, GrownEnd, MissingEnd, Deliver, Goto
    <2> QED BY <2>1 DEF NothingYet
<1> QED BY <1>1, <1>2, <1>3 DEF Next

LEMMA NewerStep ==
    ASSUME IInv, IInv', LogInOrder, FilesAreIndexed, FilesAreIndexed', EntriesInLimit,
           ReadyToDeliver, BeforeIsHeld, NewerAreDone, NothingYet, [Next]_vars
    PROVE  NewerAreDone'
<1> DEFINE Lines(n) == {files'[n][i] : i \in {j \in DOMAIN files'[n] : j <= MaxLines}}
<1>1. TypeOK /\ FilesInOrder /\ IndexInOrder /\ at \in DOMAIN logfiles /\ DOMAIN logfiles \subseteq Names
    BY DEF IInv, TypeOK, IndexInOrder
<1>2. PICK next : next = logfiles'
    OBVIOUS
<1>3. PICK N : N = {n \in DOMAIN next : next[n].since > next[at'].since}
    OBVIOUS
<1>4. NewerThan(at)' = N
    BY <1>2, <1>3 DEF NewerThan, Since
<1>5. SUFFICES ASSUME ~stale', ~skipped', pc' \in {"visit", "grown", "missing", "deliver"}
               PROVE  /\ IsFiniteSet(result') /\ Cardinality(result') <= query'.limit
                      /\ \A line \in result' :
                            Matches(query', line) /\ \E n \in N : line \in Lines(n)
                      /\ \A n \in N : Lines(n) \cap before' \subseteq result'
    <2>1. \A n : LinesOf(n)' = Lines(n)
        BY DEF LinesOf
    <2>2. \A line : Matches(query, line)' <=> Matches(query', line)
        BY DEF Matches
    <2> QED BY <1>4, <1>5, <2>1, <2>2 DEF NewerAreDone
<1>6. ~Rotate
    BY <1>5 DEF Rotate
<1>7. ASSUME at' = at, result' = result, before' = before, query' = query, ~stale, ~skipped,
             pc \in {"visit", "grown", "missing", "deliver"},
             DOMAIN next = DOMAIN logfiles, \A n \in DOMAIN logfiles : next[n].since = logfiles[n].since
      PROVE  /\ IsFiniteSet(result') /\ Cardinality(result') <= query'.limit
             /\ \A line \in result' :
                    Matches(query', line) /\ \E n \in N : line \in Lines(n)
             /\ \A n \in N : Lines(n) \cap before' \subseteq result'
    <2>1. N = NewerThan(at) /\ N \subseteq Names
        BY <1>1, <1>3, <1>7 DEF NewerThan, Since
    <2>2. \A n \in N : LinesOf(n) \subseteq Lines(n) /\ Lines(n) \cap before \subseteq LinesOf(n)
        <3>1. ASSUME NEW n \in N
              PROVE  LinesOf(n) \subseteq Lines(n) /\ Lines(n) \cap before \subseteq LinesOf(n)
            <4>1. n \in Names /\ pc # "idle" /\ ~stale
                BY <1>7, <2>1, <3>1
            <4>2. PICK lines : lines = Lines(n)
                OBVIOUS
            <4>3. LinesOf(n) \subseteq lines /\ lines \cap before \subseteq LinesOf(n)
                BY <1>1, <1>6, <4>1, <4>2, SoughtKept
            <4> QED BY <4>2, <4>3
        <3> QED BY <3>1
    <2>3. /\ IsFiniteSet(result) /\ Cardinality(result) <= query.limit
          /\ \A line \in result :
                Matches(query, line) /\ \E n \in N : line \in LinesOf(n)
          /\ \A n \in N : LinesOf(n) \cap before \subseteq result
        BY <1>7, <2>1 DEF NewerAreDone
    <2> QED BY <1>7, <2>2, <2>3
<1>8. CASE Log \/ Tick \/ Rotate \/ UNCHANGED vars
    BY <1>2, <1>5, <1>6, <1>7, <1>8, CoreStepIs
<1>9. CASE Visit \/ GrownEnd \/ MissingEnd
    <2>1. /\ at' = at /\ result' = result /\ before' = before /\ query' = query /\ stale' = stale
          /\ pc \in {"visit", "grown", "missing", "deliver"}
        BY <1>9 DEF Visit, GrownEnd, MissingEnd
    <2>2. ~skipped
        BY <1>5, <1>9 DEF Visit, GrownEnd, MissingEnd
    <2>3. SameEntries(logfiles, next)
        BY <1>1, <1>2, <1>9, LoadStepIs
    <2> QED BY <1>5, <1>7, <2>1, <2>2, <2>3 DEF SameEntries
<1>10. CASE ReadLine
    <2>1. /\ at' = at /\ result' = result /\ before' = before /\ query' = query /\ stale' = stale
          /\ skipped' = skipped /\ pc \in {"visit", "grown", "missing", "deliver"}
        BY <1>10 DEF ReadLine
    <2>2. /\ DOMAIN next = DOMAIN logfiles
          /\ \A n \in DOMAIN logfiles : next[n].since = logfiles[n].since
        BY <1>2, <1>10, LineHandled DEF IInv
    <2> QED BY <1>5, <1>7, <2>1, <2>2
<1>11. CASE Begin
    <2>1. files' = files /\ result' = {} /\ pc' = "visit"
        BY <1>5, <1>11 DEF Begin, Search, Goto, disk, NothingYet
    <2>2. PICK q \in Queries : query' = q /\ before' = Held(q) /\ Search(q, next)
        BY <1>2, <1>11 DEF Begin
    <2>3. /\ DOMAIN next = {n \in Names : files[n] # <<>>}
          /\ \A n \in DOMAIN next : next[n].since = Head(files[n]).time
        BY <1>2, <1>5, <2>1 DEF FilesAreIndexed, Since
    <2>4. Current \in DOMAIN next
        BY <1>2 DEF IInv, IndexInOrder
    <2>5. at' \in DOMAIN next /\ \A m \in DOMAIN next : next[m].since < q.until => next[m].since <= next[at'].since
        BY <2>1, <2>2, <2>4, SearchIs
    <2>6. ASSUME NEW n \in N
          PROVE  LinesOf(n) \cap Held(q) = {}
        <3>1. PICK o \in DOMAIN next : o = at'
            BY <2>5
        <3>2. n \in Names /\ n \in DOMAIN next /\ files[n] # <<>> /\ o \in Names /\ files[o] # <<>>
            BY <1>3, <2>3, <3>1
        <3>3. next[n].since \in Nat /\ next[o].since \in Nat
            BY <1>1, <2>3, <3>2, FirstLine DEF TypeOK
        <3>4. next[n].since > next[o].since
            BY <1>3, <3>1
        <3>5. ~(next[n].since < q.until)
            BY <2>5, <3>1, <3>2, <3>3, <3>4
        <3> QED BY <1>1, <2>3, <3>2, <3>5, NoneTooLate
    <2>7. \A n : Lines(n) = LinesOf(n)
        BY <2>1 DEF LinesOf
    <2>8. Cardinality(result') = 0 /\ IsFiniteSet(result') /\ q.limit \in Nat
        BY <2>1, FS_EmptySet, QueriesAre
    <2>9. Cardinality(result') <= query'.limit
        BY <2>2, <2>8
    <2> QED BY <2>1, <2>2, <2>6, <2>7, <2>8, <2>9
<1>12. CASE Deliver
    <2>1. /\ files' = files /\ next = logfiles /\ before' = before /\ query' = query
          /\ ~stale /\ ~skipped /\ pc' # "answered"
        BY <1>2, <1>5, <1>12 DEF Deliver, disk, cache
    <2>2. /\ IsFiniteSet(result') /\ Cardinality(result') <= query.limit
          /\ \A line \in result' : /\ Matches(query, line)
                                   /\ \E n \in NewerThan(at) \cup {at} : line \in LinesOf(n)
          /\ \A n \in NewerThan(at) : LinesOf(n) \cap before \subseteq result'
          /\ LinesOf(at) \cap before \subseteq result'
          /\ OlderThan(at) # {} /\ at' = NewestOf(OlderThan(at))
        BY <1>12, <2>1, DeliverIs
    <2>3. PICK o : o = NewestOf(OlderThan(at))
        OBVIOUS
    <2>4. OlderThan(at) \subseteq DOMAIN logfiles
        BY DEF OlderThan
    <2>5. o \in OlderThan(at) /\ \A m \in OlderThan(at) : Since(m) <= Since(o)
        BY <1>1, <2>2, <2>3, <2>4, NewestIs
    <2>6. N = {n \in DOMAIN logfiles : Since(n) > Since(o)}
        BY <1>3, <2>1, <2>2, <2>3 DEF Since
    <2>7. \A n \in DOMAIN logfiles : Since(n) \in Nat
        BY <1>1 DEF TypeOK, Logfile, Since
    <2>8. Since(o) < Since(at) /\ o \in DOMAIN logfiles
        BY <2>5 DEF OlderThan
    <2>9. ASSUME NEW n \in DOMAIN logfiles
          PROVE  n \in N <=> n \in NewerThan(at) \cup {at}
        <3>1. CASE n \in OlderThan(at)
            <4>1. Since(n) < Since(at) /\ Since(n) <= Since(o)
                BY <2>5, <3>1 DEF OlderThan
            <4> QED BY <1>1, <2>6, <2>7, <2>8, <4>1 DEF NewerThan
        <3>2. CASE n \notin OlderThan(at)
            <4>1. Since(n) >= Since(at)
                BY <1>1, <2>7, <3>2 DEF OlderThan
            <4>2. Since(n) > Since(at) \/ n = at
                BY <1>1, <2>7, <4>1 DEF IndexInOrder
            <4>3. Since(n) > Since(o)
                BY <1>1, <2>7, <2>8, <4>1
            <4> QED BY <2>6, <4>2, <4>3 DEF NewerThan
        <3> QED BY <3>1, <3>2
    <2>10. N = NewerThan(at) \cup {at}
        BY <1>1, <2>6, <2>9 DEF NewerThan
    <2>11. \A n : Lines(n) = LinesOf(n)
        BY <2>1 DEF LinesOf
    <2> QED BY <2>1, <2>2, <2>10, <2>11
<1>13. CASE Finish
    BY <1>5, <1>13 DEF Finish, Goto
<1> QED BY <1>8, <1>9, <1>10, <1>11, <1>12, <1>13 DEF Next

-----------------------------------------------------------------------------
(* The answer                                                              *)

\* What a query has found when it ends, told apart from when it ends.
Answers(found, asked, sought, held) ==
    /\ found \subseteq held
    /\ Cardinality(found) <= asked.limit
    /\ \A line \in sought \ found :
        /\ Cardinality(found) = asked.limit
        /\ \A r \in found : r.id > line.id

\* The query ends at the file at when the lines of at and older are too early.
LEMMA OlderAreTooEarly ==
    ASSUME IInv, LogInOrder, FilesAreIndexed, BeforeIsHeld, ~stale, pc # "idle",
           NEW last, last \in DOMAIN files[at], files[at][last].time < query.since,
           NEW n \in DOMAIN logfiles, NEW line \in LinesOf(n), line \in before,
           n = at => last = Len(files[at])
    PROVE  n \in NewerThan(at)
<1>1. /\ at \in DOMAIN logfiles /\ at \in Names /\ n \in Names
      /\ files[at] \in Seq(Line) /\ files[n] \in Seq(Line)
      /\ Since(n) \in Nat /\ Since(at) \in Nat
    BY DEF IInv, IndexInOrder, TypeOK, Logfile, Since
<1>2. PICK i \in DOMAIN files[n] : line = files[n][i]
    BY DEF LinesOf
<1>3. query.since <= line.time
    BY HeldWritten DEF BeforeIsHeld, Matches
<1>4. line.time \in Nat /\ files[at][last].time \in Nat /\ query.since \in Nat
    BY <1>1, <1>2, LinesAre, QueriesAre DEF IInv, TypeOK
<1>5. ~(line.time <= files[at][last].time)
    BY <1>3, <1>4
<1>6. CASE n = at
    <2>1. last = Len(files[at]) /\ i \in Nat /\ i <= Len(files[at]) /\ Len(files[at]) \in Nat
        BY <1>1, <1>2, <1>5, <1>6, LinesAre
    <2>2. i = last \/ i < last
        BY <2>1
    <2>3. i < last => line.time <= files[at][last].time
        BY <1>1, <1>2, <1>6 DEF LogInOrder
    <2> QED BY <1>2, <1>4, <1>5, <1>6, <2>2, <2>3
<1>7. CASE n # at /\ Since(n) < Since(at)
    <2>1. Head(files[n]).time < Head(files[at]).time
        BY <1>1, <1>7 DEF FilesAreIndexed
    <2>2. line.time <= files[at][last].time
        BY <1>1, <1>2, <2>1 DEF LogInOrder
    <2> QED BY <1>5, <2>2
<1>8. CASE n # at /\ ~(Since(n) < Since(at))
    <2>1. Since(n) # Since(at)
        BY <1>1, <1>8 DEF IInv, IndexInOrder
    <2> QED BY <1>1, <1>8, <2>1 DEF NewerThan
<1> QED BY <1>6, <1>7, <1>8

LEMMA AnswerStep ==
    ASSUME IInv, IInv', LogInOrder, FilesAreIndexed, FilesAreIndexed', EntriesInLimit,
           ReadyToDeliver, BeforeIsHeld, NewerAreDone, NothingYet, AnswerIsLog, [Next]_vars
    PROVE  AnswerIsLog'
<1>1. /\ TypeOK /\ FilesInOrder /\ IndexInOrder /\ at \in DOMAIN logfiles /\ at \in Names
      /\ DOMAIN logfiles \subseteq Names
    BY DEF IInv, TypeOK, IndexInOrder
<1>2. PICK held : held = Held(query)'
    OBVIOUS
<1>3. SUFFICES ASSUME ~stale', ~skipped', pc' = "answered"
               PROVE  Answers(result', query', before', held)
    BY <1>2 DEF AnswerIsLog, Answers
<1>4. ~Rotate
    BY <1>3 DEF Rotate
<1>5. ASSUME query' = query
      PROVE  Held(query) \subseteq held
    <2>1. SUFFICES ASSUME NEW line \in Held(query)
                   PROVE  line \in Held(query)'
        BY <1>2
    <2>2. PICK n \in Names : line \in LinesOf(n)
        BY DEF Held
    <2>3. line \in LinesOf(n)'
        BY <1>1, <1>4, <2>2, LinesOfGrow DEF LinesOf
    <2>4. Matches(query, line)
        BY DEF Held
    <2> QED BY <1>5, <2>3, <2>4 DEF Held, Matches
<1>6. CASE Log \/ Tick \/ Rotate \/ UNCHANGED vars
    <2>1. /\ pc = "answered" /\ result' = result /\ before' = before /\ query' = query
          /\ ~stale /\ ~skipped
        BY <1>3, <1>4, <1>6, CoreStepIs
    <2>2. Held(query) \subseteq held
        BY <1>5, <2>1
    <2> QED BY <2>1, <2>2 DEF AnswerIsLog, Answers
<1>7. CASE Begin
    <2>1. files' = files /\ result' = {}
        BY <1>7 DEF Begin, disk, NothingYet
    <2>2. PICK q \in Queries : query' = q /\ before' = Held(q) /\ Search(q, logfiles')
        BY <1>7 DEF Begin
    <2>3. PICK next : next = logfiles'
        OBVIOUS
    <2>4. /\ DOMAIN next = {n \in Names : files[n] # <<>>}
          /\ \A n \in DOMAIN next : next[n].since = Head(files[n]).time
        BY <1>3, <2>1, <2>3 DEF FilesAreIndexed, Since
    <2>5. Current \in DOMAIN next
        BY <2>3 DEF IInv, IndexInOrder
    <2>6. \/ q.classes = {}
          \/ \A m \in DOMAIN next : ~(next[m].since < q.until)
        BY <1>3, <2>2, <2>3, <2>5, SearchIs
    <2>7. ASSUME NEW line \in Held(q)
          PROVE  FALSE
        <3>1. PICK n \in Names : line \in LinesOf(n)
            BY DEF Held
        <3>2. line.class \in q.classes
            BY HeldWritten DEF Matches
        <3>3. files[n] # <<>>
            BY <3>1 DEF LinesOf
        <3>4. n \in DOMAIN next /\ ~(Head(files[n]).time < q.until)
            BY <2>4, <2>6, <3>2, <3>3
        <3> QED BY <1>1, <2>7, <3>1, <3>4, NoneTooLate
    <2>8. before' = {}
        BY <2>2, <2>7
    <2>9. Cardinality(result') = 0 /\ q.limit \in Nat
        BY <2>1, FS_EmptySet, QueriesAre
    <2>10. Cardinality(result') <= query'.limit
        BY <2>2, <2>9
    <2> QED BY <2>1, <2>8, <2>10 DEF Answers
<1>8. CASE Visit
    <2>1. /\ result' = result /\ before' = before /\ query' = query /\ stale' = stale
          /\ skipped' = skipped /\ pc = "visit" /\ files' = files
          /\ End(at) > 0 /\ End(at) < query.since
        BY <1>3, <1>8 DEF Visit, disk
    <2>2. /\ IsFiniteSet(result) /\ Cardinality(result) <= query.limit
          /\ \A line \in result :
                Matches(query, line) /\ \E n \in NewerThan(at) : line \in LinesOf(n)
          /\ \A n \in NewerThan(at) : LinesOf(n) \cap before \subseteq result
        BY <1>3, <2>1 DEF NewerAreDone
    <2>3. result \subseteq Held(query)
        BY <1>1, <2>2 DEF NewerThan, Held
    <2>4. PICK last : last = Len(files[at])
        OBVIOUS
    <2>5. last \in DOMAIN files[at] /\ files[at][last].time < query.since
        <3>1. PICK f \in Seq(Line) : f = files[at]
            BY <1>1 DEF TypeOK
        <3>2. Len(f) \in Nat /\ DOMAIN f = 1 .. Len(f)
            BY <3>1, LinesAre
        <3>3. Len(f) > 1 /\ f[Len(f)].time < query.since
            BY <2>1, <3>1, <3>2 DEF End
        <3> QED BY <2>4, <3>1, <3>2, <3>3
    <2>6. ASSUME NEW line \in before
          PROVE  line \in result
        <3>1. line \in Held(query)
            BY <1>3, <2>1, <2>6 DEF BeforeIsHeld
        <3>2. PICK n \in DOMAIN logfiles : line \in LinesOf(n)
            BY <1>3, <2>1, <3>1, HeldIndexed
        <3>3. n \in NewerThan(at)
            BY <1>3, <2>1, <2>4, <2>5, <2>6, <3>2, OlderAreTooEarly
        <3> QED BY <2>2, <2>6, <3>2, <3>3
    <2> QED BY <1>5, <2>1, <2>2, <2>3, <2>6 DEF Answers
<1>9. CASE Deliver
    <2>1. /\ files' = files /\ before' = before /\ query' = query /\ pc = "deliver"
          /\ ~stale /\ ~skipped
        BY <1>3, <1>9 DEF Deliver, disk
    <2>2. /\ IsFiniteSet(result') /\ Cardinality(result') <= query.limit
          /\ \A line \in result' : /\ Matches(query, line)
                                   /\ \E n \in NewerThan(at) \cup {at} : line \in LinesOf(n)
          /\ \A n \in NewerThan(at) : LinesOf(n) \cap before \subseteq result'
          /\ \/ /\ LinesOf(at) \cap before \subseteq result'
                /\ \/ OlderThan(at) = {}
                   \/ \E line \in LinesOf(at) : line.time < query.since
             \/ /\ Cardinality(result') = query.limit
                /\ \A line \in (LinesOf(at) \cap before) \ result' : \A r \in result' : r.id > line.id
        BY <1>3, <1>9, <2>1, DeliverIs
    <2>3. result' \subseteq Held(query)
        BY <1>1, <2>2 DEF NewerThan, Held
    <2>4. ASSUME NEW line \in before, line \notin result'
          PROVE  /\ Cardinality(result') = query.limit
                 /\ \A r \in result' : r.id > line.id
        <3>1. line \in Held(query)
            BY <2>1, <2>4 DEF BeforeIsHeld
        <3>2. PICK n \in DOMAIN logfiles : line \in LinesOf(n)
            BY <2>1, <3>1, HeldIndexed
        <3>3. n \notin NewerThan(at)
            BY <2>2, <2>4, <3>2
        <3>4. Since(n) \in Nat /\ Since(at) \in Nat
            BY <1>1 DEF TypeOK, Logfile, Since
        <3>5. n = at \/ Since(n) < Since(at)
            BY <1>1, <3>3, <3>4 DEF NewerThan, IndexInOrder
        <3>6. CASE /\ LinesOf(at) \cap before \subseteq result'
                   /\ OlderThan(at) = {} \/ \E l \in LinesOf(at) : l.time < query.since
            <4>1. Since(n) < Since(at)
                BY <2>4, <3>2, <3>5, <3>6
            <4>2. n \in OlderThan(at) /\ n # at
                BY <3>4, <4>1 DEF OlderThan
            <4>3. PICK l \in LinesOf(at) : l.time < query.since
                BY <3>6, <4>2
            <4>4. PICK last \in DOMAIN files[at] : l = files[at][last]
                BY <4>3 DEF LinesOf
            <4> QED BY <2>1, <2>4, <3>2, <3>3, <4>2, <4>3, <4>4, OlderAreTooEarly
        <3>7. CASE /\ Cardinality(result') = query.limit
                   /\ \A l \in (LinesOf(at) \cap before) \ result' : \A r \in result' : r.id > l.id
            <4>1. CASE n = at
                BY <2>4, <3>2, <3>7, <4>1
            <4>2. CASE Since(n) < Since(at)
                <5>1. ASSUME NEW r \in result'
                      PROVE  r.id > line.id
                    <6>1. PICK m \in NewerThan(at) \cup {at} : r \in LinesOf(m)
                        BY <2>2
                    <6>2. m \in DOMAIN logfiles /\ Since(m) \in Nat
                        BY <1>1, <6>1 DEF NewerThan, TypeOK, Logfile, Since
                    <6>3. Since(n) < Since(m)
                        BY <3>4, <4>2, <6>1, <6>2 DEF NewerThan
                    <6>4. line.id < r.id
                        BY <2>1, <3>2, <6>1, <6>2, <6>3, FilesFollow
                    <6>5. line.id \in Nat /\ r.id \in Nat
                        BY <1>1, <3>2, <6>1, <6>2, LinesOfType
                    <6> QED BY <6>4, <6>5
                <5> QED BY <3>7, <5>1
            <4> QED BY <3>5, <4>1, <4>2
        <3> QED BY <2>2, <3>6, <3>7
    <2> QED BY <1>5, <2>1, <2>2, <2>3, <2>4 DEF Answers
<1>10. CASE Finish \/ ReadLine \/ GrownEnd \/ MissingEnd
    <2>1. pc' # "answered"
        BY <1>10 DEF Finish, ReadLine, GrownEnd, MissingEnd, Goto
    <2> QED BY <1>3, <2>1
<1> QED BY <1>6, <1>7, <1>8, <1>9, <1>10 DEF Next

LEMMA InitAInv ==
    ASSUME Init
    PROVE  AInv
<1>1. IInv
    BY InitIInv
<1>2. PICK class \in Classes :
        files = [name \in Names |-> IF name = Current
                    THEN <<[time |-> now, class |-> class, id |-> logged]>> ELSE <<>>]
    BY DEF Init
<1>3. PICK line : line = [time |-> now, class |-> class, id |-> logged]
    OBVIOUS
<1>4. /\ files[Current] = <<line>> /\ line.id = 1 /\ line.time = 1 /\ now = 1 /\ logged = 1
      /\ Current \in Names /\ \A n \in Names : n # Current => files[n] = <<>>
    BY <1>2, <1>3, BoundsAre DEF Init
<1>5. LogInOrder
    <2>1. \A n \in Names : \A i \in DOMAIN files[n] : n = Current /\ i = 1 /\ files[n][i] = line
        BY <1>4
    <2>2. \A n \in Names : files[n] # <<>> => Head(files[n]) = line
        BY <1>4
    <2>3. ASSUME NEW m \in Names, NEW n \in Names, NEW i \in DOMAIN files[m], NEW j \in DOMAIN files[n]
          PROVE  ~((m = n /\ i < j) \/ Head(files[m]).time < Head(files[n]).time)
        <3>1. i = 1 /\ j = 1 /\ files[m] # <<>> /\ files[n] # <<>>
            BY <2>1, <2>3
        <3> QED BY <1>4, <2>2, <3>1
    <2> QED BY <1>4, <2>1, <2>3 DEF LogInOrder
<1>6. logfiles = NewIndex /\ DOMAIN NewIndex = {n \in Names : files[n] # <<>>}
    BY DEF Init, NewIndex
<1>7. \A n \in DOMAIN logfiles : logfiles[n] = NewLogfile(n)
    BY <1>6 DEF NewIndex
<1>8. \A n \in DOMAIN logfiles :
            /\ logfiles[n].since = Head(files[n]).time
            /\ logfiles[n].entries = {} /\ logfiles[n].classesRead = {}
            /\ logfiles[n].lineno = 0 /\ logfiles[n].readPos = 0
    BY <1>7 DEF NewLogfile
<1>9. Current \in DOMAIN logfiles /\ Len(files[Current]) = 1
    <2>1. <<line>> # <<>> /\ Len(<<line>>) = 1
        OBVIOUS
    <2> QED BY <1>4, <1>6, <2>1
<1>10. pc = "idle" /\ result = {} /\ ~Loading
    BY DEF Init, Loading
<1>11. FilesAreIndexed
    BY <1>6, <1>8 DEF FilesAreIndexed, Since
<1>12. PositionsInFile
    BY <1>8, <1>9, <1>10 DEF PositionsInFile
<1>13. LoadsLacking /\ NothingYet
    BY <1>10 DEF LoadsLacking, NothingYet
<1>14. EntriesInLimit /\ ClassesAreRead
    BY <1>8 DEF EntriesInLimit, ClassesAreRead
<1>15. MissingIsRead /\ ReadyToDeliver /\ BeforeIsHeld /\ NewerAreDone /\ AnswerIsLog
    BY <1>10 DEF MissingIsRead, ReadyToDeliver, BeforeIsHeld, NewerAreDone, AnswerIsLog
<1> QED BY <1>1, <1>5, <1>11, <1>12, <1>13, <1>14, <1>15 DEF AInv

LEMMA AInvStep ==
    ASSUME AInv, [Next]_vars
    PROVE  AInv'
<1> USE DEF AInv
<1>1. IInv' /\ TypeOK /\ FilesInOrder /\ TypeOK' /\ FilesInOrder'
    BY IInvStep DEF IInv
<1>2. LogInOrder' /\ FilesAreIndexed' /\ NothingYet'
    BY <1>1, OrderStep, IndexedStep, NothingStep
<1>3. PositionsInFile' /\ LoadsLacking' /\ EntriesInLimit'
    BY <1>1, PositionsInFileStep, LacksStep, LimitStep
<1>4. ClassesAreRead' /\ MissingIsRead'
    BY <1>1, ClassesStep, MissingStep
<1>5. BeforeIsHeld' /\ ReadyToDeliver'
    BY <1>1, <1>4, BeforeStep, ReadyStep
<1>6. NewerAreDone' /\ AnswerIsLog'
    BY <1>1, <1>2, NewerStep, AnswerStep
<1> QED BY <1>1, <1>2, <1>3, <1>4, <1>5, <1>6

LEMMA AInvHolds == Spec => []AInv
<1>1. Init => AInv
    BY InitAInv
<1>2. AInv /\ [Next]_vars => AInv'
    BY AInvStep
<1> QED BY <1>1, <1>2, PTL DEF Spec

\* The answer of a query of the log, for every log and every limit of lines,
\* files and memory: no line but the log's that match, none more than asked for,
\* and all of those the log held when the query began, but for older ones that
\* did not fit.
THEOREM AnswerCorrect == Spec => []AnswerIsLog
<1>1. AInv => AnswerIsLog
    BY DEF AInv
<1> QED BY <1>1, AInvHolds, PTL

================================================================================
