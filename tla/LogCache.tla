------------------------------- MODULE LogCache -------------------------------
(***************************************************************************)
(* The cache of log messages: src/src/LogCache.cc and Logfile.cc, and the  *)
(* queries of the table "log", src/src/TableLog.cc.                        *)
(*                                                                         *)
(* Queries of log tables hold the cache's lock from beginning to end       *)
(* (src/src/Store.cc:172-210), so there is one at a time.  The core does   *)
(* not know that lock: it writes lines and rotates its log while a query   *)
(* reads it.  A query visits the logfiles from the newest to the oldest,   *)
(* has each load the classes of messages that are missing, line by line,   *)
(* and after every message memory is freed if there are too many of them.  *)
(***************************************************************************)
EXTENDS Naturals, Sequences, FiniteSets

CONSTANTS
    Classes,        \* the classes of log messages
    Invalid,        \* what an unreadable line is instead
    MaxCached,      \* _max_cached_messages
    CheckMemCycle,  \* CHECK_MEM_CYCLE
    MaxLines,       \* g_max_lines_per_logfile
    Queries,        \* what clients ask, see QueriesAssumption
    MaxLogged,      \* bound: how many lines the core writes
    MaxTime,        \* bound: how many seconds pass
    MaxRotations    \* bound: how often the core rotates its log

\* The limits a query's filters imply (findTimeLimits, optimizeBitmask), and
\* its Limit header.
ASSUME QueriesAssumption ==
    /\ Queries \subseteq [since : Nat, until : Nat, classes : SUBSET Classes, limit : Nat]
    /\ Invalid \notin Classes
    /\ {MaxCached, MaxLines, MaxLogged, MaxTime, MaxRotations} \subseteq Nat
    /\ CheckMemCycle \in Nat \ {0}

VARIABLES
    files,          \* the lines on disk: [Names -> Seq(Line)], <<>> if there is no file
    logged,         \* how many lines were ever written
    now,            \* time(0)
    lastRotation,   \* last_log_rotation
    logfiles,       \* _logfiles: a Logfile for some of the names
    lastUpdate,     \* _last_index_update
    num,            \* num_cached_log_messages
    lastCheck,      \* _num_at_last_check
    pc,             \* where the query is
    query,          \* the query
    at,             \* the logfile it visits
    open,           \* the file that was opened under that name
    pos,            \* the position in it, in lines
    types,          \* missing_types of loadRange
    missing,        \* missing_types of load
    result,         \* the lines the query has accepted
    before,         \* history: what the log held for the query when it began
    stale,          \* history: the core has rotated since the index was made
    skipped,        \* history: the file grew between the two ranges of a load
    mixed           \* history: a Logfile has read two files, one after the other

disk == <<files, logged, now, lastRotation>>
cache == <<logfiles, lastUpdate, num, lastCheck>>
vars == <<disk, cache, pc, query, at, open, pos, types, missing, result,
          before, stale, skipped, mixed>>

\* log_file, and the files of log_archive_path.
Current == 0
Names == 0 .. MaxRotations

\* Between two requests there is no query.
NoQuery == [since |-> 0, until |-> 0, classes |-> {}, limit |-> 0]

Line == [time : Nat, class : Classes \cup {Invalid}, id : Nat]
Logfile == [since : Nat, entries : SUBSET [lineno : Nat, line : Line],
            classesRead : SUBSET Classes, lineno : Nat, readPos : Nat]

-----------------------------------------------------------------------------
(* The core                                                                *)

NewLine(class) == [time |-> now, class |-> class, id |-> logged + 1]

Log ==
    /\ logged < MaxLogged
    /\ \E class \in Classes \cup {Invalid} :
        files' = [files EXCEPT ![Current] = Append(@, NewLine(class))]
    /\ logged' = logged + 1
    /\ UNCHANGED <<now, lastRotation, cache, pc, query, at, open, pos, types, missing,
                   result, before, stale, skipped, mixed>>

Tick ==
    /\ now < MaxTime /\ now' = now + 1
    /\ UNCHANGED <<files, logged, lastRotation, cache, pc, query, at, open, pos, types,
                   missing, result, before, stale, skipped, mixed>>

\* The log gets a name in the archive, and the new one a first line.  A file
\* that is open stays so.  Two logs do not begin in the same second: "under
\* normal circumstances this never happens" (LogCache.cc:147).
Rotate ==
    /\ logged < MaxLogged /\ Head(files[Current]).time < now
    /\ \E name \in Names, class \in Classes :
        /\ files[name] = <<>> /\ \A n \in 1 .. name - 1 : files[n] # <<>>
        /\ files' = [files EXCEPT ![name] = files[Current], ![Current] = <<NewLine(class)>>]
        /\ open' = IF open = Current /\ pc \in {"grown", "missing"} THEN name ELSE open
    /\ logged' = logged + 1 /\ lastRotation' = now /\ stale' = TRUE
    /\ UNCHANGED <<now, cache, pc, query, at, pos, types, missing, result, before, skipped, mixed>>

-----------------------------------------------------------------------------
(* The index                                                               *)

\* A file is known by the time of its first line.
NewLogfile(name) ==
    [since |-> Head(files[name]).time, entries |-> {}, classesRead |-> {},
     lineno |-> 0, readPos |-> 0]

NewIndex == [name \in {n \in Names : files[n] # <<>>} |-> NewLogfile(name)]

Since(name) == logfiles[name].since

NewestOf(names) == CHOOSE n \in names : \A m \in names : Since(m) <= Since(n)

-----------------------------------------------------------------------------
(* Memory management: handleNewMessage                                     *)

\* How many messages lost[n] are for all the names n.
Size(lost, names) == Cardinality(UNION {{n} \X lost[n] : n \in names})

\* Going through names from the oldest, and freeing lost[n] of each n while
\* there are more than MaxCached of count messages: the names that are reached.
Reached(names, lost, count) ==
    {n \in names :
        count > MaxCached + Size(lost, {m \in names : Since(m) < Since(n)})}

\* Mutant: the third phase frees nothing.
NoneNewer(log) == {}

NewerThan(log) == {n \in DOMAIN logfiles : Since(n) > Since(log)}

OlderThan(log) == {n \in DOMAIN logfiles : Since(n) < Since(log)}

Flushed(log) == [log EXCEPT !.entries = {}, !.classesRead = {}]

\* freeMessages: the classes the query does not need go.
Kept(entries) == {e \in entries : e.line.class \in query.classes}

\* A message was added to the logfile at of logs.  If there are too many,
\* [1] older files are flushed, [2] this and newer files lose the classes that
\* are not asked for, [3] newer files are flushed.  The check is left out until
\* CheckMemCycle messages have come since the last one.
HandleNewMessage(logs) ==
    LET entries == [n \in DOMAIN logs |-> logs[n].entries]
        older == Reached({n \in OlderThan(at) : entries[n] # {}}, entries, num + 1)
        left == num + 1 - Size(entries, older)
        other == [n \in DOMAIN logs |-> entries[n] \ Kept(entries[n])]
        thinned == Reached({n \in DOMAIN logs \ OlderThan(at) :
                             entries[n] # {} /\ logs[n].classesRead \ query.classes # {}},
                           other, left)
        remain == left - Size(other, thinned)
        rest == [n \in DOMAIN logs |-> IF n \in thinned THEN Kept(entries[n]) ELSE entries[n]]
        newer == Reached({n \in NewerThan(at) : rest[n] # {}}, rest, remain)
        final == remain - Size(rest, newer)
    IN  IF num < MaxCached \/ num + 1 < lastCheck + CheckMemCycle
        THEN logfiles' = logs /\ num' = num + 1 /\ UNCHANGED lastCheck
        ELSE /\ logfiles' = [n \in DOMAIN logs |->
                    IF n \in older \cup newer THEN Flushed(logs[n])
                    ELSE IF n \in thinned
                    THEN [logs[n] EXCEPT !.entries = rest[n],
                                         !.classesRead = @ \cap query.classes]
                    ELSE logs[n]]
             /\ num' = final /\ lastCheck' = final

-----------------------------------------------------------------------------
(* A query                                                                 *)

Matches(q, line) == line.class \in q.classes /\ q.since <= line.time /\ line.time < q.until

\* loadRange ignores what follows after MaxLines.
LinesOf(name) == {files[name][n] : n \in {i \in DOMAIN files[name] : i <= MaxLines}}
Held(q) == {line \in UNION {LinesOf(n) : n \in Names} : Matches(q, line)}

Goto(name, place) == at' = name /\ pc' = place

\* The newest file that is old enough, and nothing to do if there is none.
Search(q, logs) ==
    LET old == {n \in DOMAIN logs : logs[n].since < q.until}
    IN  \/ /\ q.classes = {} \/ old = {}
           /\ Goto(Current, "answered")
        \/ /\ q.classes # {}
           /\ \E n \in old : (\A m \in old : logs[m].since <= logs[n].since) /\ Goto(n, "visit")

\* lockLogCache, logCachePreChecks and the beginning of TableLog::answerQuery.
Begin ==
    /\ pc = "idle"
    /\ \/ /\ lastRotation > lastUpdate
          /\ logfiles' = NewIndex /\ num' = 0 /\ lastUpdate' = now
          /\ stale' = FALSE /\ skipped' = FALSE
       \/ /\ lastRotation <= lastUpdate
          /\ UNCHANGED <<logfiles, num, lastUpdate, stale, skipped>>
    /\ \E q \in Queries : query' = q /\ before' = Held(q) /\ Search(q, logfiles')
    /\ UNCHANGED <<disk, lastCheck, open, pos, types, missing, result, mixed>>

\* Logfile::end looks for the last line that follows another one.
End(name) ==
    LET lines == files[name] IN IF Len(lines) > 1 THEN lines[Len(lines)].time ELSE 0

\* The first of a load's two ranges continues a watched file for the classes
\* that were read before, the second begins anew for the missing ones.
Visit ==
    LET log == logfiles[at]
        lacking == query.classes \ log.classesRead
        Read(place, start, which) == /\ pc' = place /\ pos' = start /\ types' = which
                                     /\ missing' = lacking /\ open' = at
    IN
    /\ pc = "visit"
    /\ \/ /\ at # Current /\ End(at) > 0 /\ End(at) < query.since
          /\ pc' = "answered" /\ UNCHANGED <<logfiles, open, pos, types, missing>>
       \/ /\ at = Current \/ End(at) = 0 \/ End(at) >= query.since
          /\ \/ /\ at = Current /\ log.classesRead # {}
                /\ Read("grown", log.readPos, log.classesRead) /\ UNCHANGED logfiles
             \/ /\ at # Current \/ log.classesRead = {}
                /\ lacking # {} /\ Read("missing", 0, lacking)
                /\ logfiles' = [logfiles EXCEPT ![at].lineno = 0]
             \/ /\ at # Current /\ lacking = {}
                /\ pc' = "deliver" /\ UNCHANGED <<logfiles, open, pos, types, missing>>
    /\ UNCHANGED <<disk, lastUpdate, num, lastCheck, query, at, result, before, stale, skipped, mixed>>

AtEnd == pos >= Len(files[open]) \/ logfiles[at].lineno >= MaxLines

\* Mutant: a line that is in memory already is counted again.
FreshAlways(log, entry) == TRUE

\* The key of an entry, its time and line number, is not in use.
Fresh(log, entry) ==
    \A e \in log.entries : e.lineno # entry.lineno \/ e.line.time # entry.line.time

\* loadRange and processLogLine for one line.
ReadLine ==
    /\ pc \in {"grown", "missing"} /\ ~AtEnd
    /\ LET line == files[open][pos + 1]
           entry == [lineno |-> logfiles[at].lineno + 1, line |-> line]
           logs == [logfiles EXCEPT ![at].lineno = @ + 1]
       IN  IF line.class \in types /\ Fresh(logfiles[at], entry)
           THEN HandleNewMessage([logs EXCEPT ![at].entries = @ \cup {entry}])
           ELSE logfiles' = logs /\ UNCHANGED <<num, lastCheck>>
    /\ pos' = pos + 1 /\ mixed' = (mixed \/ stale)
    /\ UNCHANGED <<disk, lastUpdate, pc, query, at, open, types, missing, result, before,
                   stale, skipped>>

\* fgets takes a line before the limit is looked at.
Ended == IF pos < Len(files[open]) THEN pos + 1 ELSE pos

GrownEnd ==
    /\ pc = "grown" /\ AtEnd
    /\ \/ /\ missing = {} /\ pc' = "deliver" /\ UNCHANGED <<pos, types>>
          /\ logfiles' = [logfiles EXCEPT ![at].readPos = Ended]
       \/ /\ missing # {} /\ pc' = "missing" /\ pos' = 0 /\ types' = missing
          /\ logfiles' = [logfiles EXCEPT ![at].readPos = Ended, ![at].lineno = 0]
    /\ UNCHANGED <<disk, lastUpdate, num, lastCheck, query, at, open, missing, result, before,
                   stale, skipped, mixed>>

\* Mutant: the classes are not remembered as those that were read, but all are.
MissingEndAll ==
    /\ pc = "missing" /\ AtEnd
    /\ logfiles' = [logfiles EXCEPT ![at].classesRead = Classes,
                        ![at].readPos = IF at = Current THEN Ended ELSE @]
    /\ pc' = "deliver" /\ UNCHANGED skipped
    /\ UNCHANGED <<disk, lastUpdate, num, lastCheck, query, at, open, pos, types, missing,
                   result, before, stale, mixed>>

MissingEnd ==
    /\ pc = "missing" /\ AtEnd
    /\ logfiles' = [logfiles EXCEPT ![at].classesRead = @ \cup missing,
                        ![at].readPos = IF at = Current THEN Ended ELSE @]
    /\ skipped' = \/ skipped
                  \/ at = Current /\ logfiles[at].classesRead # {} /\ Ended > logfiles[at].readPos
    /\ pc' = "deliver"
    /\ UNCHANGED <<disk, lastUpdate, num, lastCheck, query, at, open, pos, types, missing,
                   result, before, stale, mixed>>

\* answerQueryReverse goes back from the newest entry; it ends the query at an
\* entry that is too old, or when processDataset refuses a row.
Deliver ==
    LET entries == logfiles[at].entries
        accepted == {e \in entries : Matches(query, e.line)}
        room == query.limit - Cardinality(result)
        Later(d, e) == \/ d.line.time > e.line.time
                       \/ d.line.time = e.line.time /\ d.lineno > e.lineno
    IN
    /\ pc = "deliver"
    /\ result' = result \cup {e.line : e \in
                    {e \in accepted : Cardinality({d \in accepted : Later(d, e)}) < room}}
    /\ IF \/ \E e \in entries : e.line.time < query.since
          \/ Cardinality(accepted) > room \/ OlderThan(at) = {}
       THEN Goto(at, "answered")
       ELSE Goto(NewestOf(OlderThan(at)), "visit")
    /\ UNCHANGED <<disk, cache, query, open, pos, types, missing, before, stale, skipped, mixed>>

\* unlockLogCache.
Finish ==
    /\ pc = "answered" /\ Goto(Current, "idle")
    /\ query' = NoQuery /\ open' = Current /\ pos' = 0 /\ types' = {} /\ missing' = {}
    /\ result' = {} /\ before' = {}
    /\ UNCHANGED <<disk, cache, stale, skipped, mixed>>

-----------------------------------------------------------------------------
\* The core has written a first line when the module makes its index.
Init ==
    /\ now = 1 /\ logged = 1 /\ lastRotation = 0 /\ lastUpdate = now
    /\ \E class \in Classes :
        files = [name \in Names |-> IF name = Current
                    THEN <<[time |-> now, class |-> class, id |-> logged]>> ELSE <<>>]
    /\ logfiles = NewIndex /\ num = 0 /\ lastCheck = 0
    /\ pc = "idle" /\ query = NoQuery /\ at = Current /\ open = Current /\ pos = 0
    /\ types = {} /\ missing = {} /\ result = {} /\ before = {}
    /\ stale = FALSE /\ skipped = FALSE /\ mixed = FALSE

Next ==
    \/ Log \/ Tick \/ Rotate
    \/ Begin \/ Visit \/ ReadLine \/ GrownEnd \/ MissingEnd \/ Deliver \/ Finish

Spec == Init /\ [][Next]_vars

-----------------------------------------------------------------------------
(* Properties                                                              *)

TypeOK ==
    /\ files \in [Names -> Seq(Line)]
    /\ {logged, now, lastRotation, lastUpdate, num, lastCheck, pos} \subseteq Nat
    /\ DOMAIN logfiles \subseteq Names /\ \A n \in DOMAIN logfiles : logfiles[n] \in Logfile
    /\ pc \in {"idle", "visit", "grown", "missing", "deliver", "answered"}
    /\ query \in Queries \cup {NoQuery} /\ at \in Names /\ open \in Names
    /\ types \subseteq Classes /\ missing \subseteq Classes
    /\ result \subseteq Line /\ before \subseteq Line
    /\ {stale, skipped, mixed} \subseteq BOOLEAN

\* num_cached_log_messages is the number of messages that are in memory, after
\* every way to add, flush or free some.
CounterExact ==
    num = Size([n \in DOMAIN logfiles |-> logfiles[n].entries], DOMAIN logfiles)

\* "If the number of messages loaded in memory is to large, memory will be
\* freed" (LogCache.cc:162): there are never more than the limit, or what the
\* biggest file holds, and one cycle without a check.  A query that runs into a
\* rotation counts two files as one, and _num_at_last_check keeps that for good.
MemoryBounded ==
    ~mixed => \E name \in Names :
        num < CheckMemCycle + IF Len(files[name]) > MaxCached THEN Len(files[name]) ELSE MaxCached

\* The answer of a query: no line but the log's, none more than asked for, and
\* all those the log held when the query began, but for older ones that do not
\* fit into the limit.  Not promised when the core rotates unseen or while the
\* query runs, nor after a file grew between the two ranges of a load.
AnswerIsLog ==
    pc = "answered" /\ ~stale /\ ~skipped =>
        /\ result \subseteq Held(query)
        /\ Cardinality(result) <= query.limit
        /\ \A line \in before \ result :
            /\ Cardinality(result) = query.limit
            /\ \A r \in result : r.id > line.id

=============================================================================
