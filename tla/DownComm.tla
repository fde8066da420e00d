------------------------------- MODULE DownComm -------------------------------
(***************************************************************************)
(* The tables "downtimes" and "comments": src/src/TableDownComm.cc, and    *)
(* the list columns of hosts and services that look into them,             *)
(* src/src/DownCommColumn.cc.                                              *)
(*                                                                         *)
(* The core's thread adds and deletes entries in broker callbacks.  Client *)
(* threads go through a table's entries, and on the way evaluate columns   *)
(* that go through the same or the other table, or look one entry up.      *)
(* Each table has a recursive mutex.  An entry is known by the number of   *)
(* its allocation: a pointer is live while the table still holds that      *)
(* allocation, and dangles afterwards.                                     *)
(***************************************************************************)
EXTENDS Naturals

CONSTANTS
    Clients,
    Ids,            \* the IDs of downtimes and comments
    UnsignedSpan,   \* 2^32: remove() takes its ID as an unsigned int
    MaxEntries,     \* bound: how many entries are ever made
    Queries         \* what clients ask: see QueriesAssumption

Tables == {"downtimes", "comments"}

\* A query goes through a table of entries or through the hosts or services,
\* which need no lock.  It evaluates list columns, printed or filtered with
\* isEmpty ("lists"), and filters list columns by an ID ("finds").  A sorted
\* query prints its rows only after it has seen all of them.
ASSUME QueriesAssumption ==
    /\ Queries \subseteq [table : Tables \cup {"hosts"}, lists : SUBSET Tables,
                          finds : SUBSET Tables, sorted : BOOLEAN]
    /\ Ids \subseteq Nat /\ UnsignedSpan \in Nat \ {0} /\ MaxEntries \in Nat

Core == "core"
Nobody == "nobody"
Threads == Clients \cup {Core}
ASSUME ThreadsAssumption == Core \notin Clients /\ Nobody \notin Threads

VARIABLES
    entries,    \* _entries: [Tables -> [Ids -> allocation, 0 if none]]
    made,       \* how many entries were allocated
    owner,      \* [Tables -> who holds _entries_mutex]
    depth,      \* ... and how often
    event,      \* what the core's callback does: [kind, table, id], or NoEvent
    corePc,     \* "idle", "lock" or "unlock"
    known,      \* the entries the core itself has: [Tables -> SUBSET Ids]
    query,      \* [Clients -> Queries]
    place,      \* where each client is
    row,        \* the row it works on, see Pointer
    done,       \* the IDs its iterator has passed
    sorter,     \* the rows it has collected in _sorter
    column,     \* the table of the list column it evaluates, or "none"
    found       \* what findEntry returned

corevars == <<event, corePc, known>>
tableVars == <<entries, made, owner, depth, event, corePc, known,
               query, place, row, done, sorter, column, found>>

\* No pointer, or a row of the hosts table, is Null.
Pointer == [table : Tables, id : Ids, allocation : Nat]
Null == [table |-> "hosts"]
NoEvent == [kind |-> "none", table |-> "none", id |-> 0]
Live(p) == p = Null \/ entries[p.table][p.id] = p.allocation
PointerTo(t, id) == [table |-> t, id |-> id, allocation |-> entries[t][id]]
Present(t) == {id \in Ids : entries[t][id] # 0}

-----------------------------------------------------------------------------
(* A recursive mutex                                                       *)

\* Mutants: the mutex is not recursive; it does not count.
LockOnce(thread, t) ==
    /\ owner[t] = Nobody
    /\ owner' = [owner EXCEPT ![t] = thread]
    /\ depth' = [depth EXCEPT ![t] = @ + 1]

Lock(thread, t) ==
    /\ owner[t] \in {Nobody, thread}
    /\ owner' = [owner EXCEPT ![t] = thread]
    /\ depth' = [depth EXCEPT ![t] = @ + 1]

\* Mutant: the first unlock gives the mutex away.
UnlockAll(t) ==
    /\ depth' = [depth EXCEPT ![t] = @ - 1]
    /\ owner' = [owner EXCEPT ![t] = Nobody]

Unlock(t) ==
    /\ depth' = [depth EXCEPT ![t] = @ - 1]
    /\ owner' = [owner EXCEPT ![t] = IF depth[t] = 1 THEN Nobody ELSE @]

-----------------------------------------------------------------------------
(* The core: broker_comment and broker_downtime                            *)

\* The core has added, updated or deleted a downtime or comment of its own.
CoreEvent ==
    /\ corePc = "idle"
    /\ \E t \in Tables, id \in Ids :
        \/ /\ made < MaxEntries /\ event' = [kind |-> "add", table |-> t, id |-> id]
           /\ known' = [known EXCEPT ![t] = @ \cup {id}]
        \/ /\ id \in known[t] /\ event' = [kind |-> "delete", table |-> t, id |-> id]
           /\ known' = [known EXCEPT ![t] = @ \ {id}]
    /\ corePc' = "lock"
    /\ UNCHANGED <<entries, made, owner, depth, query, place, row, done, sorter, column, found>>

CoreLock ==
    /\ corePc = "lock" /\ Lock(Core, event.table)
    /\ corePc' = "unlock"
    /\ UNCHANGED <<entries, made, event, known, query, place, row, done, sorter, column, found>>

\* Mutant: a new entry is not put into the table.
CoreUnlockKeeps ==
    /\ corePc = "unlock"
    /\ LET t == event.table IN
        /\ IF event.kind = "add"
           THEN made' = made + 1 /\ UNCHANGED entries
           ELSE /\ entries' = [entries EXCEPT ![t] =
                     [id \in Ids |-> IF id = event.id % UnsignedSpan THEN 0 ELSE @[id]]]
                /\ UNCHANGED made
        /\ Unlock(t)
    /\ corePc' = "idle" /\ event' = NoEvent
    /\ UNCHANGED <<known, query, place, row, done, sorter, column, found>>

\* add() replaces an entry that has the ID; remove() frees it if there is one.
CoreUnlock ==
    /\ corePc = "unlock"
    /\ LET t == event.table IN
        /\ IF event.kind = "add"
           THEN /\ made' = made + 1
                /\ entries' = [entries EXCEPT ![t][event.id] = made']
           ELSE /\ entries' = [entries EXCEPT ![t] =
                     [id \in Ids |-> IF id = event.id % UnsignedSpan THEN 0 ELSE @[id]]]
                /\ UNCHANGED made
        /\ Unlock(t)
    /\ corePc' = "idle" /\ event' = NoEvent
    /\ UNCHANGED <<known, query, place, row, done, sorter, column, found>>

-----------------------------------------------------------------------------
(* A client thread: answerQuery, processDataset and finish                 *)

Goto(c, to) == place' = [place EXCEPT ![c] = to]

Start(c) ==
    /\ place[c] = "idle"
    /\ \E q \in Queries :
        /\ query' = [query EXCEPT ![c] = q]
        /\ Goto(c, IF q.table = "hosts" THEN "row" ELSE "lock")
    /\ row' = [row EXCEPT ![c] = Null] /\ done' = [done EXCEPT ![c] = {}]
    /\ sorter' = [sorter EXCEPT ![c] = {}]
    /\ UNCHANGED <<corevars, entries, made, owner, depth, column, found>>

\* Mutant: the table's mutex is not taken.
LockNothing(c) ==
    /\ place[c] = "lock" /\ Goto(c, "next")
    /\ UNCHANGED <<corevars, entries, made, owner, depth, query, row, done, sorter, column, found>>

LockTable(c) ==
    /\ place[c] = "lock" /\ Lock(c, query[c].table)
    /\ Goto(c, "next")
    /\ UNCHANGED <<corevars, entries, made, query, row, done, sorter, column, found>>

\* The iterator goes to the next entry, in the order of the IDs.
NextRow(c) ==
    /\ place[c] = "next"
    /\ \E id \in Present(query[c].table) \ done[c] :
        /\ \A other \in Present(query[c].table) \ done[c] : id <= other
        /\ row' = [row EXCEPT ![c] = PointerTo(query[c].table, id)]
        /\ done' = [done EXCEPT ![c] = @ \cup {id}]
    /\ Goto(c, "row")
    /\ UNCHANGED <<corevars, entries, made, owner, depth, query, sorter, column, found>>

\* A column of the row's host or service looks into a table: a list column
\* is printed or tested for emptiness, or filtered by an ID.
BeginColumn(c) ==
    /\ \E t \in Tables :
        /\ column' = [column EXCEPT ![c] = t]
        /\ \/ place[c] = "row" /\ t \in query[c].lists /\ Goto(c, "lock_list")
           \/ place[c] = "print" /\ t \in query[c].lists /\ Goto(c, "lock_print")
           \/ place[c] = "row" /\ t \in query[c].finds /\ Goto(c, "find")
    /\ UNCHANGED <<corevars, entries, made, owner, depth, query, row, done, sorter, found>>

\* output and isEmpty: the loop over the table runs between lock() and unlock().
EnterList(c) ==
    /\ place[c] \in {"lock_list", "lock_print"} /\ Lock(c, column[c])
    /\ Goto(c, IF place[c] = "lock_list" THEN "list" ELSE "print_list")
    /\ UNCHANGED <<corevars, entries, made, query, row, done, sorter, column, found>>

LeaveList(c) ==
    /\ place[c] \in {"list", "print_list"} /\ Unlock(column[c])
    /\ Goto(c, IF place[c] = "list" THEN "row" ELSE "print")
    /\ column' = [column EXCEPT ![c] = "none"]
    /\ UNCHANGED <<corevars, entries, made, query, row, done, sorter, found>>

\* isNagiosMember: findEntry locks, looks up and unlocks, and only then the
\* entry is looked into.
FindEntry(c) ==
    /\ place[c] = "find" /\ owner[column[c]] \in {Nobody, c}
    /\ \E id \in Ids :
        found' = [found EXCEPT ![c] = IF id \in Present(column[c])
                                      THEN PointerTo(column[c], id) ELSE Null]
    /\ Goto(c, "member")
    /\ UNCHANGED <<corevars, entries, made, owner, depth, query, row, done, sorter, column>>

UseEntry(c) ==
    /\ place[c] = "member"
    /\ found' = [found EXCEPT ![c] = Null]
    /\ column' = [column EXCEPT ![c] = "none"]
    /\ Goto(c, "row")
    /\ UNCHANGED <<corevars, entries, made, owner, depth, query, row, done, sorter>>

\* The row is dealt with: it was printed or filtered, or goes into _sorter.
RowDone(c) ==
    /\ place[c] = "row"
    /\ sorter' = [sorter EXCEPT ![c] = IF query[c].sorted /\ row[c] # Null
                                       THEN @ \cup {row[c]} ELSE @]
    /\ row' = [row EXCEPT ![c] = Null]
    /\ Goto(c, IF query[c].table = "hosts" THEN "idle" ELSE "next")
    /\ UNCHANGED <<corevars, entries, made, owner, depth, query, done, column, found>>

\* The end of the entries, or processDataset stops the loop.
UnlockTable(c) ==
    /\ place[c] = "next" /\ Unlock(query[c].table)
    /\ Goto(c, "finish")
    /\ UNCHANGED <<corevars, entries, made, query, row, done, sorter, column, found>>

\* Query::finish prints the rows of the sorter.
FinishRow(c) ==
    /\ place[c] = "finish"
    /\ \E p \in sorter[c] : /\ row' = [row EXCEPT ![c] = p]
                            /\ sorter' = [sorter EXCEPT ![c] = @ \ {p}]
    /\ Goto(c, "print")
    /\ UNCHANGED <<corevars, entries, made, owner, depth, query, done, column, found>>

Printed(c) ==
    /\ place[c] = "print"
    /\ row' = [row EXCEPT ![c] = Null]
    /\ Goto(c, "finish")
    /\ UNCHANGED <<corevars, entries, made, owner, depth, query, done, sorter, column, found>>

Finished(c) ==
    /\ place[c] = "finish" /\ sorter[c] = {}
    /\ Goto(c, "idle")
    /\ UNCHANGED <<corevars, entries, made, owner, depth, query, row, done, sorter, column, found>>

-----------------------------------------------------------------------------
TablesInit ==
    /\ entries = [t \in Tables |-> [id \in Ids |-> 0]] /\ made = 0
    /\ owner = [t \in Tables |-> Nobody] /\ depth = [t \in Tables |-> 0]
    /\ event = NoEvent /\ corePc = "idle" /\ known = [t \in Tables |-> {}]
    /\ query \in [Clients -> Queries]
    /\ place = [c \in Clients |-> "idle"]
    /\ row = [c \in Clients |-> Null] /\ done = [c \in Clients |-> {}]
    /\ sorter = [c \in Clients |-> {}]
    /\ column = [c \in Clients |-> "none"] /\ found = [c \in Clients |-> Null]

CoreStep == CoreLock \/ CoreUnlock

\* What brings a query nearer to its end.
Proceed(c) ==
    \/ LockTable(c) \/ EnterList(c) \/ LeaveList(c) \/ FindEntry(c) \/ UseEntry(c)
    \/ RowDone(c) \/ UnlockTable(c) \/ FinishRow(c) \/ Printed(c) \/ Finished(c)

TablesNext ==
    \/ CoreEvent \/ CoreStep
    \/ \E c \in Clients : Start(c) \/ NextRow(c) \/ BeginColumn(c) \/ Proceed(c)

TablesSpec == TablesInit /\ [][TablesNext]_tableVars

\* Threads are scheduled, a row has finitely many columns and a table finitely
\* many rows, and a mutex that is free again and again is got.
TablesFairSpec ==
    /\ TablesSpec
    /\ SF_tableVars(CoreStep)
    /\ \A c \in Clients :
        /\ SF_tableVars(EnterList(c) \/ LeaveList(c) \/ FindEntry(c) \/ UseEntry(c))
        /\ SF_tableVars(RowDone(c) \/ UnlockTable(c))

-----------------------------------------------------------------------------
(* Properties                                                              *)

Places == {"idle", "lock", "next", "row", "lock_list", "list", "find", "member",
           "finish", "print", "lock_print", "print_list"}

TablesTypeOK ==
    /\ entries \in [Tables -> [Ids -> Nat]] /\ made \in Nat
    /\ owner \in [Tables -> Threads \cup {Nobody}] /\ depth \in [Tables -> Nat]
    /\ event \in [kind : {"add", "delete"}, table : Tables, id : Ids] \cup {NoEvent}
    /\ corePc \in {"idle", "lock", "unlock"} /\ known \in [Tables -> SUBSET Ids]
    /\ query \in [Clients -> Queries] /\ place \in [Clients -> Places]
    /\ row \in [Clients -> Pointer \cup {Null}] /\ done \in [Clients -> SUBSET Ids]
    /\ sorter \in [Clients -> SUBSET Pointer]
    /\ column \in [Clients -> Tables \cup {"none"}] /\ found \in [Clients -> Pointer \cup {Null}]

Visiting == {"row", "lock_list", "list", "find", "member"}

\* A client holds its table's mutex from the first row to the last, and a
\* column's while it goes through that column's table.
InTable(c, t) == query[c].table = t /\ place[c] \in Visiting \cup {"next"}
InColumn(c, t) == column[c] = t /\ place[c] \in {"list", "print_list"}
InCore(t) == corePc = "unlock" /\ event.table = t

\* A mutex is held by one thread, as often as that thread is in a section that
\* locked it, and by nobody otherwise: recursion is counted right on every path.
LockedAsOften ==
    \A t \in Tables :
        /\ owner[t] = Nobody <=> depth[t] = 0
        /\ owner[t] = Core <=> InCore(t)
        /\ owner[t] = Core => depth[t] = 1
        /\ \A c \in Clients :
            /\ InTable(c, t) \/ InColumn(c, t) => owner[t] = c
            /\ owner[t] = c =>
                depth[t] = (IF InTable(c, t) THEN 1 ELSE 0) + (IF InColumn(c, t) THEN 1 ELSE 0)

\* The row a client works on while it goes through the table still exists.
RowsAlive ==
    \A c \in Clients : place[c] \in Visiting => Live(row[c])

\* Between two callbacks the tables hold exactly the core's own downtimes and
\* comments.
MirrorsCore ==
    corePc = "idle" => \A t \in Tables : Present(t) = known[t]

\* The core is never held up for ever by queries.
CoreGoesOn == corePc = "lock" ~> corePc = "idle"

\* findEntry "shouldn't be possible to have any deadlocks or recursive
\* mutexes-problems with" (TableDownComm.cc:231): no two queries that only
\* look up single entries wait for each other's mutex.
NoDeadlock ==
    \A c, d \in Clients :
        ~(/\ c # d /\ place[c] = "find" /\ place[d] = "find"
          /\ owner[column[c]] = d /\ owner[column[d]] = c)
=============================================================================
