---------------------------- MODULE ClientThreads ----------------------------
(***************************************************************************)
(* The life of the module and of its client threads (src/src/module.c).    *)
(*                                                                         *)
(* The core's thread runs the broker module: nebmodule_init, the event     *)
(* loop in which accept_connection starts one thread per connection and    *)
(* joins finished ones, the end of the event loop, nebmodule_deinit.  It   *)
(* remembers the threads it has to join in g_client_threads.  A client     *)
(* thread answers requests until its client leaves or it sees              *)
(* g_should_terminate.  It cannot look at the flag while it waits for       *)
(* others: for an event without a timeout (Query::doWait), for the log     *)
(* cache that another query has locked (Store::answerGetRequest), for the  *)
(* core to run a command (Store::answerCommandRequest), for its client to  *)
(* read (OutputBuffer::writeData), or for a table whose mutex belongs to a *)
(* query that waits for one of its own (see DownComm).                     *)
(***************************************************************************)
EXTENDS Naturals, Sequences

CONSTANTS
    Threads,            \* one for each connection that is ever accepted
    CreateMayFail,      \* pthread_create may fail
    UnlimitedWaits      \* clients send queries that wait without a timeout

ASSUME FlagsAssumption == CreateMayFail \in BOOLEAN /\ UnlimitedWaits \in BOOLEAN
ASSUME LockAssumption == "free" \notin Threads

VARIABLES
    core,           \* where the core's thread is
    thread,         \* [Threads -> what became of it]
    lock,           \* the thread that has locked the log cache, or "free"
    clients,        \* g_client_threads: the IDs to join, in order
    i,              \* the loop variable of reap_client_threads and
                    \* shutdown_threads, from 1
    accepted,       \* the connection accept_connection deals with
    terminate,      \* g_should_terminate
    listening,      \* the listening socket is open
    store           \* the tables and caches exist (store_init, store_deinit)

vars == <<core, thread, lock, clients, i, accepted, terminate, listening, store>>

Core == {"unloaded", "loaded", "loop", "reap", "create", "join", "ended",
         "join_again", "deinit"}

\* "none": never accepted; "no_thread": pthread_create failed, the ID is
\* whatever malloc returned.  A thread that serves is on its way to its next
\* look at the flag, unless it has to wait for others: "asleep" for an event,
\* "locking" for the log cache, "command" for the core, "writing" for its
\* client, "crossed" for a mutex that is never given back.
Held == {"asleep", "locking", "command", "writing", "crossed"}
ThreadState == {"none", "no_thread", "serving", "exited", "joined"} \cup Held
Running(t) == thread[t] = "serving" \/ thread[t] \in Held

Init ==
    /\ core = "unloaded"
    /\ thread = [t \in Threads |-> "none"] /\ lock = "free"
    /\ clients = <<>> /\ i = 1
    /\ accepted \in Threads
    /\ terminate = FALSE /\ listening = FALSE /\ store = FALSE

-----------------------------------------------------------------------------
(* The core's thread                                                       *)

\* nebmodule_init
Load ==
    /\ core = "unloaded"
    /\ core' = "loaded" /\ clients' = <<>> /\ terminate' = FALSE
    /\ listening' = TRUE /\ store' = TRUE
    /\ UNCHANGED <<thread, lock, i, accepted>>

\* open_socket fails: the module is not loaded.
LoadFails ==
    /\ core = "unloaded"
    /\ clients' = <<>> /\ terminate' = FALSE
    /\ UNCHANGED <<core, thread, lock, i, accepted, listening, store>>

\* broker_process, NEBTYPE_PROCESS_EVENTLOOPSTART: the socket is watched, or
\* closed if that does not work.
EventLoopStart ==
    /\ core = "loaded"
    /\ core' = "loop" /\ listening' \in BOOLEAN
    /\ UNCHANGED <<thread, lock, clients, i, accepted, terminate, store>>

\* accept_connection: accept() and the head of reap_client_threads.  Any of
\* the Threads that are left may stand for the new connection.
Accept ==
    /\ core = "loop" /\ listening
    /\ \E t \in Threads : thread[t] = "none"
    /\ accepted' = CHOOSE t \in Threads : thread[t] = "none"
    /\ core' = "reap" /\ i' = 1
    /\ UNCHANGED <<thread, lock, clients, terminate, listening, store>>

\* pthread_tryjoin_np fails: the thread is still running.
ReapSkip ==
    /\ core = "reap" /\ i <= Len(clients) /\ thread[clients[i]] # "exited"
    /\ i' = i + 1
    /\ UNCHANGED <<core, thread, lock, clients, accepted, terminate, listening, store>>

\* Mutants: the gap is not filled before the array shrinks; the gap is filled
\* and the array does not shrink.
ReapDropsLast ==
    /\ core = "reap" /\ i <= Len(clients) /\ thread[clients[i]] = "exited"
    /\ thread' = [thread EXCEPT ![clients[i]] = "joined"]
    /\ clients' = SubSeq(clients, 1, Len(clients) - 1)
    /\ UNCHANGED <<core, lock, i, accepted, terminate, listening, store>>

\* pthread_tryjoin_np joins: the last element fills the gap, and takes its
\* turn next.
ReapJoin ==
    /\ core = "reap" /\ i <= Len(clients) /\ thread[clients[i]] = "exited"
    /\ thread' = [thread EXCEPT ![clients[i]] = "joined"]
    /\ clients' = [k \in 1..(Len(clients) - 1) |->
                     IF k = i THEN clients[Len(clients)] ELSE clients[k]]
    /\ UNCHANGED <<core, lock, i, accepted, terminate, listening, store>>

ReapDone ==
    /\ core = "reap" /\ i > Len(clients)
    /\ core' = "create"
    /\ UNCHANGED <<thread, lock, clients, i, accepted, terminate, listening, store>>

\* pthread_create, and the thread's ID is appended, whatever it returned.
Create ==
    /\ core = "create"
    /\ \E outcome \in {"serving"} \cup (IF CreateMayFail THEN {"no_thread"} ELSE {}) :
        thread' = [thread EXCEPT ![accepted] = outcome]
    /\ clients' = Append(clients, accepted)
    /\ core' = "loop"
    /\ UNCHANGED <<lock, i, accepted, terminate, listening, store>>

\* The query handler of the event loop has run a command and closes its end.
RunCommand ==
    /\ core = "loop"
    /\ \E t \in Threads :
        /\ thread[t] = "command"
        /\ thread' = [thread EXCEPT ![t] = "serving"]
    /\ UNCHANGED <<core, lock, clients, i, accepted, terminate, listening, store>>

\* A broker callback of the event loop broadcasts, and a sleeping query ends.
BrokerEvent ==
    /\ core = "loop"
    /\ \E t \in Threads :
        /\ thread[t] = "asleep"
        /\ thread' = [thread EXCEPT ![t] = "serving"]
    /\ UNCHANGED <<core, lock, clients, i, accepted, terminate, listening, store>>

\* broker_process, NEBTYPE_PROCESS_EVENTLOOPEND, and nebmodule_deinit of a
\* module whose event loop never ran: shutdown_threads sets the flag, closes
\* the socket and begins to join.
EventLoopEnd ==
    /\ core \in {"loop", "loaded"}
    /\ terminate' = TRUE /\ listening' = FALSE
    /\ core' = (IF core = "loop" THEN "join" ELSE "join_again") /\ i' = 1
    /\ UNCHANGED <<thread, lock, clients, accepted, store>>

\* pthread_join returns once the thread has exited.
Join ==
    /\ core \in {"join", "join_again"} /\ i <= Len(clients)
    /\ thread[clients[i]] = "exited"
    /\ thread' = [thread EXCEPT ![clients[i]] = "joined"]
    /\ i' = i + 1
    /\ UNCHANGED <<core, lock, clients, accepted, terminate, listening, store>>

\* pthread_join fails, of an ID that is no thread: that is logged.
JoinFails ==
    /\ core \in {"join", "join_again"} /\ i <= Len(clients)
    /\ thread[clients[i]] = "no_thread"
    /\ i' = i + 1
    /\ UNCHANGED <<core, thread, lock, clients, accepted, terminate, listening, store>>

\* Mutant: the last thread is not joined.
JoinAllButOne ==
    /\ core \in {"join", "join_again"} /\ i >= Len(clients)
    /\ clients' = <<>> /\ i' = 1
    /\ core' = IF core = "join" THEN "ended" ELSE "deinit"
    /\ UNCHANGED <<thread, lock, accepted, terminate, listening, store>>

\* g_client_threads is freed.
JoinDone ==
    /\ core \in {"join", "join_again"} /\ i > Len(clients)
    /\ clients' = <<>> /\ i' = 1
    /\ core' = IF core = "join" THEN "ended" ELSE "deinit"
    /\ UNCHANGED <<thread, lock, accepted, terminate, listening, store>>

\* nebmodule_deinit after the event loop: shutdown_threads once more.
Deinit ==
    /\ core = "ended"
    /\ terminate' = TRUE /\ listening' = FALSE
    /\ core' = "join_again" /\ i' = 1
    /\ UNCHANGED <<thread, lock, clients, accepted, store>>

\* store_deinit deletes the tables and caches.
StoreDeinit ==
    /\ core = "deinit"
    /\ store' = FALSE /\ core' = "unloaded"
    /\ UNCHANGED <<thread, lock, clients, i, accepted, terminate, listening>>

-----------------------------------------------------------------------------
(* client_thread                                                           *)

mine == <<core, clients, i, accepted, terminate, listening, store>>
Goes(t, from, to) == thread[t] = from /\ thread' = [thread EXCEPT ![t] = to]

\* A query with WaitTimeout 0 falls asleep in pthread_cond_wait.  One of the
\* log keeps the log cache locked meanwhile.
FallAsleep(t) ==
    /\ UnlimitedWaits /\ Goes(t, "serving", "asleep")
    /\ UNCHANGED <<mine, lock>>

\* A query of the log: lockLogCache.
TakeLock(t) ==
    /\ lock # t /\ Goes(t, "serving", "locking")
    /\ UNCHANGED <<mine, lock>>

\* Mutant: a query that was cancelled keeps the lock.
GetLockForEver(t) ==
    /\ lock = "free" /\ lock' = t
    /\ Goes(t, "locking", IF terminate THEN "exited" ELSE "serving")
    /\ UNCHANGED mine

\* pthread_mutex_lock returns.  If the core shuts down, and maybe if the
\* client has gone, the query is cancelled and the log cache unlocked.
GetLock(t) ==
    /\ lock = "free" /\ lock' \in (IF terminate THEN {"free"} ELSE {"free", t})
    /\ Goes(t, "locking", "serving")
    /\ UNCHANGED mine

\* The end of the query: unlockLogCache.
GiveLock(t) ==
    /\ thread[t] = "serving" /\ lock = t /\ lock' = "free"
    /\ UNCHANGED <<mine, thread>>

\* The command has been written to the query handler's socket: read(sd).
SendCommand(t) ==
    /\ lock # t /\ Goes(t, "serving", "command")
    /\ UNCHANGED <<mine, lock>>

\* write() to a client that does not read, and its return.
WriteBlocks(t) ==
    /\ lock # t /\ Goes(t, "serving", "writing")
    /\ UNCHANGED <<mine, lock>>

WriteReturns(t) == Goes(t, "writing", "serving") /\ UNCHANGED <<mine, lock>>

\* A query of the comments and one of the downtimes wait for each other's
\* mutex, and others, of the log too, may come to wait for them.
Cross(t, u) ==
    /\ t # u /\ thread[t] = "serving"
    /\ thread[u] = "crossed" \/ (thread[u] = "serving" /\ lock \notin {t, u})
    /\ thread' = [thread EXCEPT ![t] = "crossed", ![u] = "crossed"]
    /\ UNCHANGED <<mine, lock>>

\* The client closes, or its connection is not to be kept alive.
ClientLeaves(t) ==
    /\ lock # t /\ Goes(t, "serving", "exited")
    /\ UNCHANGED <<mine, lock>>

\* Every loop of a thread that serves looks at the flag.
SeeTermination(t) == terminate /\ ClientLeaves(t)

-----------------------------------------------------------------------------
CoreStep ==
    \/ Load \/ LoadFails \/ EventLoopStart \/ Accept
    \/ ReapSkip \/ ReapJoin \/ ReapDone \/ Create
    \/ BrokerEvent \/ RunCommand \/ EventLoopEnd
    \/ Join \/ JoinFails \/ JoinDone \/ Deinit \/ StoreDeinit

ThreadStep(t) ==
    \/ FallAsleep(t) \/ TakeLock(t) \/ GetLock(t) \/ GiveLock(t)
    \/ SendCommand(t) \/ WriteBlocks(t) \/ WriteReturns(t)
    \/ ClientLeaves(t) \/ SeeTermination(t)
    \/ \E u \in Threads : Cross(t, u)

Next ==
    \/ CoreStep
    \/ \E t \in Threads : ThreadStep(t)

\* The core does not stop within a function.  A thread that waits for nobody
\* gets to its next look at the flag, also if it waits for others now and
\* then; it unlocks the log cache, and locks it when it stays free.  Nothing
\* makes an event happen, a client read, a command run or an uninitialized
\* ID be refused.
Fairness ==
    /\ WF_vars(\/ ReapSkip \/ ReapJoin \/ ReapDone \/ Create
               \/ Join \/ JoinDone \/ Deinit \/ StoreDeinit)
    /\ \A t \in Threads :
        /\ SF_vars(SeeTermination(t))
        /\ WF_vars(GetLock(t) \/ GiveLock(t))

Spec == Init /\ [][Next]_vars /\ Fairness

-----------------------------------------------------------------------------
(* Properties                                                              *)

TypeOK ==
    /\ core \in Core
    /\ thread \in [Threads -> ThreadState] /\ lock \in Threads \cup {"free"}
    /\ clients \in Seq(Threads)
    /\ i \in Nat \ {0}
    /\ accepted \in Threads
    /\ terminate \in BOOLEAN /\ listening \in BOOLEAN /\ store \in BOOLEAN

\* A thread that was started and not yet joined is in g_client_threads: the
\* gap filling of reap_client_threads loses nobody, so shutdown_threads joins
\* them all.
NoThreadForgotten ==
    \A t \in Threads :
        Running(t) \/ thread[t] = "exited"
            => \E k \in 1..Len(clients) : clients[k] = t

\* No ID stands twice in g_client_threads, and none of a thread that was
\* joined already is still to be joined (joining twice is undefined).
NoThreadJoinedTwice ==
    /\ \A k, l \in 1..Len(clients) : clients[k] = clients[l] => k = l
    /\ \A k \in 1..Len(clients) :
        thread[clients[k]] = "joined" =>
            core \in {"join", "join_again"} /\ k < i

\* "Make sure all client connections are terminated before returning control.
\* Since we touch global naemon state everywhere, this is strictly mandatory."
\* (module.c:476): no client thread runs once the event loop has ended, and so
\* none while the tables do not exist.
NoThreadAfterShutdown ==
    (~store \/ core \in {"ended", "deinit"}) => \A t \in Threads : ~Running(t)

\* The thread waits for what only others can do: an event, the core, its
\* client, a mutex of a table, a locked log cache whose owner waits itself.
Stuck(t) ==
    \/ thread[t] \in {"asleep", "command", "writing", "crossed"}
    \/ thread[t] = "locking" /\ lock \in Threads /\ thread[lock] \in {"asleep", "crossed"}

\* shutdown_threads returns, unless the thread it joins is stuck for ever, or
\* is none (an ID that pthread_create did not set): every thread that waits
\* for nobody sees the flag and is joined, and so is every thread that waits
\* for the log cache behind one that gives it back.
JoiningEnds ==
    \/ <>[](/\ core = "join" /\ i <= Len(clients)
            /\ Stuck(clients[i]) \/ thread[clients[i]] = "no_thread")
    \/ core = "join" ~> core = "ended"

=============================================================================
