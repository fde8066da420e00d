---------------------------- MODULE WaitTriggers ----------------------------
(***************************************************************************)
(* Queries that wait (WaitTrigger, WaitCondition, WaitTimeout).            *)
(*                                                                         *)
(* A client thread runs Query::doWait (src/src/Query.cc): it evaluates its *)
(* condition on the core's live objects, and then sleeps on the condition  *)
(* variable of its trigger until a broker callback on the core's thread    *)
(* (src/src/module.c) broadcasts it.  The core changes its objects before  *)
(* it calls the callback, and takes no lock for either; g_wait_mutex is    *)
(* used by the sleeping clients only.  A clock that has reached a client's *)
(* deadline lets pthread_cond_timedwait return ETIMEDOUT; a timespec that  *)
(* is not well formed makes it return EINVAL at once, without sleeping.    *)
(***************************************************************************)
EXTENDS Integers, Sequences

CONSTANTS
    Clients,
    Triggers,       \* the kinds of events: g_wait_cond without WT_ALL
    Requests,       \* what a client may ask for, see RequestsAssumption
    Microseconds    \* what gettimeofday may say in tv_usec

All == "all"        \* WT_ALL
None == "none"      \* WT_NONE
Nobody == "nobody"  \* the owner of a mutex that is free

ASSUME RequestsAssumption ==
    /\ Requests \subseteq [condition : BOOLEAN,             \* a WaitCondition is set
                           trigger : Triggers \cup {All, None},
                           timeout : Nat]                   \* ms, 0: unlimited
    /\ All \notin Triggers /\ None \notin Triggers /\ Nobody \notin Clients

VARIABLES
    holds,      \* whether the wait condition is true of the core's objects
    broadcasts, \* what the core still has to broadcast: a sequence of triggers
    request,    \* [Clients -> Requests]
    pc,         \* where each client is in doWait
    trigger,    \* _wait_trigger
    deadline,   \* [Clients -> nanoseconds of the timespec]
    late,       \* the clients whose deadline has passed
    ret,        \* what the wait returned: "woken", "ETIMEDOUT" or "EINVAL"
    mutex,      \* the owner of g_wait_mutex
    sleepers    \* the clients asleep on each condition variable

waitVars == <<holds, broadcasts, request, pc, trigger, deadline, late, ret, mutex, sleepers>>
world == <<holds, broadcasts>>

NsPerSecond == 1000000000

ASSUME ClockAssumption ==
    \A usec \in Microseconds : usec \in Nat /\ usec * 1000 < NsPerSecond

-----------------------------------------------------------------------------
(* The core                                                                *)

\* An event: the core has changed its objects and enters a broker callback,
\* which broadcasts WT_ALL first and the trigger of its kind then.
Event ==
    /\ broadcasts = <<>>
    /\ holds' \in BOOLEAN
    /\ \E t \in Triggers : broadcasts' = <<All, t>>
    /\ UNCHANGED <<request, pc, trigger, deadline, late, ret, mutex, sleepers>>

\* Mutant: pthread_cond_signal, which wakes one sleeper.
Signal ==
    /\ broadcasts # <<>>
    /\ LET woken == IF sleepers[broadcasts[1]] = {} THEN {}
                    ELSE {CHOOSE c \in sleepers[broadcasts[1]] : TRUE}
       IN
        /\ pc' = [c \in Clients |-> IF c \in woken THEN "relock" ELSE pc[c]]
        /\ ret' = [c \in Clients |-> IF c \in woken THEN "woken" ELSE ret[c]]
        /\ sleepers' = [sleepers EXCEPT ![broadcasts[1]] = @ \ woken]
    /\ broadcasts' = IF broadcasts[1] = All THEN <<broadcasts[2]>> ELSE <<>>
    /\ UNCHANGED <<holds, request, trigger, deadline, late, mutex>>

Broadcast ==
    /\ broadcasts # <<>>
    /\ LET woken == sleepers[broadcasts[1]] IN
        /\ pc' = [c \in Clients |-> IF c \in woken THEN "relock" ELSE pc[c]]
        /\ ret' = [c \in Clients |-> IF c \in woken THEN "woken" ELSE ret[c]]
        /\ sleepers' = [sleepers EXCEPT ![broadcasts[1]] = {}]
    /\ broadcasts' = IF broadcasts[1] = All THEN <<broadcasts[2]>> ELSE <<>>
    /\ UNCHANGED <<holds, request, trigger, deadline, late, mutex>>

-----------------------------------------------------------------------------
(* Query::doWait                                                           *)

\* _wait_condition.accepts(_wait_object); no filters accept everything.
Accepts(c) == request[c].condition => holds

Goto(c, place) == pc' = [pc EXCEPT ![c] = place]

\* A query starts.  Without condition and trigger it does not wait, and if
\* the condition is true already it does not either.
Start(c) ==
    /\ pc[c] = "idle"
    /\ \E q \in Requests : request' = [request EXCEPT ![c] = q]
    /\ Goto(c, "check")
    /\ UNCHANGED <<world, trigger, deadline, late, ret, mutex, sleepers>>

NothingToWaitFor(c) ==
    \/ ~request[c].condition /\ request[c].trigger = None
    \/ request[c].condition /\ holds

SkipWait(c) ==
    /\ pc[c] = "check" /\ NothingToWaitFor(c)
    /\ Goto(c, "returned")
    /\ UNCHANGED <<world, request, trigger, deadline, late, ret, mutex, sleepers>>

\* The nanoseconds of the deadline: the millisecond part is added to now's,
\* and the sum is brought back below a second.

DeadlineNs(usec, timeout) ==
    LET sum == usec * 1000 + 1000 * 1000 * (timeout % 1000) IN
    IF sum > NsPerSecond THEN sum - NsPerSecond ELSE sum

Prepare(c) ==
    /\ pc[c] = "check" /\ ~NothingToWaitFor(c)
    /\ trigger' = [trigger EXCEPT ![c] =
                     IF request[c].trigger = None THEN All ELSE request[c].trigger]
    /\ \E usec \in Microseconds :
        deadline' = [deadline EXCEPT ![c] = DeadlineNs(usec, request[c].timeout)]
    /\ late' = late \ {c}
    /\ Goto(c, "lock")
    /\ UNCHANGED <<world, request, ret, mutex, sleepers>>

Lock(c) ==
    /\ pc[c] = "lock" /\ mutex = Nobody
    /\ mutex' = c
    /\ Goto(c, "wait")
    /\ UNCHANGED <<world, request, trigger, deadline, late, ret, sleepers>>

WellFormed(c) == request[c].timeout = 0 \/ deadline[c] < NsPerSecond

\* pthread_cond_wait and pthread_cond_timedwait: fall asleep and release the
\* mutex in one step; or keep the mutex and return at once, because the
\* deadline is not well formed or has passed.
Sleep(c) ==
    /\ pc[c] = "wait" /\ WellFormed(c) /\ c \notin late
    /\ sleepers' = [sleepers EXCEPT ![trigger[c]] = @ \cup {c}]
    /\ mutex' = Nobody
    /\ Goto(c, "asleep")
    /\ UNCHANGED <<world, request, trigger, deadline, late, ret>>

ReturnAtOnce(c) ==
    /\ pc[c] = "wait" /\ (WellFormed(c) => c \in late)
    /\ ret' = [ret EXCEPT ![c] = IF WellFormed(c) THEN "ETIMEDOUT" ELSE "EINVAL"]
    /\ Goto(c, "unlock")
    /\ UNCHANGED <<world, request, trigger, deadline, late, mutex, sleepers>>

\* The clock reaches a waiting client's deadline.
DeadlinePasses(c) ==
    /\ request[c].timeout # 0 /\ c \notin late
    /\ pc[c] \in {"lock", "wait", "asleep", "relock", "unlock", "recheck"}
    /\ late' = late \cup {c}
    /\ UNCHANGED <<world, request, pc, trigger, deadline, ret, mutex, sleepers>>

\* A sleeper wakes up at its deadline; POSIX also allows it for no reason.
WakeUp(c, why) ==
    /\ pc[c] = "asleep"
    /\ sleepers' = [sleepers EXCEPT ![trigger[c]] = @ \ {c}]
    /\ ret' = [ret EXCEPT ![c] = why]
    /\ Goto(c, "relock")
    /\ UNCHANGED <<world, request, trigger, deadline, late, mutex>>

Expire(c) == c \in late /\ WakeUp(c, "ETIMEDOUT")
Spurious(c) == WakeUp(c, "woken")

Relock(c) ==
    /\ pc[c] = "relock" /\ mutex = Nobody
    /\ mutex' = c
    /\ Goto(c, "unlock")
    /\ UNCHANGED <<world, request, trigger, deadline, late, ret, sleepers>>

\* Mutant: a timeout is taken for a wakeup.

UnlockIgnoresTimeout(c) ==
    /\ pc[c] = "unlock"
    /\ mutex' = Nobody
    /\ Goto(c, "recheck")
    /\ UNCHANGED <<world, request, trigger, deadline, late, ret, sleepers>>

\* pthread_mutex_unlock; a timeout leaves the function.
Unlock(c) ==
    /\ pc[c] = "unlock"
    /\ mutex' = Nobody
    /\ Goto(c, IF ret[c] = "ETIMEDOUT" THEN "returned" ELSE "recheck")
    /\ UNCHANGED <<world, request, trigger, deadline, late, ret, sleepers>>

\* Mutant: the condition is not looked at again.
RecheckNothing(c) ==
    /\ pc[c] = "recheck"
    /\ Goto(c, "returned")
    /\ UNCHANGED <<world, request, trigger, deadline, late, ret, mutex, sleepers>>

\* while (!_wait_condition.accepts(_wait_object))
Recheck(c) ==
    /\ pc[c] = "recheck"
    /\ Goto(c, IF Accepts(c) THEN "returned" ELSE "lock")
    /\ UNCHANGED <<world, request, trigger, deadline, late, ret, mutex, sleepers>>

\* The query is answered; the connection may bring another one.
Answer(c) ==
    /\ pc[c] = "returned"
    /\ Goto(c, "idle")
    /\ UNCHANGED <<world, request, trigger, deadline, late, ret, mutex, sleepers>>

-----------------------------------------------------------------------------
WaitInit ==
    /\ holds \in BOOLEAN /\ broadcasts = <<>>
    /\ request \in [Clients -> Requests]
    /\ pc = [c \in Clients |-> "check"]
    /\ trigger = [c \in Clients |-> None]
    /\ deadline = [c \in Clients |-> 0]
    /\ late = {}
    /\ ret = [c \in Clients |-> "woken"]
    /\ mutex = Nobody
    /\ sleepers = [t \in Triggers \cup {All} |-> {}]

\* The steps a running thread takes of itself.
Run(c) ==
    \/ SkipWait(c) \/ Prepare(c) \/ Lock(c) \/ Sleep(c) \/ ReturnAtOnce(c)
    \/ Expire(c) \/ Relock(c) \/ Unlock(c) \/ Recheck(c)

WaitNext ==
    \/ Event \/ Broadcast
    \/ \E c \in Clients :
        Run(c) \/ Start(c) \/ DeadlinePasses(c) \/ Spurious(c) \/ Answer(c)

\* The core finishes its callbacks, running threads are scheduled (the mutex
\* is held for a few instructions only, so a thread that wants it again and
\* again gets it), and clocks reach every deadline.  Nobody has to send
\* events, and spurious wakeups are not to be relied upon.
WaitFairness ==
    /\ WF_waitVars(Broadcast)
    /\ \A c \in Clients : SF_waitVars(Run(c)) /\ WF_waitVars(DeadlinePasses(c))

WaitSpec == WaitInit /\ [][WaitNext]_waitVars /\ WaitFairness

-----------------------------------------------------------------------------
(* Properties                                                              *)

Places == {"idle", "check", "lock", "wait", "asleep", "relock", "unlock",
           "recheck", "returned"}

WaitTypeOK ==
    /\ holds \in BOOLEAN
    /\ broadcasts \in {<<>>} \cup {<<t>> : t \in Triggers} \cup {<<All, t>> : t \in Triggers}
    /\ request \in [Clients -> Requests]
    /\ pc \in [Clients -> Places]
    /\ trigger \in [Clients -> Triggers \cup {All, None}]
    /\ deadline \in [Clients -> Nat] /\ late \subseteq Clients
    /\ ret \in [Clients -> {"woken", "ETIMEDOUT", "EINVAL"}]
    /\ mutex \in Clients \cup {Nobody}
    /\ sleepers \in [Triggers \cup {All} -> SUBSET Clients]

\* A query with a condition and no timeout goes on only at a moment when its
\* condition is true, whatever woke it ("Waiting unlimited until condition
\* becomes true", Query.cc:1539).
UnlimitedWaitEndsTrue ==
    [][\A c \in Clients :
        (/\ pc[c] # "returned" /\ pc'[c] = "returned"
         /\ request[c].condition /\ request[c].timeout = 0) => holds]_waitVars

Waiting(c) == pc[c] \in {"lock", "wait", "asleep", "relock", "unlock", "recheck"}

\* A query with a timeout does not wait for ever ("Waiting %d ms or until
\* condition becomes true", Query.cc:1546), even if no event ever comes.
TimedWaitReturns ==
    \A c \in Clients : (Waiting(c) /\ request[c].timeout # 0) ~> ~Waiting(c)

\* A wakeup that was lost is made up for by the next one: a client whose
\* condition stays true and whose trigger keeps being broadcast goes on.
EventsEndWait ==
    \A c \in Clients :
        (<>[]holds /\ []<><<Broadcast /\ broadcasts[1] = trigger[c]>>_waitVars)
            => []<>~Waiting(c)

=============================================================================
