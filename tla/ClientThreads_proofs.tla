------------------------ MODULE ClientThreads_proofs ------------------------
(***************************************************************************)
(* For any number of connections: no client thread is forgotten, none is   *)
(* joined twice, and none runs once the event loop has ended.  For any     *)
(* number of threads that wait for events, whatever they wait for, and for *)
(* every interleaving with the core's broadcasts, late clocks and spurious *)
(* wakeups: a wait without a timeout ends with a true condition only.      *)
(***************************************************************************)
EXTENDS ClientThreads, WaitTriggers, TLAPS, SequenceTheorems

\* A thread that shutdown_threads still has to join.
InFlight(t) == Running(t) \/ thread[t] = "exited"

\* Which IDs are still to be joined, phase by phase.
JoinInv ==
    /\ core \in {"unloaded", "loaded", "ended", "deinit"} => clients = <<>>
    /\ core \in {"reap", "create"} => thread[accepted] = "none"
    /\ core = "unloaded" <=> ~store
    /\ core \in {"unloaded", "loaded"} => \A t \in Threads : ~Running(t)
    /\ \A k \in 1..Len(clients) : thread[clients[k]] # "none"
    /\ core \in {"join", "join_again"} =>
        \A k \in 1..Len(clients) : k < i => thread[clients[k]] \in {"joined", "no_thread"}

IInv ==
    /\ TypeOK
    /\ JoinInv
    /\ NoThreadForgotten
    /\ NoThreadJoinedTwice
    /\ NoThreadAfterShutdown

LEMMA InitIInv == Init => IInv
<1> SUFFICES ASSUME Init PROVE IInv
  OBVIOUS
<1>1. clients \in Seq(Threads) /\ Len(clients) = 0
  BY DEF Init
<1>2. \A t \in Threads : thread[t] = "none"
  BY DEF Init
<1>5. core = "unloaded" /\ ~store /\ clients = <<>>
  BY DEF Init
<1>3. TypeOK
  <2>1. terminate \in BOOLEAN /\ listening \in BOOLEAN /\ store \in BOOLEAN
    BY Zenon DEF Init
  <2>2. thread \in [Threads -> ThreadState] /\ accepted \in Threads /\ i = 1 /\ lock = "free"
    BY DEF Init, ThreadState, Held
  <2> QED
    BY <1>1, <1>5, <2>1, <2>2 DEF TypeOK, Core
<1>4. ~ \E k \in 1..Len(clients) : TRUE
  BY <1>1
<1>6. JoinInv
  BY <1>2, <1>4, <1>5 DEF JoinInv, Running, Held
<1>7. NoThreadForgotten /\ NoThreadAfterShutdown
  BY <1>2, <1>5 DEF NoThreadForgotten, InFlight, NoThreadAfterShutdown, Running, Held
<1>8. NoThreadJoinedTwice
  BY <1>4 DEF NoThreadJoinedTwice
<1> QED
  BY <1>3, <1>6, <1>7, <1>8 DEF IInv

\* With nothing left to join, no thread is in flight.
LEMMA NobodyLeft ==
    ASSUME NoThreadForgotten, clients = <<>>
    PROVE  \A t \in Threads : ~InFlight(t)
<1>1. Len(clients) = 0
  BY EmptySeq
<1>2. ~ \E k \in 1..Len(clients) : TRUE
  BY <1>1
<1> QED
  BY <1>2 DEF NoThreadForgotten, InFlight

LEMMA LifeStep ==
    ASSUME IInv, Load \/ LoadFails \/ EventLoopStart \/ Accept \/ ReapSkip \/ ReapDone
                   \/ EventLoopEnd \/ Deinit \/ StoreDeinit
    PROVE  IInv'
<1> USE DEF IInv
<1>0. Len(clients) \in Nat
  BY LenProperties DEF TypeOK
<1>1. CASE Load \/ LoadFails
  <2>1. clients = <<>> /\ core = "unloaded" /\ clients' = <<>> /\ thread' = thread
    BY <1>1 DEF Load, LoadFails, JoinInv
  <2>2. \A t \in Threads : ~InFlight(t)
    BY <2>1, NobodyLeft
  <2>0. terminate' \in BOOLEAN /\ listening' \in BOOLEAN /\ store' \in BOOLEAN
    BY <1>1, Zenon DEF Load, LoadFails, TypeOK
  <2>3. TypeOK'
    BY <1>1, <2>0, EmptySeq DEF Load, LoadFails, TypeOK, Core, ThreadState, Held
  <2>4. JoinInv'
    BY <1>1, <2>1, <2>2 DEF Load, LoadFails, JoinInv, Running, Held
  <2> QED
    BY <2>1, <2>2, <2>3, <2>4 DEF NoThreadForgotten, NoThreadJoinedTwice,
     NoThreadAfterShutdown, InFlight, Running
<1>2. CASE EventLoopStart
  <2>1. JoinInv' /\ TypeOK'
    BY <1>2 DEF EventLoopStart, JoinInv, TypeOK, Core, ThreadState, Running, Held
  <2> QED
    BY <1>2, <2>1 DEF EventLoopStart, NoThreadForgotten, NoThreadJoinedTwice,
     NoThreadAfterShutdown, InFlight, Running
<1>3. CASE Accept
  <2>1. JoinInv' /\ TypeOK'
    BY <1>3 DEF Accept, JoinInv, TypeOK, Core, ThreadState, Running, Held
  <2> QED
    BY <1>3, <2>1 DEF Accept, NoThreadForgotten, NoThreadJoinedTwice,
     NoThreadAfterShutdown, InFlight, Running
<1>4. CASE ReapSkip \/ ReapDone
  <2>1. JoinInv' /\ TypeOK'
    BY <1>4 DEF ReapSkip, ReapDone, JoinInv, TypeOK, Core, ThreadState, Running, Held
  <2> QED
    BY <1>4, <2>1 DEF ReapSkip, ReapDone, NoThreadForgotten, NoThreadJoinedTwice,
     NoThreadAfterShutdown, InFlight, Running
<1>5. CASE EventLoopEnd
  <2>0. terminate' \in BOOLEAN /\ listening' \in BOOLEAN /\ store' \in BOOLEAN
    BY <1>5, Zenon DEF EventLoopEnd, TypeOK
  <2>1. TypeOK'
    BY <1>5, <2>0 DEF EventLoopEnd, TypeOK, Core, ThreadState, Held
  <2>2. \A k \in 1..Len(clients) : ~(k < 1) /\ thread[clients[k]] # "joined"
    BY <1>0, <1>5 DEF EventLoopEnd, NoThreadJoinedTwice
  <2>3. JoinInv'
    BY <1>5, <2>2 DEF EventLoopEnd, JoinInv, Running, Held
  <2> QED
    BY <1>5, <2>1, <2>2, <2>3 DEF EventLoopEnd, NoThreadForgotten, InFlight, NoThreadJoinedTwice,
                                  NoThreadAfterShutdown, Running, Held, JoinInv
<1>6. CASE Deinit
  <2>0. terminate' \in BOOLEAN /\ listening' \in BOOLEAN /\ store' \in BOOLEAN
    BY <1>6, Zenon DEF Deinit, TypeOK
  <2>1. TypeOK'
    BY <1>6, <2>0 DEF Deinit, TypeOK, Core, ThreadState, Held
  <2>2. clients = <<>> /\ Len(clients) = 0
    BY <1>6 DEF Deinit, JoinInv
  <2>3. JoinInv'
    BY <1>6, <2>2 DEF Deinit, JoinInv, Running, Held
  <2> QED
    BY <1>6, <2>1, <2>2, <2>3 DEF Deinit, NoThreadForgotten, InFlight, NoThreadJoinedTwice,
                                  NoThreadAfterShutdown, Running, Held, JoinInv
<1>7. CASE StoreDeinit
  <2>1. TypeOK'
    BY <1>7 DEF StoreDeinit, TypeOK, Core, ThreadState, Held
  <2>2. clients = <<>> /\ Len(clients) = 0
    BY <1>7 DEF StoreDeinit, JoinInv
  <2>3. \A t \in Threads : ~Running(t)
    BY <2>2, NobodyLeft DEF InFlight
  <2>4. JoinInv'
    BY <1>7, <2>2, <2>3 DEF StoreDeinit, JoinInv, Running, Held
  <2> QED
    BY <1>7, <2>1, <2>2, <2>3, <2>4 DEF StoreDeinit, NoThreadForgotten, InFlight, NoThreadJoinedTwice,
                                        NoThreadAfterShutdown, Running, Held
<1> QED
  BY <1>1, <1>2, <1>3, <1>4, <1>5, <1>6, <1>7

\* The core and the array stay as they are while threads that run go on
\* running, or end.
LEMMA ThreadsGoOn ==
    ASSUME IInv, UNCHANGED mine, thread' \in [Threads -> ThreadState], lock' \in Threads \cup {"free"},
           \A x \in Threads :
              thread'[x] = thread[x] \/ (Running(x) /\ (Running(x)' \/ thread'[x] = "exited"))
    PROVE  IInv'
<1> USE DEF IInv, mine
<1>1. \A k \in 1..Len(clients) : clients[k] \in Threads
  BY ElementOfSeq DEF TypeOK
<1>2. accepted \in Threads
  BY DEF TypeOK
<1>3. TypeOK'
  BY DEF TypeOK
<1>4. JoinInv'
  BY <1>1, <1>2 DEF JoinInv, Running, Held
<1>5. NoThreadForgotten'
  BY DEF NoThreadForgotten, InFlight, Running, Held
<1>6. NoThreadJoinedTwice'
  BY <1>1 DEF NoThreadJoinedTwice, Running, Held
<1>7. NoThreadAfterShutdown'
  BY DEF NoThreadAfterShutdown, Running, Held
<1> QED
  BY <1>3, <1>4, <1>5, <1>6, <1>7

LEMMA ThreadStepIInv ==
    ASSUME IInv, NEW t \in Threads, ThreadStep(t)
    PROVE  IInv'
<1> USE DEF IInv, TypeOK
<1>1. CASE GiveLock(t)
  BY <1>1, ThreadsGoOn DEF GiveLock, Running, Held
<1>2. CASE \E u \in Threads : Cross(t, u)
  <2>1. PICK u \in Threads : Cross(t, u)
    BY <1>2
  <2>2. /\ thread[t] = "serving" /\ thread[u] \in {"serving", "crossed"}
        /\ thread' = [thread EXCEPT ![t] = "crossed", ![u] = "crossed"] /\ UNCHANGED <<mine, lock>>
    BY <2>1 DEF Cross
  <2>3. /\ thread' \in [Threads -> ThreadState]
        /\ \A x \in Threads : thread'[x] = IF x \in {t, u} THEN "crossed" ELSE thread[x]
    BY <2>2 DEF ThreadState, Held
  <2> QED
    BY <2>2, <2>3, ThreadsGoOn DEF Running, Held
<1>3. ASSUME NEW from \in Held \cup {"serving"}, NEW to \in Held \cup {"serving", "exited"},
             Goes(t, from, to), UNCHANGED mine, lock' \in Threads \cup {"free"}
      PROVE  IInv'
  <2>1. /\ thread' \in [Threads -> ThreadState] /\ thread'[t] = to
        /\ \A x \in Threads : x # t => thread'[x] = thread[x]
    BY <1>3 DEF Goes, ThreadState
  <2>2. Running(t) /\ (Running(t)' \/ thread'[t] = "exited")
    BY <1>3, <2>1 DEF Goes, Running
  <2> QED
    BY <1>3, <2>1, <2>2, ThreadsGoOn DEF Running
<1>4. CASE FallAsleep(t) \/ TakeLock(t) \/ SendCommand(t) \/ WriteBlocks(t) \/ WriteReturns(t)
  BY <1>3, <1>4 DEF FallAsleep, TakeLock, SendCommand, WriteBlocks, WriteReturns, Held
<1>5. CASE GetLock(t)
  BY <1>3, <1>5 DEF GetLock, Held
<1>6. CASE ClientLeaves(t) \/ SeeTermination(t)
  BY <1>3, <1>6 DEF ClientLeaves, SeeTermination
<1> QED
  BY <1>1, <1>2, <1>4, <1>5, <1>6 DEF ThreadStep

\* reap_client_threads joins a finished thread and fills its gap.
LEMMA ReapJoinStep ==
    ASSUME IInv, ReapJoin
    PROVE  IInv'
<1> DEFINE t == clients[i]
           n == Len(clients)
<1>1. /\ clients \in Seq(Threads) /\ n \in Nat /\ i \in 1..n
      /\ \A k \in 1..n : clients[k] \in Threads
      /\ t \in Threads /\ thread[t] = "exited"
      /\ thread \in [Threads -> ThreadState] /\ accepted \in Threads
  BY LenProperties, ElementOfSeq DEF IInv, TypeOK, ReapJoin
<1>2. \A k, l \in 1..n : clients[k] = clients[l] => k = l
  BY DEF IInv, NoThreadJoinedTwice
<1>3. core = "reap" /\ core' = "reap" /\ thread[accepted] = "none" /\ store /\ store'
  BY DEF IInv, JoinInv, ReapJoin, TypeOK
<1>4. /\ UNCHANGED <<i, lock, accepted, terminate, listening, store>>
      /\ thread' = [thread EXCEPT ![t] = "joined"]
      /\ clients' = [k \in 1..(n - 1) |-> IF k = i THEN clients[n] ELSE clients[k]]
  BY DEF ReapJoin
<1>5. /\ clients' \in Seq(Threads) /\ Len(clients') = n - 1
      /\ \A k \in 1..Len(clients') : \E l \in 1..n : l # i /\ clients'[k] = clients[l]
      /\ \A l \in 1..n : l # i => \E k \in 1..Len(clients') : clients'[k] = clients[l]
      /\ \A k, l \in 1..Len(clients') : clients'[k] = clients'[l] => k = l
  <2>1. clients' \in Seq(Threads) /\ Len(clients') = n - 1
    BY <1>1, <1>4
  <2>2. \A k \in 1..Len(clients') : clients'[k] = IF k = i THEN clients[n] ELSE clients[k]
    BY <1>1, <1>4, <2>1
  <2>3. n \in Nat \ {0} /\ i \in Nat /\ 1 <= i /\ i <= n
    BY <1>1
  <2> HIDE DEF t, n
  <2>4. \A k \in 1..Len(clients') : \E l \in 1..n : l # i /\ clients'[k] = clients[l]
    <3> SUFFICES ASSUME NEW k \in 1..Len(clients')
                 PROVE  \E l \in 1..n : l # i /\ clients'[k] = clients[l]
      OBVIOUS
    <3>1. CASE k = i
      BY <2>1, <2>2, <2>3, <3>1
    <3>2. CASE k # i
      BY <2>1, <2>2, <2>3, <3>2
    <3> QED
      BY <3>1, <3>2
  <2>5. \A l \in 1..n : l # i => \E k \in 1..Len(clients') : clients'[k] = clients[l]
    <3> SUFFICES ASSUME NEW l \in 1..n, l # i
                 PROVE  \E k \in 1..Len(clients') : clients'[k] = clients[l]
      OBVIOUS
    <3>1. CASE l = n
      <4>1. i \in 1..Len(clients')
        BY <2>1, <2>3, <3>1
      <4>2. clients'[i] = clients[l]
        BY <2>2, <3>1, <4>1
      <4> QED
        BY <4>1, <4>2
    <3>2. CASE l # n
      <4>1. l \in 1..Len(clients')
        BY <2>1, <2>3, <3>2
      <4>2. clients'[l] = clients[l]
        BY <2>2, <4>1
      <4> QED
        BY <4>1, <4>2
    <3> QED
      BY <3>1, <3>2
  <2>6. \A k, l \in 1..Len(clients') : clients'[k] = clients'[l] => k = l
    BY <1>2, <2>1, <2>2, <2>3 DEF n
  <2> QED
    BY <2>1, <2>4, <2>5, <2>6
<1>6. thread'[t] = "joined" /\ \A x \in Threads : x # t => thread'[x] = thread[x]
  BY <1>1, <1>4
<1>7. \A k \in 1..Len(clients') : /\ clients'[k] \in Threads \ {t}
                                  /\ \E l \in 1..n : clients'[k] = clients[l]
  <2> SUFFICES ASSUME NEW k \in 1..Len(clients')
               PROVE  /\ clients'[k] \in Threads \ {t}
                      /\ \E l \in 1..n : clients'[k] = clients[l]
    OBVIOUS
  <2>1. PICK l \in 1..n : l # i /\ clients'[k] = clients[l]
    BY <1>5
  <2>2. clients[l] \in Threads /\ clients[l] # clients[i]
    BY <1>1, <1>2, <2>1
  <2>3. clients'[k] \in Threads \ {t}
    BY <2>1, <2>2
  <2> QED
    BY <2>1, <2>3
<1>8. thread' \in [Threads -> ThreadState]
  BY <1>1, <1>4 DEF ThreadState, Held
<1> HIDE DEF t, n
<1>9. TypeOK'
  BY <1>3, <1>4, <1>5, <1>8 DEF IInv, TypeOK, Core
<1>10. JoinInv'
  <2>1. thread'[accepted'] = "none"
    BY <1>1, <1>3, <1>4, <1>6
  <2>2. \A k \in 1..Len(clients') : thread'[clients'[k]] # "none"
    BY <1>6, <1>7 DEF IInv, JoinInv, n
  <2> QED
    BY <1>3, <2>1, <2>2 DEF JoinInv
<1>11. NoThreadForgotten'
  <2> SUFFICES ASSUME NEW x \in Threads, InFlight(x)'
               PROVE  \E k \in 1..Len(clients') : clients'[k] = x
    BY DEF NoThreadForgotten, InFlight
  <2>1. x # t /\ InFlight(x)
    BY <1>6 DEF InFlight, Running, Held
  <2>2. PICK l \in 1..n : clients[l] = x
    BY <2>1 DEF IInv, NoThreadForgotten, InFlight, n
  <2>3. l # i
    BY <2>1, <2>2 DEF t
  <2> QED
    BY <1>5, <2>2, <2>3
<1>12. NoThreadJoinedTwice'
  <2>1. \A k \in 1..n : thread[clients[k]] # "joined"
    BY <1>3 DEF IInv, NoThreadJoinedTwice, n
  <2>2. \A k \in 1..Len(clients') : thread'[clients'[k]] # "joined"
    BY <1>6, <1>7, <2>1
  <2> QED
    BY <1>5, <2>2 DEF NoThreadJoinedTwice
<1>13. NoThreadAfterShutdown'
  BY <1>3 DEF NoThreadAfterShutdown
<1> QED
  BY <1>9, <1>10, <1>11, <1>12, <1>13 DEF IInv

\* accept_connection appends an ID that is not in the array yet.
LEMMA CreateStep ==
    ASSUME IInv, Create
    PROVE  IInv'
<1> DEFINE n == Len(clients)
<1>1. /\ clients \in Seq(Threads) /\ n \in Nat
      /\ \A k \in 1..n : clients[k] \in Threads
      /\ thread \in [Threads -> ThreadState] /\ accepted \in Threads
  BY LenProperties, ElementOfSeq DEF IInv, TypeOK
<1>2. core = "create" /\ core' = "loop" /\ store /\ store' /\ thread[accepted] = "none"
  BY DEF IInv, JoinInv, Create, TypeOK
<1>3. PICK outcome \in {"serving", "no_thread"} : thread' = [thread EXCEPT ![accepted] = outcome]
  BY DEF Create
<1>4. /\ clients' = Append(clients, accepted)
      /\ UNCHANGED <<i, lock, accepted, terminate, listening, store>>
  BY DEF Create
<1>5. /\ clients' \in Seq(Threads) /\ Len(clients') = n + 1
      /\ \A k \in 1..n : clients'[k] = clients[k]
      /\ clients'[n + 1] = accepted
  BY <1>1, <1>4, AppendProperties
<1>6. \A k \in 1..(n + 1) : k \in 1..n \/ k = n + 1
  BY <1>1
<1>7. n + 1 \in 1..(n + 1) /\ \A k \in 1..n : k \in 1..(n + 1)
  BY <1>1
<1> HIDE DEF n
<1>8. thread'[accepted] = outcome /\ \A x \in Threads : x # accepted => thread'[x] = thread[x]
  BY <1>1, <1>3
<1>9. \A k \in 1..n : clients[k] # accepted
  BY <1>2 DEF IInv, JoinInv, n
<1>10. TypeOK'
  <2>1. thread' \in [Threads -> ThreadState]
    BY <1>1, <1>3 DEF ThreadState, Held
  <2> QED
    BY <1>2, <1>4, <1>5, <2>1 DEF IInv, TypeOK, Core
<1>11. JoinInv'
  <2>1. \A k \in 1..n : thread'[clients'[k]] # "none"
    BY <1>1, <1>5, <1>8, <1>9 DEF IInv, JoinInv, n
  <2>2. \A k \in 1..Len(clients') : thread'[clients'[k]] # "none"
    BY <1>5, <1>6, <1>8, <2>1
  <2> QED
    BY <1>2, <2>2 DEF JoinInv
<1>12. NoThreadForgotten'
  <2> SUFFICES ASSUME NEW x \in Threads, InFlight(x)'
               PROVE  \E k \in 1..Len(clients') : clients'[k] = x
    BY DEF NoThreadForgotten, InFlight
  <2>1. CASE x = accepted
    BY <1>5, <1>7, <2>1
  <2>2. CASE x # accepted
    <3>1. PICK l \in 1..n : clients[l] = x
      BY <1>8, <2>2 DEF IInv, NoThreadForgotten, InFlight, Running, Held, n
    <3> QED
      BY <1>5, <1>7, <3>1
  <2> QED
    BY <2>1, <2>2
<1>13. NoThreadJoinedTwice'
  <2>1. \A k \in 1..n : thread[clients[k]] # "joined"
    BY <1>2 DEF IInv, NoThreadJoinedTwice, n
  <2>2. \A k \in 1..Len(clients') : thread'[clients'[k]] # "joined"
    BY <1>1, <1>5, <1>6, <1>8, <1>9, <2>1
  <2>3. \A k, l \in 1..n : clients[k] = clients[l] => k = l
    BY DEF IInv, NoThreadJoinedTwice, n
  <2>4. \A k, l \in 1..Len(clients') : clients'[k] = clients'[l] => k = l
    BY <1>5, <1>6, <1>9, <2>3
  <2> QED
    BY <2>2, <2>4 DEF NoThreadJoinedTwice
<1>14. NoThreadAfterShutdown'
  BY <1>2 DEF NoThreadAfterShutdown
<1> QED
  BY <1>10, <1>11, <1>12, <1>13, <1>14 DEF IInv

LEMMA CoreWakesStep ==
    ASSUME IInv, BrokerEvent \/ RunCommand
    PROVE  IInv'
<1>1. PICK t \in Threads : /\ thread[t] \in {"asleep", "command"}
                          /\ thread' = [thread EXCEPT ![t] = "serving"]
  BY DEF BrokerEvent, RunCommand
<1>2. UNCHANGED mine /\ UNCHANGED lock
  BY DEF BrokerEvent, RunCommand, mine
<1>3. thread' \in [Threads -> ThreadState] /\ thread'[t] = "serving"
      /\ \A x \in Threads : x # t => thread'[x] = thread[x]
  BY <1>1 DEF IInv, TypeOK, ThreadState
<1>4. Running(t) /\ Running(t)'
  BY <1>1, <1>3 DEF Running, Held
<1> QED
  BY <1>2, <1>3, <1>4, ThreadsGoOn DEF IInv, TypeOK

\* An ID that is no thread is passed over.
LEMMA JoinFailsStep ==
    ASSUME IInv, JoinFails
    PROVE  IInv'
<1>1. /\ i \in Nat \ {0} /\ i' = i + 1 /\ i + 1 \in Nat \ {0} /\ Len(clients) \in Nat
      /\ core \in {"join", "join_again"} /\ thread[clients[i]] = "no_thread"
      /\ UNCHANGED <<core, thread, lock, clients, accepted, terminate, listening, store>>
  BY LenProperties DEF IInv, TypeOK, JoinFails
<1>2. \A k \in 1..Len(clients) : (k < i + 1 => k < i \/ k = i) /\ (k < i => k < i + 1)
  BY <1>1
<1>3. TypeOK'
  BY <1>1 DEF IInv, TypeOK
<1>4. JoinInv'
  BY <1>1, <1>2 DEF IInv, JoinInv, Running
<1>5. NoThreadJoinedTwice'
  BY <1>1, <1>2 DEF IInv, NoThreadJoinedTwice
<1>6. NoThreadForgotten' /\ NoThreadAfterShutdown'
  BY <1>1 DEF IInv, NoThreadForgotten, NoThreadAfterShutdown, Running
<1> QED
  BY <1>3, <1>4, <1>5, <1>6 DEF IInv

\* shutdown_threads joins the next thread of the array.
LEMMA JoinStep ==
    ASSUME IInv, Join
    PROVE  IInv'
<1> DEFINE t == clients[i]
           n == Len(clients)
<1>1. /\ n \in Nat /\ i \in 1..n
      /\ \A k \in 1..n : clients[k] \in Threads
      /\ t \in Threads /\ thread[t] = "exited"
      /\ thread \in [Threads -> ThreadState]
  BY LenProperties, ElementOfSeq DEF IInv, TypeOK, Join
<1>2. /\ core \in {"join", "join_again"} /\ i' = i + 1
      /\ thread' = [thread EXCEPT ![t] = "joined"]
      /\ UNCHANGED <<core, lock, clients, accepted, terminate, listening, store>>
  BY DEF Join
<1>3. thread'[t] = "joined" /\ \A x \in Threads : x # t => thread'[x] = thread[x]
  BY <1>1, <1>2
<1>4. store
  BY <1>2 DEF IInv, JoinInv
<1>5. \A k \in 1..n : k < i + 1 => k < i \/ k = i
  BY <1>1
<1>6. \A k \in 1..n : k < i => k < i + 1
  BY <1>1
<1>7. i < i + 1 /\ i + 1 \in Nat \ {0}
  BY <1>1
<1>8. thread' \in [Threads -> ThreadState]
  BY <1>1, <1>2 DEF ThreadState, Held
<1>9. TypeOK'
  BY <1>2, <1>7, <1>8 DEF IInv, TypeOK
<1>10. JoinInv'
  <2>1. \A k \in 1..n : thread'[clients[k]] # "none"
    BY <1>1, <1>3 DEF IInv, JoinInv
  <2>2. \A k \in 1..n : k < i + 1 => thread'[clients[k]] \in {"joined", "no_thread"}
    BY <1>1, <1>2, <1>3, <1>5 DEF IInv, JoinInv
  <2> QED
    BY <1>2, <1>4, <2>1, <2>2 DEF IInv, JoinInv
<1>11. NoThreadForgotten'
  BY <1>2, <1>3 DEF IInv, NoThreadForgotten, InFlight, Running, Held
<1>12. NoThreadJoinedTwice'
  <2>1. \A k, l \in 1..n : clients[k] = clients[l] => k = l
    BY DEF IInv, NoThreadJoinedTwice
  <2>2. \A k \in 1..n : thread[clients[k]] = "joined" => k < i
    BY DEF IInv, NoThreadJoinedTwice
  <2>3. \A k \in 1..n : thread'[clients[k]] = "joined" => k < i + 1
    BY <1>1, <1>3, <1>6, <1>7, <2>1, <2>2
  <2> QED
    BY <1>2, <2>1, <2>3 DEF NoThreadJoinedTwice
<1>13. NoThreadAfterShutdown'
  BY <1>2, <1>4 DEF NoThreadAfterShutdown
<1> QED
  BY <1>9, <1>10, <1>11, <1>12, <1>13 DEF IInv

\* Every ID is joined: g_client_threads may be freed.
LEMMA JoinDoneStep ==
    ASSUME IInv, JoinDone
    PROVE  IInv'
<1>1. /\ Len(clients) \in Nat /\ i \in Nat /\ i > Len(clients)
      /\ core \in {"join", "join_again"} /\ core' \in {"ended", "deinit"}
      /\ clients' = <<>> /\ i' = 1
      /\ UNCHANGED <<thread, lock, accepted, terminate, listening, store>>
  BY LenProperties DEF IInv, TypeOK, JoinDone
<1>2. \A k \in 1..Len(clients) : k < i
  BY <1>1
<1>3. \A k \in 1..Len(clients) : thread[clients[k]] \in {"joined", "no_thread"}
  BY <1>1, <1>2 DEF IInv, JoinInv
<1>4. \A x \in Threads : ~InFlight(x)
  BY <1>3 DEF IInv, NoThreadForgotten, InFlight, Running, Held
<1>5. Len(clients') = 0 /\ clients' \in Seq(Threads)
  BY <1>1, EmptySeq
<1>6. ~ \E k \in 1..Len(clients') : TRUE
  BY <1>5
<1>7. TypeOK'
  BY <1>1, <1>5 DEF IInv, TypeOK, Core
<1>8. JoinInv'
  BY <1>1, <1>6 DEF IInv, JoinInv
<1>9. NoThreadForgotten' /\ NoThreadAfterShutdown'
  BY <1>1, <1>4 DEF NoThreadForgotten, InFlight, NoThreadAfterShutdown, Running, Held
<1>10. NoThreadJoinedTwice'
  BY <1>6 DEF NoThreadJoinedTwice
<1> QED
  BY <1>7, <1>8, <1>9, <1>10 DEF IInv

LEMMA NextIInv == IInv /\ [Next]_vars => IInv'
<1> SUFFICES ASSUME IInv, [Next]_vars PROVE IInv'
  OBVIOUS
<1>1. CASE CoreStep
  BY <1>1, LifeStep, ReapJoinStep, CreateStep, CoreWakesStep, JoinStep, JoinFailsStep, JoinDoneStep
     DEF CoreStep
<1>2. CASE \E t \in Threads : ThreadStep(t)
  BY <1>2, ThreadStepIInv
<1>3. CASE UNCHANGED vars
  BY <1>3 DEF vars, IInv, TypeOK, JoinInv, NoThreadForgotten, InFlight, NoThreadJoinedTwice,
              NoThreadAfterShutdown, Running, Held
<1> QED
  BY <1>1, <1>2, <1>3 DEF Next

THEOREM InvariantHolds == Spec => []IInv
<1> QED
  BY InitIInv, NextIInv, PTL DEF Spec

\* Every variable keeps its type.
THEOREM TypesCorrect == Spec => []TypeOK
<1>1. IInv => TypeOK
  BY DEF IInv
<1> QED
  BY <1>1, InvariantHolds, PTL

\* shutdown_threads finds every thread it has to join: the gap filling of
\* reap_client_threads loses none, however many there are.
THEOREM NobodyForgotten == Spec => []NoThreadForgotten
<1>1. IInv => NoThreadForgotten
  BY DEF IInv
<1> QED
  BY <1>1, InvariantHolds, PTL

\* No thread is joined twice.
THEOREM JoinedOnce == Spec => []NoThreadJoinedTwice
<1>1. IInv => NoThreadJoinedTwice
  BY DEF IInv
<1> QED
  BY <1>1, InvariantHolds, PTL

\* No client thread runs once the event loop has ended, and none without the
\* tables ("this is strictly mandatory", module.c:477).
THEOREM AllTerminated == Spec => []NoThreadAfterShutdown
<1>1. IInv => NoThreadAfterShutdown
  BY DEF IInv
<1> QED
  BY <1>1, InvariantHolds, PTL

-----------------------------------------------------------------------------
(* Threads that wait: Query::doWait                                        *)

\* g_wait_mutex belongs to the thread that is between pthread_mutex_lock and
\* pthread_mutex_unlock of doWait and not inside pthread_cond_wait.
MutexHeldAroundWait ==
    \A c \in Clients : pc[c] \in {"wait", "unlock"} <=> mutex = c

\* Whoever is on a condition variable sleeps, and on that of its own trigger.
AsleepOnOwnTrigger ==
    \A t \in Triggers \cup {All} : \A c \in sleepers[t] :
        pc[c] = "asleep" /\ trigger[c] = t

\* The deadline of a query without a timeout never passes.
UnlimitedIsNeverLate ==
    \A c \in Clients : Waiting(c) /\ request[c].timeout = 0 => c \notin late

\* Its wait has never returned ETIMEDOUT: what an earlier query left in ret is
\* overwritten before it is looked at.
UnlimitedNeverExpires ==
    \A c \in Clients :
        pc[c] \in {"relock", "unlock"} /\ request[c].timeout = 0 => ret[c] # "ETIMEDOUT"

WaitIInv ==
    /\ WaitTypeOK
    /\ MutexHeldAroundWait
    /\ AsleepOnOwnTrigger
    /\ UnlimitedIsNeverLate
    /\ UnlimitedNeverExpires

LEMMA InitWaitIInv == WaitInit => WaitIInv
<1> SUFFICES ASSUME WaitInit PROVE WaitIInv
  OBVIOUS
<1> USE RequestsAssumption
<1>1. WaitTypeOK
  BY DEF WaitInit, WaitTypeOK, Places
<1>2. MutexHeldAroundWait
  BY DEF WaitInit, MutexHeldAroundWait
<1>3. AsleepOnOwnTrigger
  BY DEF WaitInit, AsleepOnOwnTrigger
<1>4. UnlimitedIsNeverLate /\ UnlimitedNeverExpires
  BY DEF WaitInit, UnlimitedIsNeverLate, UnlimitedNeverExpires
<1> QED
  BY <1>1, <1>2, <1>3, <1>4 DEF WaitIInv

\* The nanoseconds of a deadline are never negative.
LEMMA DeadlineIsNat ==
    ASSUME NEW usec \in Microseconds, NEW timeout \in Nat
    PROVE  DeadlineNs(usec, timeout) \in Nat
<1>1. usec \in Nat
  BY ClockAssumption
<1>2. timeout % 1000 \in Nat
  BY SMT
<1> DEFINE sum == usec * 1000 + 1000 * 1000 * (timeout % 1000)
<1>3. sum \in Nat
  BY SMT, <1>1, <1>2
<1> QED
  BY SMT, <1>3 DEF DeadlineNs, NsPerSecond

LEMMA WaitTypeStep == WaitTypeOK /\ [WaitNext]_waitVars => WaitTypeOK'
<1> SUFFICES ASSUME WaitTypeOK, [WaitNext]_waitVars PROVE WaitTypeOK'
  OBVIOUS
<1> USE RequestsAssumption DEF WaitTypeOK
<1>1. CASE Event
  BY <1>1 DEF Event
<1>2. CASE Broadcast
  <2>1. broadcasts' \in {<<>>} \cup {<<t>> : t \in Triggers}
    BY <1>2 DEF Broadcast
  <2>2. sleepers' \in [Triggers \cup {All} -> SUBSET Clients]
    BY <1>2 DEF Broadcast
  <2>3. pc' \in [Clients -> Places] /\ ret' \in [Clients -> {"woken", "ETIMEDOUT", "EINVAL"}]
    BY <1>2 DEF Broadcast, Places
  <2> QED
    BY <1>2, <2>1, <2>2, <2>3 DEF Broadcast
<1>3. ASSUME NEW c \in Clients, Start(c) PROVE WaitTypeOK'
  BY <1>3 DEF Start, Goto, Places, world
<1>4. ASSUME NEW c \in Clients, SkipWait(c) \/ Recheck(c) \/ Answer(c) PROVE WaitTypeOK'
  BY <1>4 DEF SkipWait, Recheck, Answer, Goto, Places, world
<1>5. ASSUME NEW c \in Clients, Prepare(c) PROVE WaitTypeOK'
  <2>1. request[c].timeout \in Nat /\ request[c].trigger \in Triggers \cup {All, None}
    OBVIOUS
  <2>2. deadline' \in [Clients -> Nat]
    BY <1>5, <2>1, DeadlineIsNat DEF Prepare
  <2>3. trigger' \in [Clients -> Triggers \cup {All, None}]
    BY <1>5, <2>1 DEF Prepare
  <2> QED
    BY <1>5, <2>2, <2>3 DEF Prepare, Goto, Places, world
<1>6. ASSUME NEW c \in Clients, Lock(c) \/ Relock(c) \/ Unlock(c) PROVE WaitTypeOK'
  BY <1>6 DEF Lock, Relock, Unlock, Goto, Places, world
<1>7. ASSUME NEW c \in Clients, Sleep(c) PROVE WaitTypeOK'
  BY <1>7 DEF Sleep, Goto, Places, world
<1>8. ASSUME NEW c \in Clients, ReturnAtOnce(c) PROVE WaitTypeOK'
  BY <1>8 DEF ReturnAtOnce, Goto, Places, world
<1>9. ASSUME NEW c \in Clients, DeadlinePasses(c) PROVE WaitTypeOK'
  BY <1>9 DEF DeadlinePasses, world
<1>10. ASSUME NEW c \in Clients, NEW why \in {"woken", "ETIMEDOUT"}, WakeUp(c, why)
       PROVE  WaitTypeOK'
  <2>1. pc' \in [Clients -> Places] /\ ret' \in [Clients -> {"woken", "ETIMEDOUT", "EINVAL"}]
    BY <1>10 DEF WakeUp, Goto, Places
  <2>2. sleepers' \in [Triggers \cup {All} -> SUBSET Clients]
    BY <1>10 DEF WakeUp
  <2> QED
    BY <1>10, <2>1, <2>2 DEF WakeUp, world
<1>11. CASE UNCHANGED waitVars
  BY <1>11 DEF waitVars
<1> QED
  BY <1>1, <1>2, <1>3, <1>4, <1>5, <1>6, <1>7, <1>8, <1>9, <1>10, <1>11
     DEF WaitNext, Run, Expire, Spurious

\* The mutex changes hands at pthread_mutex_lock, pthread_mutex_unlock and in
\* pthread_cond_wait, each time together with the place of its owner.
LEMMA MutexStep ==
    WaitTypeOK /\ AsleepOnOwnTrigger /\ MutexHeldAroundWait /\ [WaitNext]_waitVars => MutexHeldAroundWait'
<1> SUFFICES ASSUME WaitTypeOK, AsleepOnOwnTrigger, MutexHeldAroundWait, [WaitNext]_waitVars
             PROVE  MutexHeldAroundWait'
  OBVIOUS
<1> USE RequestsAssumption DEF MutexHeldAroundWait, WaitTypeOK
<1>1. CASE Event
  BY <1>1 DEF Event
<1>2. CASE Broadcast
  <2>1. broadcasts[1] \in Triggers \cup {All}
    BY <1>2 DEF Broadcast
  <2> QED
    BY <1>2, <2>1 DEF Broadcast, AsleepOnOwnTrigger
<1>3. ASSUME NEW c \in Clients, Start(c) \/ SkipWait(c) \/ Recheck(c) \/ Answer(c)
      PROVE  MutexHeldAroundWait'
  BY <1>3 DEF Start, SkipWait, Recheck, Answer, Goto
<1>4. ASSUME NEW c \in Clients, Prepare(c) \/ DeadlinePasses(c) PROVE MutexHeldAroundWait'
  BY <1>4 DEF Prepare, DeadlinePasses, Goto
<1>5. ASSUME NEW c \in Clients, Lock(c) \/ Relock(c) PROVE MutexHeldAroundWait'
  BY <1>5 DEF Lock, Relock, Goto
<1>6. ASSUME NEW c \in Clients, Unlock(c) PROVE MutexHeldAroundWait'
  BY <1>6 DEF Unlock, Goto
<1>7. ASSUME NEW c \in Clients, Sleep(c) \/ ReturnAtOnce(c) PROVE MutexHeldAroundWait'
  BY <1>7 DEF Sleep, ReturnAtOnce, Goto
<1>8. ASSUME NEW c \in Clients, Expire(c) \/ Spurious(c) PROVE MutexHeldAroundWait'
  BY <1>8 DEF Expire, Spurious, WakeUp, Goto
<1>9. CASE UNCHANGED waitVars
  BY <1>9 DEF waitVars
<1> QED
  BY <1>1, <1>2, <1>3, <1>4, <1>5, <1>6, <1>7, <1>8, <1>9 DEF WaitNext, Run

\* Only Sleep puts a client on a condition variable; every wakeup takes it off
\* the one that it is on.
LEMMA SleepersStep == WaitTypeOK /\ AsleepOnOwnTrigger /\ [WaitNext]_waitVars => AsleepOnOwnTrigger'
<1> SUFFICES ASSUME WaitTypeOK, AsleepOnOwnTrigger, [WaitNext]_waitVars PROVE AsleepOnOwnTrigger'
  OBVIOUS
<1> USE DEF AsleepOnOwnTrigger, WaitTypeOK
<1>1. CASE Event
  BY <1>1 DEF Event
<1>2. CASE Broadcast
  <2>1. broadcasts[1] \in Triggers \cup {All}
    BY <1>2 DEF Broadcast
  <2>2. ASSUME NEW t \in Triggers \cup {All}, NEW c \in sleepers'[t]
        PROVE  t # broadcasts[1] /\ c \in sleepers[t] /\ c \notin sleepers[broadcasts[1]] /\ c \in Clients
    BY <1>2, <2>1, <2>2 DEF Broadcast
  <2> QED
    BY <1>2, <2>2 DEF Broadcast
<1>3. ASSUME NEW c \in Clients, Start(c) \/ SkipWait(c) \/ Recheck(c) \/ Answer(c)
      PROVE  AsleepOnOwnTrigger'
  BY <1>3 DEF Start, SkipWait, Recheck, Answer, Goto
<1>4. ASSUME NEW c \in Clients, Prepare(c) \/ DeadlinePasses(c) PROVE AsleepOnOwnTrigger'
  BY <1>4 DEF Prepare, DeadlinePasses, Goto
<1>5. ASSUME NEW c \in Clients, Lock(c) \/ Relock(c) \/ Unlock(c) \/ ReturnAtOnce(c)
      PROVE  AsleepOnOwnTrigger'
  BY <1>5 DEF Lock, Relock, Unlock, ReturnAtOnce, Goto
<1>6. ASSUME NEW c \in Clients, Sleep(c) PROVE AsleepOnOwnTrigger'
  BY <1>6 DEF Sleep, Goto
<1>7. ASSUME NEW c \in Clients, NEW why, WakeUp(c, why) PROVE AsleepOnOwnTrigger'
  <2>1. ASSUME NEW t \in Triggers \cup {All}, NEW d \in sleepers'[t]
        PROVE  d \in sleepers[t] /\ d # c /\ d \in Clients
    BY <1>7, <2>1 DEF WakeUp
  <2> QED
    BY <1>7, <2>1 DEF WakeUp, Goto
<1>8. CASE UNCHANGED waitVars
  BY <1>8 DEF waitVars
<1> QED
  BY <1>1, <1>2, <1>3, <1>4, <1>5, <1>6, <1>7, <1>8 DEF WaitNext, Run, Expire, Spurious

LEMMA LateStep ==
    WaitTypeOK /\ AsleepOnOwnTrigger /\ UnlimitedIsNeverLate /\ [WaitNext]_waitVars => UnlimitedIsNeverLate'
<1> SUFFICES ASSUME WaitTypeOK, AsleepOnOwnTrigger, UnlimitedIsNeverLate, [WaitNext]_waitVars
             PROVE  UnlimitedIsNeverLate'
  OBVIOUS
<1> USE DEF UnlimitedIsNeverLate, Waiting, WaitTypeOK
<1>1. CASE Event
  BY <1>1 DEF Event
<1>2. CASE Broadcast
  <2>1. broadcasts[1] \in Triggers \cup {All}
    BY <1>2 DEF Broadcast
  <2> QED
    BY <1>2, <2>1 DEF Broadcast, AsleepOnOwnTrigger
<1>3. ASSUME NEW c \in Clients, Start(c) \/ SkipWait(c) \/ Recheck(c) \/ Answer(c)
      PROVE  UnlimitedIsNeverLate'
  BY <1>3 DEF Start, SkipWait, Recheck, Answer, Goto
<1>4. ASSUME NEW c \in Clients, Prepare(c) \/ DeadlinePasses(c) PROVE UnlimitedIsNeverLate'
  BY <1>4 DEF Prepare, DeadlinePasses, Goto, world
<1>5. ASSUME NEW c \in Clients, Lock(c) \/ Relock(c) \/ Unlock(c) PROVE UnlimitedIsNeverLate'
  BY <1>5 DEF Lock, Relock, Unlock, Goto
<1>6. ASSUME NEW c \in Clients, Sleep(c) \/ ReturnAtOnce(c) PROVE UnlimitedIsNeverLate'
  BY <1>6 DEF Sleep, ReturnAtOnce, Goto
<1>7. ASSUME NEW c \in Clients, Expire(c) \/ Spurious(c) PROVE UnlimitedIsNeverLate'
  BY <1>7 DEF Expire, Spurious, WakeUp, Goto
<1>8. CASE UNCHANGED waitVars
  BY <1>8 DEF waitVars
<1> QED
  BY <1>1, <1>2, <1>3, <1>4, <1>5, <1>6, <1>7, <1>8 DEF WaitNext, Run

LEMMA ExpiryStep ==
    WaitTypeOK /\ UnlimitedIsNeverLate /\ UnlimitedNeverExpires /\ [WaitNext]_waitVars
        => UnlimitedNeverExpires'
<1> SUFFICES ASSUME WaitTypeOK, UnlimitedIsNeverLate, UnlimitedNeverExpires, [WaitNext]_waitVars
             PROVE  UnlimitedNeverExpires'
  OBVIOUS
<1> USE DEF UnlimitedNeverExpires, WaitTypeOK
<1>1. CASE Event
  BY <1>1 DEF Event
<1>2. CASE Broadcast
  BY <1>2 DEF Broadcast
<1>3. ASSUME NEW c \in Clients, Start(c) \/ SkipWait(c) \/ Recheck(c) \/ Answer(c)
      PROVE  UnlimitedNeverExpires'
  BY <1>3 DEF Start, SkipWait, Recheck, Answer, Goto
<1>4. ASSUME NEW c \in Clients, Prepare(c) \/ DeadlinePasses(c) PROVE UnlimitedNeverExpires'
  BY <1>4 DEF Prepare, DeadlinePasses, Goto
<1>5. ASSUME NEW c \in Clients, Lock(c) \/ Relock(c) \/ Unlock(c) \/ Sleep(c)
      PROVE  UnlimitedNeverExpires'
  BY <1>5 DEF Lock, Relock, Unlock, Sleep, Goto
<1>6. ASSUME NEW c \in Clients, ReturnAtOnce(c) PROVE UnlimitedNeverExpires'
  BY <1>6 DEF ReturnAtOnce, WellFormed, Goto, UnlimitedIsNeverLate, Waiting
<1>7. ASSUME NEW c \in Clients, Expire(c) \/ Spurious(c) PROVE UnlimitedNeverExpires'
  BY <1>7 DEF Expire, Spurious, WakeUp, Goto, UnlimitedIsNeverLate, Waiting
<1>8. CASE UNCHANGED waitVars
  BY <1>8 DEF waitVars
<1> QED
  BY <1>1, <1>2, <1>3, <1>4, <1>5, <1>6, <1>7, <1>8 DEF WaitNext, Run

LEMMA WaitIInvStep == WaitIInv /\ [WaitNext]_waitVars => WaitIInv'
  BY WaitTypeStep, MutexStep, SleepersStep, LateStep, ExpiryStep DEF WaitIInv

THEOREM WaitIInvCorrect == WaitSpec => []WaitIInv
  BY InitWaitIInv, WaitIInvStep, PTL DEF WaitSpec

\* The three ways out of doWait: SkipWait finds the condition true, Recheck
\* does, and a timeout is not among the answers that an unlimited wait gets.
LEMMA ReturnsTrue ==
    ASSUME WaitIInv, [WaitNext]_waitVars, NEW c \in Clients,
           pc[c] # "returned", pc'[c] = "returned",
           request[c].condition, request[c].timeout = 0
    PROVE  holds
<1> USE DEF WaitIInv, WaitTypeOK
<1>1. CASE Event \/ Broadcast
  BY <1>1 DEF Event, Broadcast
<1>2. ASSUME NEW d \in Clients, Start(d) \/ Prepare(d) \/ DeadlinePasses(d) \/ Answer(d)
      PROVE  holds
  BY <1>2 DEF Start, Prepare, DeadlinePasses, Answer, Goto
<1>3. ASSUME NEW d \in Clients,
             Lock(d) \/ Sleep(d) \/ ReturnAtOnce(d) \/ Expire(d) \/ Spurious(d) \/ Relock(d)
      PROVE  holds
  BY <1>3 DEF Lock, Sleep, ReturnAtOnce, Expire, Spurious, WakeUp, Relock, Goto
<1>4. ASSUME NEW d \in Clients, SkipWait(d) PROVE holds
  BY <1>4 DEF SkipWait, NothingToWaitFor, Goto
<1>5. ASSUME NEW d \in Clients, Unlock(d) PROVE holds
  BY <1>5 DEF Unlock, Goto, UnlimitedNeverExpires
<1>6. ASSUME NEW d \in Clients, Recheck(d) PROVE holds
  BY <1>6 DEF Recheck, Accepts, Goto
<1>7. CASE UNCHANGED waitVars
  BY <1>7 DEF waitVars
<1> QED
  BY <1>1, <1>2, <1>3, <1>4, <1>5, <1>6, <1>7 DEF WaitNext, Run

\* "Waiting unlimited until condition becomes true" (Query.cc:1539): for any
\* number of clients and any requests, a query with a condition and without a
\* timeout leaves doWait at a moment when its condition is true.
THEOREM UnlimitedWaitCorrect == WaitSpec => UnlimitedWaitEndsTrue
<1>1. WaitIInv /\ [WaitNext]_waitVars =>
        [\A c \in Clients :
            (/\ pc[c] # "returned" /\ pc'[c] = "returned"
             /\ request[c].condition /\ request[c].timeout = 0) => holds]_waitVars
  BY ReturnsTrue
<1> QED
  BY <1>1, WaitIInvCorrect, PTL DEF WaitSpec, UnlimitedWaitEndsTrue

\* g_wait_mutex: two threads are never between lock and unlock, and a sleeper
\* has let go of it (Query.cc:1541-1559).
THEOREM MutexCorrect == WaitSpec => []MutexHeldAroundWait
<1>1. WaitIInv => MutexHeldAroundWait
  BY DEF WaitIInv
<1> QED
  BY <1>1, WaitIInvCorrect, PTL

\* No condition variable keeps a thread that has gone on, or one that waits for
\* another trigger: a broadcast of g_wait_cond wakes those it is meant for.
THEOREM SleepersCorrect == WaitSpec => []AsleepOnOwnTrigger
<1>1. WaitIInv => AsleepOnOwnTrigger
  BY DEF WaitIInv
<1> QED
  BY <1>1, WaitIInvCorrect, PTL

=============================================================================
