--------------------------- MODULE MCWaitTriggers ---------------------------
(***************************************************************************)
(* Two clients; one kind of event beside WT_ALL that either may have asked *)
(* for.  The requests cover a condition with and without a trigger and a   *)
(* timeout, and a trigger alone.  No deadline falls on a tv_nsec of 10^9.  *)
(***************************************************************************)
EXTENDS WaitTriggers

Ask(condition, trig, timeout) ==
    [condition |-> condition, trigger |-> trig, timeout |-> timeout]

MCRequests == {Ask(TRUE, "state", 0), Ask(TRUE, None, 300), Ask(FALSE, "state", 0)}

MCMicroseconds == {0, 999999}
=============================================================================
