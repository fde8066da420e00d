------------------------------ MODULE MCLogCache ------------------------------
(* Queries of a log with two classes of messages. *)
EXTENDS LogCache

Query(since, until, classes, limit) ==
    [since |-> since, until |-> until, classes |-> classes, limit |-> limit]

MCQueries ==
    LET always == MaxTime + 1
        all == MaxLogged + 1
    IN  {Query(0, always, {"alert"}, all), Query(0, always, {"info"}, all),
         Query(0, always, Classes, 2), Query(2, 3, Classes, all)}
=============================================================================
