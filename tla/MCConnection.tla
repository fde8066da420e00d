---------------------------- MODULE MCConnection ----------------------------
(***************************************************************************)
(* Tidy requests, and one that puts two commands in one request.           *)
(***************************************************************************)
EXTENDS Connection

MCRequests == {<<"GET", "KeepAlive", "ResponseHeader">>, <<"GET", "Filter", Undefined>>,
               <<"GET unknown", "KeepAlive">>, <<"COMMAND">>, <<"LOGROTATE">>,
               <<Undefined>>, <<"COMMAND", "COMMAND">>}
=============================================================================
