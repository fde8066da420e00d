----------------------------- MODULE MCDownComm -----------------------------
(***************************************************************************)
(* Two clients and a core that makes up to two entries.  Ordered: what     *)
(* queries look into beside their own table never looks back.  Crossed:    *)
(* two queries that look into each other's table.                          *)
(***************************************************************************)
EXTENDS DownComm

Ask(table, lists, finds, sorted) ==
    [table |-> table, lists |-> lists, finds |-> finds, sorted |-> sorted]

Ordered == {Ask("comments", Tables, {"comments"}, FALSE),
            Ask("downtimes", {"downtimes"}, {}, TRUE),
            Ask("hosts", {"comments"}, {"downtimes"}, FALSE)}
Crossed == {Ask("comments", {}, {"downtimes"}, FALSE),
            Ask("downtimes", {}, {"comments"}, FALSE)}
=============================================================================
