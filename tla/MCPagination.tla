---------------------------- MODULE MCPagination ----------------------------
(***************************************************************************)
(* Tables of up to five rows with equal keys among them, and every page    *)
(* around them, and the whole result.  An Offset without a Limit is left   *)
(* out: -1 + offset is taken for a limit, and the page is not the one that *)
(* was asked for.                                                          *)
(***************************************************************************)
EXTENDS Pagination

MCKeys == 1..3
MCPages == [limit : 0..4, offset : 0..4] \cup {[limit |-> -1, offset |-> 0]}
AllFormats == BOOLEAN
=============================================================================
