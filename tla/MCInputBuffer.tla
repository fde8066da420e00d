--------------------------- MODULE MCInputBuffer ---------------------------
(***************************************************************************)
(* Three kinds of bytes and a buffer of three: a line of three bytes       *)
(* fills it, two lines make it shift.                                      *)
(***************************************************************************)
EXTENDS InputBuffer

MCByte == {"char", "space", "newline"}
MCNewline == "newline"
MCSpace == {"space"}
=============================================================================
