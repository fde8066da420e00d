----------------------------- MODULE QueryHeaders -----------------------------
(***************************************************************************)
(* The headers of a query that are no filters, src/src/Query.cc: each one  *)
(* sets something, and what is not valid is an error.  Columns and Stats   *)
(* also switch the column headers off, whatever was said before.           *)
(***************************************************************************)
EXTENDS Visibility

CONSTANT Contacts       \* the contacts that exist

\* What the constructor sets.
Defaults ==
    [columns |-> <<>>, stats |-> <<>>, filter |-> <<>>, sort |-> <<>>, user |-> NoUser,
     format |-> "csv", headers |-> TRUE, separators |-> "default", limit |-> -1, offset |-> 0,
     timelimit |-> -1, keepalive |-> FALSE, response |-> "off",
     timeout |-> 0, trigger |-> "none", object |-> "none", timezone |-> 0, error |-> FALSE]

Refused(q) == [q EXCEPT !.error = TRUE]

\* A header with one value: Limit, Offset, Timelimit, OutputFormat, ColumnHeaders,
\* KeepAlive, ResponseHeader.
Setting(q, h) == IF h.valid THEN [q EXCEPT ![h.sets] = h.value] ELSE Refused(q)

\* WaitTimeout, WaitTrigger, WaitObject
WaitSetting(q, h) == IF h.valid THEN [q EXCEPT ![h.sets] = h.value] ELSE Refused(q)

\* An unknown contact is no error: in a setup with many sites not every site has
\* every user.
ParseAuthUser(q, h) ==
    [q EXCEPT !.user = IF h.value \in Contacts THEN h.value ELSE UnknownUser]

ParseColumnsLine(q, h) == [q EXCEPT !.columns = @ \o h.value, !.headers = FALSE]
ParseStatsLine(q, h) == [q EXCEPT !.stats = Append(@, h.value), !.headers = FALSE]
ParseFilterLine(q, h) == [q EXCEPT !.filter = Append(@, h.value)]
ParseSortLine(q, h) == [q EXCEPT !.sort = Append(@, h.value)]
ParseSeparatorsLine(q, h) == [q EXCEPT !.separators = h.value]

HalfHour == 1800

\* Integer division cuts towards zero.
Quotient(n) == IF n >= 0 THEN n \div HalfHour ELSE -((-n) \div HalfHour)
Remainder(n) == n - Quotient(n) * HalfHour

Rounded(dif) ==
    CASE Remainder(dif) <= -900 -> Quotient(dif) - 1
      [] Remainder(dif) >= 900  -> Quotient(dif) + 1
      [] OTHER                  -> Quotient(dif)

\* The difference of the clocks, rounded to half an hour.
ParseLocaltimeLine(q, h) ==
    IF h.valid /\ Rounded(h.value) \in -47 .. 47
    THEN [q EXCEPT !.timezone = Rounded(h.value) * HalfHour] ELSE Refused(q)

\* One line of the header loop.
ParseLine(q, h) ==
    CASE h.does = "set"         -> Setting(q, h)
      [] h.does = "wait"        -> WaitSetting(q, h)
      [] h.does = "AuthUser"    -> ParseAuthUser(q, h)
      [] h.does = "Columns"     -> ParseColumnsLine(q, h)
      [] h.does = "Stats"       -> ParseStatsLine(q, h)
      [] h.does = "Filter"      -> ParseFilterLine(q, h)
      [] h.does = "Sort"        -> ParseSortLine(q, h)
      [] h.does = "Separators"  -> ParseSeparatorsLine(q, h)
      [] h.does = "Localtime"   -> ParseLocaltimeLine(q, h)
      [] h.does = "undefined"   -> Refused(q)

\* A query without columns and without stats has all columns of its table, and
\* column headers (Store::answerGetRequest).
Parsed(lines, allColumns) ==
    LET upto[n \in 0 .. Len(lines)] ==
            IF n = 0 THEN Defaults ELSE ParseLine(upto[n - 1], lines[n])
        q == upto[Len(lines)]
    IN  IF q.columns = <<>> /\ q.stats = <<>>
        THEN [q EXCEPT !.columns = allColumns, !.headers = TRUE] ELSE q
=============================================================================
