------------------------------ MODULE QueryOutput ------------------------------
(***************************************************************************)
(* The output helpers of src/src/Query.cc: what delimits rows, fields and  *)
(* the members of lists in each format, and how a string is written in     *)
(* JSON.  Output is a sequence of tokens; "value" is a number or a string, *)
(* and "dataset", "field", "list" and "sublist" are the separators of CSV. *)
(***************************************************************************)
EXTENDS Integers, Sequences, SequencesExt

Formats == {"csv", "json", "python", "wrapped_json"}

InCsv(format, text, otherwise) == IF format = "csv" THEN text ELSE otherwise

\* need is _need_ds_separator: whether a row was written already.
DatasetBegin(format, need) ==
    InCsv(format, <<>>, IF need THEN <<",", "[">> ELSE <<"[">>)
DatasetEnd(format) == InCsv(format, <<"dataset">>, <<"]">>)
FieldSeparator(format) == InCsv(format, <<"field">>, <<",">>)
Value == <<"value">>

\* Mutant: the separator comes before every item.
Before(items, separator) ==
    FoldLeft(LAMBDA text, item : text \o separator \o item, <<>>, items)

\* Items with a separator between them.
Between(items, separator) ==
    LET upto[n \in 0 .. Len(items)] ==
            CASE n = 0   -> <<>>
              [] n = 1   -> items[1]
              [] OTHER   -> upto[n - 1] \o separator \o items[n]
    IN  upto[Len(items)]

List(format, items) ==
    InCsv(format, Between(items, <<"list">>), <<"[">> \o Between(items, <<",">>) \o <<"]">>)
Sublist(format, parts) ==
    InCsv(format, Between(parts, <<"sublist">>), <<"[">> \o Between(parts, <<",">>) \o <<"]">>)
Pair(format) == InCsv(format, <<"value", "sublist", "value">>, <<"value", ":", "value">>)
Dict(format, size) ==
    LET pairs == [n \in 1 .. size |-> Pair(format)] IN
    InCsv(format, Between(pairs, <<"list">>), <<"{">> \o Between(pairs, <<",">>) \o <<"}">>)
HostService(format) == Sublist(format, <<Value, Value>>)

\* A row of fields.
Dataset(format, need, fields) ==
    DatasetBegin(format, need) \o Between(fields, FieldSeparator(format)) \o DatasetEnd(format)

\* start(): with column headers, the names of the columns are a row of their own.
Header(format, headers, columns) ==
    LET names == Dataset(format, FALSE, [n \in 1 .. columns |-> Value]) IN
    CASE headers /\ format = "wrapped_json"  -> <<"{", "value", ":">> \o names \o <<",", "value", ":", "[">>
      [] headers /\ format = "csv"           -> names
      [] headers /\ format \in {"json", "python"} -> <<"[">> \o names
      [] ~headers /\ format = "wrapped_json" -> <<"{", "value", ":", "[">>
      [] ~headers /\ format = "csv"          -> <<>>
      [] OTHER                               -> <<"[">>

\* _need_ds_separator after it.
NeedsSeparator(format, headers) == headers /\ format # "wrapped_json"

\* The end of finish().
Trailer(format) ==
    CASE format = "csv"          -> <<>>
      [] format = "wrapped_json" -> <<"]", ",", "value", ":", "value", "}">>
      [] OTHER                   -> <<"]">>

-----------------------------------------------------------------------------
(* outputString() of JSON: a string is a sequence of bytes, what is written *)
(* is a sequence of <<"plain", byte>>, <<"backslash", byte>> and            *)
(* <<"unicode", code>>, the latter with four hexadecimal digits.            *)

Encodings == {"utf8", "latin1", "mixed"}
TwoBytes(b) == b \div 32 = 6
ThreeBytes(b) == b \div 16 = 14
FourBytes(b) == b \div 8 = 30
Backslashed == {34, 92}

\* outputUnicodeEscape(): the first four of its digits.
Unicode(code) ==
    <<"unicode", IF code < 65536 THEN code
                ELSE IF code < 1048576 THEN code \div 16 ELSE code \div 256>>

\* Mutant: the second byte of three is taken for the last.
TwoOf(s, n) == (s[n] % 16) * 4096 + (s[n + 2] % 64) * 64 + (s[n + 1] % 64)

ThreeOf(s, n) == (s[n] % 16) * 4096 + (s[n + 1] % 64) * 64 + (s[n + 2] % 64)

\* "|" of two numbers of six bits.
BitOr(a, b) ==
    MapThenSumSet(LAMBDA i : IF 1 \in {(a \div 2^i) % 2, (b \div 2^i) % 2} THEN 2^i ELSE 0, 0 .. 5)

\* The shifts are those of the source: by six for both of the middle bytes.
FourOf(s, n) ==
    (s[n] % 8) * 262144 + BitOr(s[n + 1] % 64, s[n + 2] % 64) * 64 + (s[n + 3] % 64)

\* What begins at byte n, and where it goes on; after the end, nothing.  A two-byte
\* sequence is not cut short by the end of the string: the strings have them whole.
Escape(encoding, s, n) ==
    LET b == s[n]
        left == Len(s) - n + 1
        to(text, next) == [text |-> text, next |-> next]
        end == to(<<>>, Len(s) + 1)
    IN
    CASE b < 32 -> to(<<Unicode(b)>>, n + 1)
      [] b \in Backslashed -> to(<<<<"backslash", b>>>>, n + 1)
      [] b \in 32 .. 127 \ Backslashed -> to(<<<<"plain", b>>>>, n + 1)
      [] encoding \in {"utf8", "mixed"} /\ TwoBytes(b) ->
            to(<<Unicode((b % 32) * 64 + (s[n + 1] % 64))>>, n + 2)
      [] encoding = "utf8" /\ ThreeBytes(b) ->
            IF left < 3 THEN end ELSE to(<<Unicode(ThreeOf(s, n))>>, n + 3)
      [] encoding = "utf8" /\ FourBytes(b) ->
            IF left < 4 THEN end ELSE to(<<Unicode(FourOf(s, n))>>, n + 4)
      [] encoding = "utf8" /\ b >= 128 /\ ~TwoBytes(b) /\ ~ThreeBytes(b) /\ ~FourBytes(b) -> to(<<>>, n + 1)
      [] OTHER -> to(<<Unicode(b)>>, n + 1)

String(encoding, s) ==
    LET from[n \in 1 .. Len(s) + 1] ==
            IF n > Len(s) THEN <<>>
            ELSE LET e == Escape(encoding, s, n) IN e.text \o from[e.next]
    IN  from[1]
=============================================================================
