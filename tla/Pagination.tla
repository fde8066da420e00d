------------------------------ MODULE Pagination ------------------------------
(***************************************************************************)
(* Which rows of a query are printed: Query::processDataset and            *)
(* Query::finish (src/src/Query.cc) with the headers Limit, Offset and     *)
(* Sort.  The rows are those the filters and the authorization accept; for *)
(* a query with grouped stats they are the first row of each group.        *)
(***************************************************************************)
EXTENDS RowSortedSet, FiniteSets

CONSTANTS
    Keys,       \* what rows are sorted by
    MaxRows,    \* bound: how many rows a table has
    IntSpan,    \* 2^32: an int is taken modulo it
    Pages,      \* [limit, offset]: _limit, -1 without a Limit header, and _offset
    Formats     \* whether the output is wrapped_json

ASSUME PaginationAssumption ==
    /\ Keys \subseteq Int /\ MaxRows \in Nat /\ IntSpan \in Nat \ {0}
    /\ Pages \subseteq [limit : Nat \cup {-1}, offset : Nat]
    /\ Formats \subseteq BOOLEAN

VARIABLES
    table,          \* the rows, in the order of the table
    limit, offset, sorted, wrapped,     \* the query
    current_line,   \* _current_line
    heap,           \* _sorter
    numelems,       \* finish()'s numelems
    outbuf,         \* finish()'s outbuf
    printed,        \* the rows printed, in order
    pc              \* "process", "extract", "print", "done" or "failed"

query == <<table, limit, offset, sorted, wrapped>>
vars == <<table, limit, offset, sorted, wrapped, current_line, heap, numelems,
          outbuf, printed, pc>>

\* int arithmetic
ToInt(n) == ((n + IntSpan \div 2) % IntSpan) - IntSpan \div 2
Sum == ToInt(limit + offset)

Rows == UNION {[1..n -> Keys] : n \in 0..MaxRows}

Init ==
    /\ \E keys \in Rows :
        table = [k \in DOMAIN keys |-> [key |-> keys[k], line |-> k]]
    /\ \E page \in Pages : limit = page.limit /\ offset = page.offset
    /\ sorted \in BOOLEAN /\ wrapped \in Formats
    /\ current_line = 0 /\ heap = <<>> /\ numelems = 0 /\ outbuf = <<>>
    /\ printed = <<>> /\ pc = "process"

-----------------------------------------------------------------------------
\* The line that is processed.
Line == current_line + 1
More == current_line < Len(table)

ProcessSorted ==
    /\ pc = "process" /\ More /\ sorted
    /\ current_line' = Line
    /\ heap' = Insert(heap, table[Line], Sum)
    /\ UNCHANGED <<query, numelems, outbuf, printed, pc>>

\* Mutant: the rows behind the page are not counted.
StopBehind ==
    /\ pc = "process" /\ More /\ ~sorted /\ limit >= 0 /\ Line > Sum
    /\ current_line' = Line /\ pc' = "done"
    /\ UNCHANGED <<query, heap, numelems, outbuf, printed>>

\* Behind the page; wrapped_json goes on to count the rows.
ProcessBehind ==
    /\ pc = "process" /\ More /\ ~sorted /\ limit >= 0 /\ Line > Sum
    /\ current_line' = Line
    /\ pc' = IF wrapped THEN "process" ELSE "done"
    /\ UNCHANGED <<query, heap, numelems, outbuf, printed>>

ProcessPlain ==
    /\ pc = "process" /\ More /\ ~sorted /\ ~(limit >= 0 /\ Line > Sum)
    /\ current_line' = Line
    /\ printed' = IF Line <= offset THEN printed ELSE Append(printed, table[Line])
    /\ UNCHANGED <<query, heap, numelems, outbuf, pc>>

\* Maximum response size, time limit, or shutdown: an error replaces the
\* answer, and finish() is not called.
Fail ==
    /\ pc = "process" /\ More
    /\ pc' = "failed"
    /\ UNCHANGED <<query, current_line, heap, numelems, outbuf, printed>>

\* Mutant: as many as the limit says.
FinishLimit ==
    /\ pc = "process" /\ ~More
    /\ pc' = IF sorted THEN "extract" ELSE "done"
    /\ numelems' = limit
    /\ UNCHANGED <<query, current_line, heap, outbuf, printed>>

\* finish(): how many rows are to be extracted; -1 stands for all.
Finish ==
    /\ pc = "process" /\ ~More
    /\ pc' = IF sorted THEN "extract" ELSE "done"
    /\ numelems' = IF Sum <= Len(heap) THEN limit
                   ELSE IF Len(heap) > offset THEN Len(heap) - offset ELSE 0
    /\ UNCHANGED <<query, current_line, heap, outbuf, printed>>

\* while (((data = _sorter.extract()) != 0) && numelems--)
ExtractRow ==
    /\ pc = "extract" /\ heap # <<>>
    /\ heap' = Extract(heap)
    /\ IF numelems = 0
       THEN pc' = "print" /\ UNCHANGED <<numelems, outbuf>>
       ELSE /\ numelems' = numelems - 1 /\ outbuf' = Append(outbuf, Largest(heap))
            /\ UNCHANGED pc
    /\ UNCHANGED <<query, current_line, printed>>

ExtractEnd ==
    /\ pc = "extract" /\ heap = <<>>
    /\ pc' = "print"
    /\ UNCHANGED <<query, current_line, heap, numelems, outbuf, printed>>

\* Mutant: outbuf keeps the order.
PrintFirst ==
    /\ pc = "print" /\ outbuf # <<>>
    /\ printed' = Append(printed, outbuf[1])
    /\ outbuf' = Tail(outbuf)
    /\ UNCHANGED <<query, current_line, heap, numelems, pc>>

\* outbuf reverses the order.
PrintRow ==
    /\ pc = "print" /\ outbuf # <<>>
    /\ printed' = Append(printed, outbuf[Len(outbuf)])
    /\ outbuf' = SubSeq(outbuf, 1, Len(outbuf) - 1)
    /\ UNCHANGED <<query, current_line, heap, numelems, pc>>

PrintEnd ==
    /\ pc = "print" /\ outbuf = <<>>
    /\ pc' = "done"
    /\ UNCHANGED <<query, current_line, heap, numelems, outbuf, printed>>

Next ==
    \/ ProcessSorted \/ ProcessBehind \/ ProcessPlain \/ Fail
    \/ Finish \/ ExtractRow \/ ExtractEnd \/ PrintRow \/ PrintEnd

Spec == Init /\ [][Next]_vars

-----------------------------------------------------------------------------
(* Properties                                                              *)

RowType == [key : Keys, line : 1..MaxRows]

TypeOK ==
    /\ table \in Seq(RowType) /\ [limit |-> limit, offset |-> offset] \in Pages
    /\ {sorted, wrapped} \subseteq BOOLEAN
    /\ current_line \in 0..Len(table) /\ numelems \in Int
    /\ heap \in Seq(RowType) /\ (Sum > 0 => Len(heap) <= Sum)
    /\ outbuf \in Seq(RowType) /\ printed \in Seq(RowType)
    /\ pc \in {"process", "extract", "print", "done", "failed"}

\* The lines of the page: Limit rows from the one behind Offset.
PageStart == IF offset < Len(table) THEN offset ELSE Len(table)
PageEnd == IF limit < 0 \/ offset + limit > Len(table) THEN Len(table) ELSE offset + limit
PageSize == IF PageEnd > PageStart THEN PageEnd - PageStart ELSE 0

Lines(rows) == {rows[k].line : k \in DOMAIN rows}

\* A row can stand at place n of the sorted result if at most n - 1 rows are
\* smaller, and at most Len(table) - n larger.
SortedPlace(row, n) ==
    /\ Cardinality({k \in DOMAIN table : Greater(row, table[k])}) <= n - 1
    /\ Cardinality({k \in DOMAIN table : Greater(table[k], row)}) <= Len(table) - n

\* An answer is complete: exactly the rows of the page, in order ("Lines to
\* skip from the beginning of the result set. Useful for pagination in
\* combination with Limit header", README.md:33), each once; a query that
\* could not go on fails as a whole ("Otherwise the user will not know that
\* the answer is incomplete", Query.cc:928).
AnswerIsPage ==
    pc = "done" =>
        /\ Len(printed) = PageSize /\ Cardinality(Lines(printed)) = PageSize
        /\ \A k \in 1..PageSize :
            IF sorted THEN SortedPlace(printed[k], PageStart + k)
            ELSE printed[k] = table[PageStart + k]

\* total_count: "The number of lines in the resultsed, except the limitation
\* of Limit and Offset headers" (README.md:57).
TotalCount == (pc = "done" /\ wrapped) => current_line = Len(table)
=============================================================================
