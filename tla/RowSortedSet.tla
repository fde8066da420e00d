----------------------------- MODULE RowSortedSet -----------------------------
(***************************************************************************)
(* src/src/RowSortedSet.cc: a bounded max-heap of rows.  The largest row   *)
(* is on top, so that a heap that is over its limit drops its largest row. *)
(*                                                                         *)
(* A heap is a sequence: the node at k has its parent at k \div 2 and its  *)
(* children at 2 * k and 2 * k + 1.  A row is compared by its key only:    *)
(* the sort columns and then the natural sort columns of the table.        *)
(***************************************************************************)
EXTENDS Integers, Sequences

Key(row) == row.key
Greater(a, b) == Key(a) > Key(b)        \* compare(a, b) > 0

Parent(k) == k \div 2

LargerChild(heap, k) ==
    IF 2 * k + 1 <= Len(heap) /\ Greater(heap[2 * k + 1], heap[2 * k])
    THEN 2 * k + 1 ELSE 2 * k

\* Smaller parents move down, from the hole at the end, until the row fits.
SiftUp(heap, row) ==
    LET from[hole \in 1..Len(heap)] ==
            IF hole = 1 \/ ~Greater(row, heap[Parent(hole)])
            THEN [heap EXCEPT ![hole] = row]
            ELSE [from[Parent(hole)] EXCEPT ![hole] = heap[Parent(hole)]]
    IN from[Len(heap)]

\* Larger children move up, from the hole on top, until the row fits.
SiftDown(heap, row) ==
    LET from[hole \in 1..Len(heap)] ==
            IF 2 * hole > Len(heap) \/ ~Greater(heap[LargerChild(heap, hole)], row)
            THEN [heap EXCEPT ![hole] = row]
            ELSE [from[LargerChild(heap, hole)] EXCEPT
                    ![hole] = heap[LargerChild(heap, hole)]]
    IN from[1]

\* extract(): the largest row, and what the heap is without it.
Largest(heap) == heap[1]
Extract(heap) ==
    LET rest == SubSeq(heap, 1, Len(heap) - 1) IN
    IF rest = <<>> THEN <<>> ELSE SiftDown(rest, heap[Len(heap)])

\* insert(): a limit that is not positive is none.
Insert(heap, row, limit) ==
    LET grown == SiftUp(Append(heap, row), row) IN
    IF limit > 0 /\ Len(grown) > limit THEN Extract(grown) ELSE grown
=============================================================================
