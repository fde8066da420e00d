--------------------------- MODULE RequestFraming ---------------------------
(***************************************************************************)
(* What a Livestatus client may rely on when it writes requests to its     *)
(* socket.  A connection is one stream of bytes; a request is a run of     *)
(* non-empty lines ended by an empty line, or by the end of the stream;    *)
(* trailing white space is cut off, lines of white space only do not       *)
(* count.  How the stream was cut into packets and how large the server's  *)
(* buffer is do not show here: this module takes one byte at a time and    *)
(* has no buffer.  InputBuffer is shown to implement it.                   *)
(***************************************************************************)
EXTENDS Naturals, Sequences

CONSTANTS
    Byte,       \* what a client can write
    Newline,    \* the byte that ends a line
    Space       \* the bytes for which isspace() holds, Newline left out

VARIABLES
    stream,     \* every byte the client has written so far
    closed,     \* the client has closed its end
    pos,        \* how many bytes of stream have been understood
    cur,        \* the line being read
    lines,      \* the lines of the request, not yet taken by the caller
    state       \* "reading", or how the attempt to read a request ended

vars == <<stream, closed, pos, cur, lines, state>>

-----------------------------------------------------------------------------
\* How long a line is once its trailing white space is gone.
TrimmedLength(line) ==
    CHOOSE n \in 0..Len(line) :
        /\ n > 0 => line[n] \notin Space
        /\ \A i \in (n + 1)..Len(line) : line[i] \in Space

\* The request lines after one more line: white space alone is dropped.
StoreLine(ls, line) ==
    IF TrimmedLength(line) = 0 THEN ls
    ELSE Append(ls, SubSeq(line, 1, TrimmedLength(line)))

GivenUp == {"timeout", "should_terminate", "line_too_long"}

Init ==
    /\ stream = <<>> /\ closed = FALSE
    /\ pos = 0 /\ cur = <<>> /\ lines = <<>> /\ state = "reading"

Send ==
    /\ ~closed
    /\ \E b \in Byte : stream' = Append(stream, b)
    /\ UNCHANGED <<closed, pos, cur, lines, state>>

Close ==
    /\ ~closed /\ closed' = TRUE
    /\ UNCHANGED <<stream, pos, cur, lines, state>>

\* The connection is reset: bytes not yet understood may be lost.
Abort ==
    /\ ~closed /\ closed' = TRUE
    /\ \E n \in pos..Len(stream) : stream' = SubSeq(stream, 1, n)
    /\ UNCHANGED <<pos, cur, lines, state>>

\* A byte inside a line.
TakeByte ==
    /\ state = "reading" /\ pos < Len(stream) /\ stream[pos + 1] # Newline
    /\ pos' = pos + 1 /\ cur' = Append(cur, stream[pos + 1])
    /\ UNCHANGED <<stream, closed, lines, state>>

\* The end of a line that is not empty.
TakeLine ==
    /\ state = "reading" /\ pos < Len(stream) /\ stream[pos + 1] = Newline
    /\ cur # <<>>
    /\ pos' = pos + 1 /\ cur' = <<>> /\ lines' = StoreLine(lines, cur)
    /\ UNCHANGED <<stream, closed, state>>

\* The empty line that ends a request.
TakeEmptyLine ==
    /\ state = "reading" /\ pos < Len(stream) /\ stream[pos + 1] = Newline
    /\ cur = <<>>
    /\ pos' = pos + 1
    /\ state' = IF lines = <<>> THEN "empty_request" ELSE "request_read"
    /\ UNCHANGED <<stream, closed, cur, lines>>

\* The client has closed and everything it wrote is understood.
EndOfStream ==
    /\ state = "reading" /\ closed /\ pos = Len(stream)
    /\ state' = IF cur # <<>> THEN "unexpected_eof"
                ELSE IF lines = <<>> THEN "eof" ELSE "request_read"
    /\ UNCHANGED <<stream, closed, pos, cur, lines>>

GiveUp ==
    /\ state = "reading" /\ state' \in GivenUp
    /\ UNCHANGED <<stream, closed, pos, cur, lines>>

\* The caller takes lines of the request and asks for the next one.
Serve ==
    /\ state = "request_read"
    /\ \E n \in 1..Len(lines) : lines' = SubSeq(lines, n + 1, Len(lines))
    /\ state' = "reading"
    /\ UNCHANGED <<stream, closed, pos, cur>>

Next ==
    \/ Send \/ Close \/ Abort \/ TakeByte \/ TakeLine \/ TakeEmptyLine
    \/ EndOfStream \/ GiveUp \/ Serve

Spec == Init /\ [][Next]_vars
=============================================================================
