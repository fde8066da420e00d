----------------------------- MODULE InputBuffer -----------------------------
(***************************************************************************)
(* src/src/InputBuffer.cc: the read-ahead buffer of one client connection  *)
(* and readRequest(), which cuts the byte stream into request lines.       *)
(*                                                                         *)
(* Offsets into _readahead_buffer are numbers: 0 is _readahead_buffer,     *)
(* BufSize is _end_pointer.  readData() polls the socket with a select()   *)
(* of 200 ms (READ_TIMEOUT_USEC); time is counted in such slices, and both *)
(* timeouts are numbers of slices, 0 meaning "disabled" as in              *)
(* timeout_reached().  The caller is Store::answerRequest: it takes some   *)
(* of the lines and, on a kept alive connection, calls readRequest again.  *)
(***************************************************************************)
EXTENDS Integers, Sequences

CONSTANTS
    Byte, Newline, Space,   \* see RequestFraming
    BufSize,                \* IB_BUFFER_SIZE
    QueryTimeout,           \* g_query_timeout_msec, in slices
    IdleTimeout,            \* g_idle_timeout_msec, in slices
    MaxBytes                \* bound: how much a client writes

ASSUME ConstantsAssumption ==
    /\ Newline \in Byte /\ Space \subseteq Byte \ {Newline}
    /\ BufSize \in Nat \ {0}
    /\ QueryTimeout \in Nat /\ IdleTimeout \in Nat /\ MaxBytes \in Nat

VARIABLES
    stream,     \* every byte the client has written
    nread,      \* how many of them read() has returned
    closed,     \* the client has closed its end
    term,       \* *_termination_flag
    buf,        \* _readahead_buffer
    rp, wp,     \* _read_pointer, _write_pointer
    r,          \* readRequest's local scan pointer
    lines,      \* _requestlines
    started,    \* readRequest's local query_started
    idle,       \* slices since start_of_idle
    slices,     \* slices since readData was entered
    pc,         \* "scan", in readData "data" (head of its loop) or
                \* "select" (polling), or "returned"
    result      \* what readRequest returned last

client == <<stream, closed>>
buffer == <<buf, rp, wp, r>>
clock == <<idle, slices>>
vars == <<stream, nread, closed, term, buf, rp, wp, r, lines, started,
          idle, slices, pc, result>>

Result == {"none", "request_read", "empty_request", "eof", "unexpected_eof",
           "timeout", "should_terminate", "line_too_long"}

\* Bound: the clock stops counting once every idle check would have fired.
IdleCap == IdleTimeout + QueryTimeout + 1

-----------------------------------------------------------------------------
\* storeRequestLine: the loop that shortens length past trailing white space.
TrimmedLength(line) ==
    CHOOSE n \in 0..Len(line) :
        /\ n > 0 => line[n] \notin Space
        /\ \A i \in (n + 1)..Len(line) : line[i] \in Space

\* Mutant: lines of white space are stored, too.
StoreBlankLines(ls, line) == Append(ls, SubSeq(line, 1, TrimmedLength(line)))

StoreRequestLine(ls, line) ==
    IF TrimmedLength(line) = 0 THEN ls
    ELSE Append(ls, SubSeq(line, 1, TrimmedLength(line)))

\* The bytes between the read pointer and the scan pointer.
CurrentLine == [i \in 1..(r - rp) |-> buf[rp + i - 1]]

Init ==
    /\ stream = <<>> /\ nread = 0 /\ closed = FALSE /\ term = FALSE
    /\ buf \in [0..(BufSize - 1) -> {Newline}]  \* content is never looked at
    /\ rp = 0 /\ wp = 0 /\ r = 0
    /\ lines = <<>> /\ started = FALSE /\ idle = 0 /\ slices = 0
    /\ pc = "scan" /\ result = "none"

Return(res) == pc' = "returned" /\ result' = res

-----------------------------------------------------------------------------
(* The client and the core.                                                *)

Send ==
    /\ ~closed /\ Len(stream) < MaxBytes
    /\ \E b \in Byte : stream' = Append(stream, b)
    /\ UNCHANGED <<nread, closed, term, buffer, lines, started, clock, pc, result>>

Close ==
    /\ ~closed /\ closed' = TRUE
    /\ UNCHANGED <<stream, nread, term, buffer, lines, started, clock, pc, result>>

\* A reset loses what the server has not read; read() then fails, which
\* readData reports as the end of the file.
Abort ==
    /\ ~closed /\ closed' = TRUE /\ stream' = SubSeq(stream, 1, nread)
    /\ UNCHANGED <<nread, term, buffer, lines, started, clock, pc, result>>

\* shutdown_threads sets g_should_terminate.
Terminate ==
    /\ ~term /\ term' = TRUE
    /\ UNCHANGED <<client, nread, buffer, lines, started, clock, pc, result>>

-----------------------------------------------------------------------------
(* readRequest                                                             *)

\* No '\n' at the scan pointer: r++.
Scan ==
    /\ pc = "scan" /\ r < wp /\ buf[r] # Newline
    /\ r' = r + 1
    /\ UNCHANGED <<client, nread, term, buf, rp, wp, lines, started, clock, pc, result>>

\* End of a non-empty line: it belongs to the current request.
EndOfLine ==
    /\ pc = "scan" /\ r < wp /\ buf[r] = Newline /\ rp # r
    /\ lines' = StoreRequestLine(lines, CurrentLine)
    /\ started' = TRUE
    /\ rp' = r + 1 /\ r' = r + 1
    /\ UNCHANGED <<client, nread, term, buf, wp, clock, pc, result>>

\* An empty line ends the request.  The local r dies with the call.
EmptyLine ==
    /\ pc = "scan" /\ r < wp /\ buf[r] = Newline /\ rp = r
    /\ rp' = r + 1 /\ r' = r + 1
    /\ Return(IF lines = <<>> THEN "empty_request" ELSE "request_read")
    /\ UNCHANGED <<client, nread, term, buf, wp, lines, started, clock>>

\* All data scanned and there is room behind it: enter readData.
NeedData ==
    /\ pc = "scan" /\ r = wp /\ wp < BufSize
    /\ pc' = "data" /\ slices' = 0
    /\ UNCHANGED <<client, nread, term, buffer, lines, started, idle, result>>

\* Mutant: the bytes stay.

ShiftForgetsBytes ==
    /\ pc = "scan" /\ r = wp /\ wp = BufSize /\ rp > 0
    /\ rp' = 0 /\ wp' = wp - rp /\ r' = r - rp
    /\ UNCHANGED <<client, nread, term, buf, lines, started, clock, pc, result>>

\* No room behind the data, but before it: memmove to the left.
Shift ==
    /\ pc = "scan" /\ r = wp /\ wp = BufSize /\ rp > 0
    /\ buf' = [i \in DOMAIN buf |-> IF i < wp - rp THEN buf[i + rp] ELSE buf[i]]
    /\ rp' = 0 /\ wp' = wp - rp /\ r' = r - rp
    /\ UNCHANGED <<client, nread, term, lines, started, clock, pc, result>>

LineTooLong ==
    /\ pc = "scan" /\ r = wp /\ wp = BufSize /\ rp = 0
    /\ Return("line_too_long")
    /\ UNCHANGED <<client, nread, term, buffer, lines, started, clock>>

-----------------------------------------------------------------------------
(* readData, and what readRequest makes of what it returns                 *)

QueryExpired == QueryTimeout # 0 /\ slices >= QueryTimeout
IdleExpired == IdleTimeout # 0 /\ idle >= IdleTimeout

\* Mutant: the flag is only looked at between requests.
SeeTerminationIdle ==
    /\ pc = "data" /\ term /\ rp = wp
    /\ Return("should_terminate")
    /\ UNCHANGED <<client, nread, term, buffer, lines, started, clock>>

SeeTermination ==
    /\ pc = "data" /\ term
    /\ Return("should_terminate")
    /\ UNCHANGED <<client, nread, term, buffer, lines, started, clock>>

\* Mutant: the idle timeout is forgotten.
TimeoutInQuery ==
    /\ pc = "data" /\ ~term /\ QueryExpired
    /\ IF started THEN Return("timeout") ELSE pc' = "scan" /\ UNCHANGED result
    /\ UNCHANGED <<client, nread, term, buffer, lines, started, clock>>

\* IB_TIMEOUT ends the call only within a query, or after a long idle time;
\* otherwise readRequest goes round its loop again.
Timeout ==
    /\ pc = "data" /\ ~term /\ QueryExpired
    /\ IF started \/ IdleExpired
       THEN Return("timeout")
       ELSE pc' = "scan" /\ UNCHANGED result
    /\ UNCHANGED <<client, nread, term, buffer, lines, started, clock>>

Select ==
    /\ pc = "data" /\ ~term /\ ~QueryExpired
    /\ pc' = "select"
    /\ UNCHANGED <<client, nread, term, buffer, lines, started, clock, result>>

Later(t) == IF t < IdleCap THEN t + 1 ELSE t

\* select() reports data, perhaps late in its slice: one read() of at most
\* the room that is left.
ReadBytes ==
    /\ pc = "select"
    /\ \E n \in 1..(BufSize - wp) :
        /\ nread + n <= Len(stream)
        /\ buf' = [i \in DOMAIN buf |->
                     IF i \in wp..(wp + n - 1) THEN stream[nread + i - wp + 1]
                     ELSE buf[i]]
        /\ wp' = wp + n /\ nread' = nread + n
    /\ idle' \in {idle, Later(idle)}
    /\ pc' = "scan"
    /\ UNCHANGED <<client, term, rp, r, lines, started, slices, result>>

\* read() returns 0 or an error.
ReadEnd ==
    /\ pc = "select"
    /\ closed /\ nread = Len(stream)
    /\ Return(IF r # rp THEN "unexpected_eof"
              ELSE IF lines = <<>> THEN "eof" ELSE "request_read")
    /\ UNCHANGED <<client, nread, term, buffer, lines, started, clock>>

\* select() times out after one slice.
Poll ==
    /\ pc = "select" /\ ~closed /\ nread = Len(stream)
    /\ slices' = IF QueryTimeout = 0 THEN 0 ELSE slices + 1
    /\ idle' = Later(idle)
    /\ pc' = "data"
    /\ UNCHANGED <<client, nread, term, buffer, lines, started, result>>

-----------------------------------------------------------------------------
\* The caller takes lines with nextLine() and, if the connection is kept
\* alive, calls readRequest again.
Serve ==
    /\ pc = "returned" /\ result = "request_read"
    /\ \E n \in 1..Len(lines) : lines' = SubSeq(lines, n + 1, Len(lines))
    /\ pc' = "scan" /\ result' = "none"
    /\ started' = FALSE /\ idle' = 0 /\ slices' = 0 /\ r' = rp
    /\ UNCHANGED <<client, nread, term, buf, rp, wp>>

\* Every other result makes answerRequest return false: the connection ends.
Hangup ==
    /\ pc = "returned" /\ result # "request_read"
    /\ UNCHANGED vars

ReadRequest ==
    \/ Scan \/ EndOfLine \/ EmptyLine \/ NeedData \/ Shift \/ LineTooLong
    \/ SeeTermination \/ Timeout \/ Select \/ ReadBytes \/ ReadEnd \/ Poll

Next ==
    \/ Send \/ Close \/ Abort \/ Terminate
    \/ ReadRequest \/ Serve \/ Hangup

\* The thread that runs readRequest is scheduled, and select() returns.
Fairness == WF_vars(ReadRequest)

Spec == Init /\ [][Next]_vars /\ Fairness

-----------------------------------------------------------------------------
(* Properties                                                              *)

TypeOK ==
    /\ stream \in Seq(Byte) /\ Len(stream) <= MaxBytes
    /\ nread \in 0..Len(stream)
    /\ closed \in BOOLEAN /\ term \in BOOLEAN /\ started \in BOOLEAN
    /\ buf \in [0..(BufSize - 1) -> Byte]
    /\ wp \in 0..BufSize /\ r \in 0..wp /\ rp \in 0..r
    /\ lines \in Seq(Seq(Byte))
    /\ idle \in 0..IdleCap /\ slices \in 0..QueryTimeout
    /\ pc \in {"scan", "data", "select", "returned"}
    /\ result \in Result

\* read() is never called without room: with a length of 0 it would return 0,
\* and readData would take a full buffer for the end of the connection.
RoomToRead == pc \in {"data", "select"} => wp < BufSize

\* What stands between the read and the write pointer is exactly the part of
\* the client's stream that was read and not yet used: no byte is lost,
\* repeated or overwritten by memmove and read().
WindowIsStream ==
    \A i \in rp..(wp - 1) : buf[i] = stream[nread - wp + i + 1]

\* "Maximum length of request line exceeded" is only said to a client that did
\* write BufSize bytes without a line end, wherever in the buffer they began.
LineTooLongIsTrue ==
    result = "line_too_long" =>
        \A i \in 1..BufSize : stream[nread - BufSize + i] # Newline

\* A caller that gets IB_REQUEST_READ finds a line for its first nextLine(),
\* which pops a deque without looking.
NextLineHasOne == result = "request_read" => lines # <<>>

\* A connection that has sent nothing of its next request is closed at most
\* one query timeout after the idle timeout ("A connection may not be idle
\* longer than that value", InputBuffer.cc:43).
IdleConnectionEnds ==
    (IdleTimeout # 0 /\ pc \in {"data", "select"} /\ ~started /\ rp = wp)
        => idle <= IdleTimeout + QueryTimeout

\* Once the core wants to stop, a thread in readRequest comes back.
TerminationSeen == term ~> pc = "returned"

\* The request lines are the lines the client wrote, however the stream was
\* cut into packets, and wherever the buffer was shifted.
Framing == INSTANCE RequestFraming WITH
    pos <- nread - wp + r,
    cur <- [i \in 1..(r - rp) |-> stream[nread - wp + rp + i]],
    state <- IF pc = "returned" THEN result ELSE "reading"

FramingSpec == Framing!Spec
=============================================================================
