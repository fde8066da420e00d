------------------------------ MODULE Connection ------------------------------
(***************************************************************************)
(* One client connection, from the lines its client writes to the bytes it *)
(* gets back: client_thread (src/src/module.c), Store::answerRequest       *)
(* (src/src/Store.cc), the header loop of Query::Query (src/src/Query.cc)  *)
(* and OutputBuffer::flush (src/src/OutputBuffer.cc).                      *)
(*                                                                         *)
(* What InputBuffer makes of the stream is taken from RequestFraming: here *)
(* readRequest collects whole lines up to a blank one.  _requestlines is   *)
(* only appended to and popped, so lines nobody took stay for later calls. *)
(* The socket is a blocking one: once select() has reported room, write()  *)
(* stays in the kernel until everything is written, a signal arrives or    *)
(* the peer is gone.  A "piece" is a header of 16 bytes or a part of a     *)
(* body.                                                                   *)
(***************************************************************************)
EXTENDS Naturals, Sequences, SequencesExt

CONSTANTS
    Requests,       \* the requests clients send: sequences of lines
    MaxRequests,    \* bound: how many of them
    MaxBody,        \* bound: the most pieces of a response's body
    Room            \* how many pieces the socket holds

Method == {"GET", "GET unknown", "COMMAND", "LOGROTATE"}
Header == {"KeepAlive", "ResponseHeader", "Filter"}
Undefined == "undefined"            \* neither a method nor a header
Kind == Method \cup Header \cup {Undefined}

ASSUME ConnectionAssumption ==
    /\ \A q \in Requests : q \in Seq(Kind) /\ q # <<>>
    /\ MaxRequests \in Nat /\ MaxBody \in Nat \ {0} /\ Room \in Nat \ {0}

VARIABLES
    sent,       \* how many requests the client has written
    unread,     \* their lines on the way to readRequest; 0 is a blank line
    closed,     \* the client has closed its end
    torn,       \* ... in the middle of a line
    term,       \* g_should_terminate
    lines,      \* _requestlines, each as <<number of its request, kind>>
    pc,         \* "read", "answer"; "command", "lock", "asleep" (waiting for
                \* others), "query"; "head" and "body" (flush), "closed"
    out,        \* the response: [fixed, size, keepalive]; its size is 1, that
                \* of a message, from the first error on
    left,       \* writeData's to_write
    writing,    \* a write() is in progress
    moved,      \* how many pieces it has moved
    wire,       \* pieces in the socket
    got,        \* pieces the client has received
    tidy,       \* history: all requests were tidy, see Tidy
    cut,        \* history: a signal has cut a write() short
    promised,   \* history: the pieces of all responses so far
    answers     \* history: their number

input == <<sent, unread, closed, torn, tidy>>
output == <<left, writing, moved, cut, wire, promised, answers>>
vars == <<sent, unread, closed, torn, term, lines, pc, out, left, writing,
          moved, wire, got, tidy, cut, promised, answers>>

Blank == <<0, "blank">>

\* OutputBuffer::reset; the body of a fresh buffer is empty.
NoResponse == [fixed |-> FALSE, size |-> 0, keepalive |-> FALSE]

\* The pieces of a response: a header that tells the size, and the body.
HeadOf(o) == IF o.fixed THEN <<[n |-> 0, size |-> o.size]>> ELSE <<>>
BodyOf(o) == [k \in 1..o.size |-> [n |-> k, size |-> o.size]]

Init ==
    /\ sent = 0 /\ unread = <<>> /\ closed = FALSE /\ torn = FALSE
    /\ term = FALSE /\ lines = <<>> /\ pc = "read" /\ out = NoResponse
    /\ left = 0 /\ writing = FALSE /\ moved = 0
    /\ wire = <<>> /\ got = <<>> /\ tidy = TRUE /\ cut = FALSE /\ promised = <<>> /\ answers = 0

-----------------------------------------------------------------------------
(* The client and the core                                                 *)

\* One line for the method, and then headers the server knows, but for the
\* last.
Tidy(q) ==
    /\ Len(q) > 1 => q[1] \in {"GET", "GET unknown"}
    /\ \A k \in 2..(Len(q) - 1) : q[k] \in Header

\* Clients may pipeline: a request need not wait for an answer.
Send ==
    /\ ~closed /\ sent < MaxRequests
    /\ sent' = sent + 1
    /\ \E q \in Requests :
        /\ unread' = unread \o [k \in 1..Len(q) |-> <<sent', q[k]>>] \o <<Blank>>
        /\ tidy' = (tidy /\ Tidy(q))
    /\ UNCHANGED <<closed, torn, term, lines, pc, out, output, got>>

Receive ==
    /\ ~closed /\ wire # <<>>
    /\ got' = Append(got, Head(wire)) /\ wire' = Tail(wire)
    /\ UNCHANGED <<input, term, lines, pc, out, left, writing, moved, cut, promised, answers>>

Close ==
    /\ ~closed /\ closed' = TRUE /\ torn' \in BOOLEAN
    /\ UNCHANGED <<sent, unread, tidy, term, lines, pc, out, output, got>>

Terminate ==
    /\ ~term /\ term' = TRUE
    /\ UNCHANGED <<input, lines, pc, out, output, got>>

-----------------------------------------------------------------------------
(* readRequest, and what answerRequest does if it fails                    *)

ReadLine ==
    /\ pc = "read" /\ unread # <<>> /\ Head(unread) # Blank
    /\ lines' = Append(lines, Head(unread)) /\ unread' = Tail(unread)
    /\ UNCHANGED <<sent, closed, torn, tidy, term, pc, out, output, got>>

\* The end of a request is a blank line, or the end of the file after some
\* whole lines.
RequestRead ==
    /\ pc = "read" /\ lines # <<>>
    /\ \/ unread # <<>> /\ Head(unread) = Blank /\ unread' = Tail(unread)
       \/ unread = <<>> /\ closed /\ ~torn /\ UNCHANGED unread
    /\ pc' = "answer"
    /\ UNCHANGED <<sent, closed, torn, tidy, term, lines, out, output, got>>

\* The response in out is complete: flush writes it, with its header first.
Respond(o) ==
    /\ out' = o
    /\ promised' = promised \o HeadOf(o) \o BodyOf(o) /\ answers' = answers + 1
    /\ pc' = "head" /\ left' = Len(HeadOf(o)) /\ writing' = FALSE /\ moved' = 0

ErrorResponse == [NoResponse EXCEPT !.size = 1]

\* A blank line without a request, the end of the file, or an incomplete
\* request: only the last is told to the client.  A timeout or the flag can
\* end readRequest whenever it waits for more.
ReadFails ==
    /\ pc = "read"
    /\ \/ /\ lines = <<>> /\ unread # <<>> /\ Head(unread) = Blank
          /\ unread' = Tail(unread) /\ Respond(NoResponse)
       \/ /\ lines = <<>> /\ unread = <<>> /\ closed /\ ~torn
          /\ UNCHANGED unread /\ Respond(NoResponse)
       \/ /\ term \/ (unread = <<>> /\ (~closed \/ torn))
          /\ UNCHANGED unread /\ Respond(ErrorResponse)
    /\ UNCHANGED <<sent, closed, torn, tidy, term, lines, cut, wire, got>>

-----------------------------------------------------------------------------
(* Store::answerRequest                                                    *)

\* Mutant: the last line is left.
HeadersEndEarly ==
    LET bad == {k \in 2..Len(lines) : lines[k][2] \notin Header} IN
    IF bad = {} /\ Len(lines) > 1 THEN Len(lines) - 1
    ELSE IF bad = {} THEN 1 ELSE CHOOSE k \in bad : \A l \in bad : k <= l

\* The header loop ends with the lines, or with the first undefined one,
\* which it takes too.
HeadersEnd ==
    LET bad == {k \in 2..Len(lines) : lines[k][2] \notin Header} IN
    IF bad = {} THEN Len(lines) ELSE CHOOSE k \in bad : \A l \in bad : k <= l

BadHeader == \E k \in 2..HeadersEnd : lines[k][2] \notin Header
HasHeader(h) == \E k \in 2..HeadersEnd : lines[k][2] = h

\* answerGetRequest as far as the header loop.  An unknown table is an error
\* and leaves nothing to wait for; an undefined header is one that does not
\* keep a query of the log from waiting for its cache.  A query without an
\* error may wait for an event.
AnswerGet ==
    /\ pc = "answer" /\ lines[1][2] \in {"GET", "GET unknown"}
    /\ out' = [fixed |-> HasHeader("ResponseHeader"), keepalive |-> HasHeader("KeepAlive"),
               size |-> IF lines[1][2] = "GET unknown" \/ BadHeader THEN 1 ELSE 0]
    /\ pc' \in CASE lines[1][2] = "GET unknown" -> {"query"}
               [] BadHeader -> {"query", "lock"}
               [] OTHER -> {"query", "lock", "asleep"}
    /\ lines' = SubSeq(lines, HeadersEnd + 1, Len(lines))
    /\ UNCHANGED <<input, term, output, got>>

\* lockLogCache returns.  The query is cancelled if the core shuts down or if
\* isAlive finds no room for a byte; of a client that has left it may.
LockGot ==
    /\ pc = "lock"
    /\ \/ /\ term \/ closed \/ Len(wire) = Room
          /\ out' = [out EXCEPT !.size = 1] /\ pc' = "query"
       \/ /\ ~term /\ (closed \/ Len(wire) < Room)
          /\ out' = out /\ pc' \in {"query"} \cup (IF out.size = 0 THEN {"asleep"} ELSE {})
    /\ UNCHANGED <<input, term, lines, output, got>>

\* An event makes the condition true that doWait waits for without a timeout,
\* or the mutex of a table is given back.
Woken ==
    /\ pc = "asleep" /\ pc' = "query"
    /\ UNCHANGED <<input, term, lines, out, output, got>>

\* The rows, as many as they are, or the message of the first error; the
\* query itself may meet one.
FinishGet ==
    /\ pc = "query"
    /\ \E size \in 0..MaxBody :
        /\ out.size = 1 => size = 1
        /\ Respond([out EXCEPT !.size = size])
    /\ UNCHANGED <<input, term, lines, cut, wire, got>>

\* Only the first line is taken.  The connection is kept, also if there is no
\* query handler to connect to.
AnswerCommand ==
    /\ pc = "answer" /\ lines[1][2] = "COMMAND"
    /\ \/ Respond([NoResponse EXCEPT !.keepalive = TRUE])
       \/ /\ out' = [NoResponse EXCEPT !.keepalive = TRUE] /\ pc' = "command"
          /\ UNCHANGED <<left, writing, moved, promised, answers>>
    /\ lines' = Tail(lines)
    /\ UNCHANGED <<input, term, cut, wire, got>>

\* The core's query handler has run the command, or refused it, and closes the
\* socket that read() waits for.  A core that shuts down runs none: it joins
\* this thread.
CommandRun ==
    /\ pc = "command" /\ ~term
    /\ \E size \in {0, 1} : Respond([out EXCEPT !.size = size])
    /\ UNCHANGED <<input, term, lines, cut, wire, got>>

\* LOGROTATE, or no method at all.
AnswerOther ==
    /\ pc = "answer" /\ lines[1][2] \notin {"GET", "GET unknown", "COMMAND"}
    /\ Respond(IF lines[1][2] = "LOGROTATE" THEN NoResponse ELSE ErrorResponse)
    /\ lines' = Tail(lines)
    /\ UNCHANGED <<input, term, cut, wire, got>>

-----------------------------------------------------------------------------
(* OutputBuffer::flush and writeData                                       *)

Flushing == pc \in {"head", "body"}

\* select() reports room: write() is called.
WriteStart ==
    /\ Flushing /\ ~writing /\ left > 0 /\ ~term
    /\ closed \/ Len(wire) < Room
    /\ writing' = TRUE /\ moved' = 0
    /\ UNCHANGED <<input, term, lines, pc, out, left, cut, wire, got, promised, answers>>

\* write() moves the next piece behind write_from, which always points to the
\* first.
WriteMove ==
    /\ writing /\ ~closed /\ moved < left /\ Len(wire) < Room
    /\ wire' = Append(wire, (IF pc = "head" THEN HeadOf(out) ELSE BodyOf(out))[moved + 1])
    /\ moved' = moved + 1
    /\ UNCHANGED <<input, term, lines, pc, out, left, writing, cut, got, promised, answers>>

WriteReturn(rest) ==
    /\ left' = rest /\ writing' = FALSE /\ moved' = 0
    /\ UNCHANGED <<input, term, lines, pc, out, wire, got, promised, answers>>

WriteEnd == writing /\ moved = left /\ WriteReturn(0) /\ UNCHANGED cut

\* A signal after some pieces makes write() return their number: the rest is
\* still to be written.  (Before the first piece, write() is restarted.)
WriteSignal ==
    /\ writing /\ 0 < moved /\ moved < left
    /\ WriteReturn(left - moved)
    /\ cut' = TRUE

\* Mutant: an error counts as nothing written.
WriteFailsAgain == writing /\ closed /\ moved < left /\ WriteReturn(left) /\ UNCHANGED cut

\* EPIPE: writeData gives up.
WriteFails == writing /\ closed /\ moved < left /\ WriteReturn(0) /\ UNCHANGED cut

\* Mutants: the body does not wait for its header; the flag does not end
\* writeData; the body is not waited for.
FlushBodyAtOnce ==
    /\ pc = "head" /\ ~writing
    /\ pc' = "body" /\ left' = out.size
    /\ UNCHANGED <<input, term, lines, out, writing, moved, cut, wire, got, promised, answers>>

FlushBodyWhenWritten ==
    /\ pc = "head" /\ ~writing /\ left = 0
    /\ pc' = "body" /\ left' = out.size
    /\ UNCHANGED <<input, term, lines, out, writing, moved, cut, wire, got, promised, answers>>

FlushEndAtOnce ==
    /\ pc = "body" /\ ~writing
    /\ pc' = IF out.keepalive /\ ~term THEN "read" ELSE "closed"
    /\ out' = NoResponse /\ left' = 0
    /\ UNCHANGED <<input, term, lines, writing, moved, cut, wire, got, promised, answers>>

\* writeData returns: the body follows its header, and after the body the
\* thread goes on with the next request or leaves.
FlushBody ==
    /\ pc = "head" /\ ~writing /\ (left = 0 \/ term)
    /\ pc' = "body" /\ left' = out.size
    /\ UNCHANGED <<input, term, lines, out, writing, moved, cut, wire, got, promised, answers>>

FlushEnd ==
    /\ pc = "body" /\ ~writing /\ (left = 0 \/ term)
    /\ pc' = IF out.keepalive /\ ~term THEN "read" ELSE "closed"
    /\ out' = NoResponse /\ left' = 0
    /\ UNCHANGED <<input, term, lines, writing, moved, cut, wire, got, promised, answers>>

-----------------------------------------------------------------------------
\* Bound: the connection is over and nothing is left to receive.  Or the core
\* joins this thread, which waits for the core.
Done == (pc = "closed" \/ (pc = "command" /\ term)) /\ UNCHANGED vars

Serve ==
    \/ ReadLine \/ RequestRead
    \/ AnswerGet \/ FinishGet \/ AnswerCommand \/ AnswerOther
    \/ WriteStart \/ WriteMove \/ WriteEnd \/ WriteFails \/ FlushBody \/ FlushEnd

Next ==
    \/ Send \/ Receive \/ Close \/ Terminate
    \/ Serve \/ CommandRun \/ LockGot \/ Woken \/ ReadFails \/ WriteSignal \/ Done

\* The thread is scheduled; readRequest ends if the client or the core ends
\* it (idle timeouts are an option of the configuration).  Nothing makes the
\* core run a command, another query give the log cache back, or an event
\* happen.
Fairness ==
    /\ WF_vars(Serve)
    /\ WF_vars(ReadFails /\ (closed \/ term))

Spec == Init /\ [][Next]_vars /\ Fairness

-----------------------------------------------------------------------------
(* Properties                                                              *)

TypeOK ==
    /\ sent \in 0..MaxRequests
    /\ unread \in Seq({Blank} \cup ((1..MaxRequests) \X Kind))
    /\ lines \in Seq((1..MaxRequests) \X Kind)
    /\ {closed, torn, term, writing, tidy, cut} \subseteq BOOLEAN
    /\ pc \in {"read", "answer", "command", "lock", "asleep", "query", "head", "body", "closed"}
    /\ out \in [fixed : BOOLEAN, size : 0..MaxBody, keepalive : BOOLEAN]
    /\ left \in 0..MaxBody /\ moved \in 0..left /\ Len(wire) <= Room

\* What a request is answered from are its own lines, and all of them ("you
\* can subsequently retrieve the lines of the request with nextLine()",
\* InputBuffer.cc:37), as long as every request takes all its lines.
LinesOfTheRequest ==
    (tidy /\ pc = "answer") =>
        /\ \A k \in 1..Len(lines) : lines[k][1] = lines[1][1]
        /\ \A k \in 1..Len(unread) : unread[k][1] # lines[1][1]

\* The client gets what was answered, in order and undamaged, and only a
\* connection that ends is cut short; a signal in a write() may damage it.
ReceivedAsAnswered == ~cut => IsPrefix(got \o wire, promised)
AnsweredCompletely == (~cut /\ pc = "read" /\ ~closed) => got \o wire = promised

\* The client does not read: writeData waits, in select() or in write().
NotRead == Flushing /\ ~closed /\ Len(wire) = Room
Blocked == NotRead /\ writing /\ moved < left

\* The thread waits for others: for the log cache that another query has
\* locked (Store.cc:173), for an event without a timeout (Query.cc:1541) or
\* the mutex of a table, or for the core, which may be in pthread_join or wait
\* for such a mutex itself, to run a command (Store.cc:146).
HeldUp == pc \in {"lock", "asleep", "command"}

\* Unless its client stops reading, or the thread waits for others for ever,
\* the client has the n-th answer after its n-th request, or sees the
\* connection end: no answer waits for a later request.
EveryRequestAnswered ==
    \/ <>[](NotRead \/ HeldUp)
    \/ \A n \in 1..MaxRequests : sent >= n ~> (answers >= n \/ pc = "closed")

\* "Make sure all client connections are terminated before returning control"
\* (module.c:476): once the flag is set, the thread comes to its end, unless
\* it stays in a write() to a client that does not read, or waits for others
\* for ever.
TerminationEndsThread == <>[](Blocked \/ HeldUp) \/ (term ~> pc = "closed")
=============================================================================
