------------------------- MODULE InputBuffer_proofs -------------------------
(***************************************************************************)
(* Proofs about InputBuffer: its pointers, its window into the stream and  *)
(* what its results mean, for every buffer size, every timeout and every   *)
(* set of bytes; and that the reader implements RequestFraming.            *)
(***************************************************************************)
EXTENDS InputBuffer, TLAPS, SequenceTheorems, WellFoundedInduction

\* Beside the types: where the local scan pointer stands in each phase, and
\* that it has passed no line end.
ScanInv ==
    /\ wp <= nread
    /\ pc # "returned" => result = "none"
    /\ pc \in {"data", "select"} => r = wp
    /\ pc = "returned" => result # "none"
    /\ pc = "select" => ~QueryExpired
    /\ result = "request_read" => r = rp
    /\ result = "line_too_long" => wp = BufSize
    /\ \A i \in rp..(r - 1) : buf[i] # Newline

IInv ==
    /\ TypeOK
    /\ ScanInv
    /\ RoomToRead
    /\ WindowIsStream
    /\ LineTooLongIsTrue
    /\ NextLineHasOne

-----------------------------------------------------------------------------
\* The length storeRequestLine arrives at exists: it is the least position
\* behind which there is only white space.
LEMMA TrimmedLengthType ==
    ASSUME NEW line \in Seq(Byte)
    PROVE  TrimmedLength(line) \in 0..Len(line)
<1> DEFINE T == {n \in 0..Len(line) : \A i \in (n + 1)..Len(line) : line[i] \in Space}
<1>1. Len(line) \in Nat
  BY LenProperties
<1>2. T \subseteq Nat /\ Len(line) \in T
  BY <1>1
<1>3. \E x \in T : \A y \in T : ~(<<y, x>> \in OpToRel(<, Nat))
  BY <1>2, NatLessThanWellFounded, WFMin
<1>4. PICK n \in T : \A y \in T : ~(y < n)
  BY <1>2, <1>3 DEF OpToRel
<1>5. n > 0 => line[n] \notin Space
  <2>1. SUFFICES ASSUME n > 0, line[n] \in Space
                 PROVE  FALSE
    OBVIOUS
  <2>2. n - 1 \in T
    BY <1>1, <2>1
  <2>3. ~(n - 1 < n)
    BY <1>4, <2>2
  <2>4. n \in Nat
    BY <1>2
  <2> QED
    BY <2>3, <2>4
<1>6. \E m \in 0..Len(line) :
        /\ m > 0 => line[m] \notin Space
        /\ \A i \in (m + 1)..Len(line) : line[i] \in Space
  BY <1>4, <1>5
<1> QED
  BY <1>6 DEF TrimmedLength

\* A stored line is a line of the client's bytes, and lines are only added.
LEMMA StoreRequestLineType ==
    ASSUME NEW ls \in Seq(Seq(Byte)), NEW line \in Seq(Byte)
    PROVE  StoreRequestLine(ls, line) \in Seq(Seq(Byte))
<1>1. TrimmedLength(line) \in 0..Len(line) /\ Len(line) \in Nat
  BY TrimmedLengthType, LenProperties
<1>2. SubSeq(line, 1, TrimmedLength(line)) \in Seq(Byte)
  <2>1. \A i \in 1..TrimmedLength(line) : line[i] \in Byte
    BY <1>1, ElementOfSeq
  <2> QED
    BY <1>1, <2>1, SubSeqProperties
<1> QED
  BY <1>2, AppendProperties DEF StoreRequestLine

LEMMA InitIInv == Init => IInv
<1> SUFFICES ASSUME Init PROVE IInv
  OBVIOUS
<1> USE ConstantsAssumption
<1>1. TypeOK
  BY DEF Init, TypeOK, Result, IdleCap
<1> QED
  BY <1>1 DEF Init, IInv, ScanInv, RoomToRead, WindowIsStream, LineTooLongIsTrue, NextLineHasOne

-----------------------------------------------------------------------------
\* The clients' steps only extend the unread part of the stream, or cut it.
LEMMA ClientStep ==
    ASSUME IInv, Send \/ Close \/ Abort \/ Terminate
    PROVE  IInv'
<1> USE ConstantsAssumption DEF IInv, TypeOK, ScanInv, QueryExpired, client, buffer, clock
<1>0. /\ BufSize \in Nat /\ nread \in Nat /\ Len(stream) \in Nat
      /\ wp \in Nat /\ rp \in Nat /\ r \in Nat /\ rp <= r /\ r <= wp /\ wp <= nread
      /\ \A i \in 1..Len(stream) : stream[i] \in Byte
  BY LenProperties, ElementOfSeq
<1>1. CASE Send
  <2>1. PICK b \in Byte : stream' = Append(stream, b)
    BY <1>1 DEF Send
  <2>2. /\ stream' \in Seq(Byte) /\ Len(stream') = Len(stream) + 1
        /\ \A i \in 1..Len(stream) : stream'[i] = stream[i]
    BY <2>1, AppendProperties
  <2>3. TypeOK'
    BY <1>0, <1>1, <2>2 DEF Send
  <2>4. WindowIsStream' /\ LineTooLongIsTrue'
    <3>1. \A i \in 1..nread : stream'[i] = stream[i]
      BY <1>0, <2>2
    <3>2. WindowIsStream'
      <4>1. \A i \in rp..(wp - 1) : nread - wp + i + 1 \in 1..nread
        BY <1>0
      <4>2. \A i \in rp..(wp - 1) : buf[i] = stream'[nread - wp + i + 1]
        BY <3>1, <4>1 DEF WindowIsStream
      <4> QED
        BY <1>1, <4>2 DEF Send, WindowIsStream
    <3>3. LineTooLongIsTrue'
      <4>1. SUFFICES ASSUME result = "line_too_long"
                     PROVE  \A i \in 1..BufSize : stream'[nread - BufSize + i] # Newline
        BY <1>1 DEF Send, LineTooLongIsTrue
      <4>2. \A i \in 1..BufSize : nread - BufSize + i \in 1..nread
        BY <1>0, <4>1
      <4> QED
        BY <3>1, <4>1, <4>2 DEF LineTooLongIsTrue
    <3> QED
      BY <3>2, <3>3
  <2> QED
    BY <1>1, <2>3, <2>4 DEF Send, RoomToRead, NextLineHasOne
<1>2. CASE Close
  BY <1>2 DEF Close, RoomToRead, WindowIsStream, LineTooLongIsTrue, NextLineHasOne
<1>3. CASE Terminate
  BY <1>3 DEF Terminate, RoomToRead, WindowIsStream, LineTooLongIsTrue, NextLineHasOne
<1>4. CASE Abort
  <2>2. /\ stream' \in Seq(Byte) /\ Len(stream') = nread
        /\ \A i \in 1..nread : stream'[i] = stream[i]
    <3>1. stream' = SubSeq(stream, 1, nread)
      BY <1>4 DEF Abort
    <3>2. \A i \in 1..nread : stream[i] \in Byte
      BY <1>0
    <3> QED
      BY <1>0, <3>1, <3>2, SubSeqProperties
  <2>3. TypeOK'
    BY <1>0, <1>4, <2>2 DEF Abort
  <2>4. WindowIsStream'
    <3>1. \A i \in rp..(wp - 1) : nread - wp + i + 1 \in 1..nread
      BY <1>0
    <3>2. \A i \in rp..(wp - 1) : buf[i] = stream'[nread - wp + i + 1]
      BY <2>2, <3>1 DEF WindowIsStream
    <3> QED
      BY <1>4, <3>2 DEF Abort, WindowIsStream
  <2>5. LineTooLongIsTrue'
    <3>1. SUFFICES ASSUME result = "line_too_long"
                   PROVE  \A i \in 1..BufSize : stream'[nread - BufSize + i] # Newline
      BY <1>4 DEF Abort, LineTooLongIsTrue
    <3>2. \A i \in 1..BufSize : nread - BufSize + i \in 1..nread
      BY <1>0, <3>1
    <3> QED
      BY <2>2, <3>1, <3>2 DEF LineTooLongIsTrue
  <2> QED
    BY <1>4, <2>3, <2>4, <2>5 DEF Abort, RoomToRead, NextLineHasOne
<1> QED
  BY <1>1, <1>2, <1>3, <1>4

\* readRequest between two reads: scanning, storing lines, shifting.
LEMMA ScanStep ==
    ASSUME IInv, Scan \/ EndOfLine \/ EmptyLine \/ Shift \/ LineTooLong
    PROVE  IInv'
<1> USE ConstantsAssumption DEF IInv, TypeOK, ScanInv, QueryExpired, client, buffer, clock, Return, Result
<1>0. /\ BufSize \in Nat /\ nread \in Nat /\ Len(stream) \in Nat
      /\ wp \in Nat /\ rp \in Nat /\ r \in Nat /\ rp <= r /\ r <= wp /\ wp <= nread
  BY LenProperties
<1>1. CASE Scan
  <2>1. /\ pc = "scan" /\ r < wp /\ buf[r] # Newline /\ r' = r + 1
        /\ stream' = stream /\ closed' = closed /\ nread' = nread /\ term' = term /\ buf' = buf
        /\ rp' = rp /\ wp' = wp /\ lines' = lines /\ started' = started
        /\ idle' = idle /\ slices' = slices /\ pc' = pc /\ result' = result
    BY <1>1 DEF Scan
  <2>2. r' \in 0..wp' /\ rp' \in 0..r'
    BY <1>0, <2>1
  <2>3. TypeOK'
    BY <2>1, <2>2 DEF IdleCap
  <2>4. \A i \in rp'..(r' - 1) : buf'[i] # Newline
    <3>1. rp..r = (rp..(r - 1)) \cup {r}
      BY <1>0
    <3> QED
      BY <1>0, <2>1, <3>1
  <2>5. ScanInv'
    BY <2>1, <2>4
  <2>6. RoomToRead' /\ WindowIsStream' /\ LineTooLongIsTrue' /\ NextLineHasOne'
    BY <2>1 DEF RoomToRead, WindowIsStream, LineTooLongIsTrue, NextLineHasOne
  <2> QED
    BY <2>3, <2>5, <2>6
<1>2. CASE EndOfLine
  <2>1. CurrentLine \in Seq(Byte)
    <3>1. \A i \in 1..(r - rp) : buf[rp + i - 1] \in Byte
      BY <1>0
    <3>2. r - rp \in Nat
      BY <1>0
    <3> QED
      BY <3>1, <3>2 DEF CurrentLine
  <2>2. lines' \in Seq(Seq(Byte))
    BY <1>2, <2>1, StoreRequestLineType DEF EndOfLine
  <2>3. TypeOK'
    BY <1>0, <1>2, <2>2 DEF EndOfLine
  <2> QED
    BY <1>0, <1>2, <2>3 DEF EndOfLine, RoomToRead, WindowIsStream, LineTooLongIsTrue, NextLineHasOne
<1>3. CASE EmptyLine
  BY <1>0, <1>3 DEF EmptyLine, RoomToRead, WindowIsStream, LineTooLongIsTrue, NextLineHasOne
<1>4. CASE Shift
  <2>1. \A i \in 0..(wp' - 1) : buf'[i] = buf[i + rp]
    BY <1>0, <1>4 DEF Shift
  <2>2. TypeOK'
    <3>1. \A i \in 0..(BufSize - 1) : buf'[i] \in Byte
      BY <1>0, <1>4 DEF Shift
    <3>2. buf' \in [0..(BufSize - 1) -> Byte]
      BY <1>4, <3>1 DEF Shift
    <3> QED
      BY <1>0, <1>4, <3>2 DEF Shift
  <2>3. WindowIsStream'
    BY <1>0, <1>4, <2>1 DEF Shift, WindowIsStream
  <2>4. ScanInv'
    BY <1>0, <1>4, <2>1 DEF Shift
  <2> QED
    BY <1>0, <1>4, <2>2, <2>3, <2>4 DEF Shift, RoomToRead, LineTooLongIsTrue, NextLineHasOne
<1>5. CASE LineTooLong
  <2>1. LineTooLongIsTrue'
    <3>1. \A i \in 1..BufSize : buf[i - 1] # Newline /\ buf[i - 1] = stream[nread - BufSize + i]
      BY <1>0, <1>5 DEF LineTooLong, WindowIsStream
    <3> QED
      BY <1>0, <1>5, <3>1 DEF LineTooLong, LineTooLongIsTrue
  <2> QED
    BY <1>0, <1>5, <2>1 DEF LineTooLong, RoomToRead, WindowIsStream, NextLineHasOne
<1> QED
  BY <1>1, <1>2, <1>3, <1>4, <1>5

\* readData, and the caller.
LEMMA ReadStep ==
    ASSUME IInv,
           NeedData \/ SeeTermination \/ Timeout \/ Select \/ ReadBytes
             \/ ReadEnd \/ Poll \/ Serve
    PROVE  IInv'
<1> USE ConstantsAssumption DEF IInv, TypeOK, ScanInv, QueryExpired, client, buffer, clock, Return, Result
<1>0. /\ BufSize \in Nat /\ nread \in Nat /\ Len(stream) \in Nat
      /\ wp \in Nat /\ rp \in Nat /\ r \in Nat /\ rp <= r /\ r <= wp /\ wp <= nread
  BY LenProperties
<1>a. IdleCap \in Nat /\ Later(idle) \in 0..IdleCap
  BY DEF IdleCap, Later
<1>1. CASE NeedData
  BY <1>0, <1>1 DEF NeedData, RoomToRead, WindowIsStream, LineTooLongIsTrue, NextLineHasOne
<1>2. CASE SeeTermination
  BY <1>0, <1>2 DEF SeeTermination, RoomToRead, WindowIsStream, LineTooLongIsTrue, NextLineHasOne
<1>3. CASE Timeout
  BY <1>0, <1>3 DEF Timeout, RoomToRead, WindowIsStream, LineTooLongIsTrue, NextLineHasOne
<1>4. CASE Select
  BY <1>0, <1>4 DEF Select, RoomToRead, WindowIsStream, LineTooLongIsTrue, NextLineHasOne
<1>5. CASE ReadBytes
  <2>1. PICK n \in 1..(BufSize - wp) :
          /\ nread + n <= Len(stream)
          /\ buf' = [i \in DOMAIN buf |->
                       IF i \in wp..(wp + n - 1) THEN stream[nread + i - wp + 1]
                       ELSE buf[i]]
          /\ wp' = wp + n /\ nread' = nread + n
    BY <1>5 DEF ReadBytes
  <2>2. n \in Nat /\ n >= 1 /\ wp + n <= BufSize
    BY <1>0, <2>1
  <2>3. \A i \in 1..Len(stream) : stream[i] \in Byte
    BY ElementOfSeq
  <2>4. \A i \in 0..(wp - 1) : buf'[i] = buf[i]
    BY <1>0, <2>1, <2>2
  <2>5. \A i \in wp..(wp + n - 1) : buf'[i] = stream[nread + i - wp + 1]
    BY <1>0, <2>1, <2>2
  <2>6. buf' \in [0..(BufSize - 1) -> Byte]
    <3>1. \A i \in wp..(wp + n - 1) : nread + i - wp + 1 \in 1..Len(stream)
      BY <1>0, <2>1, <2>2
    <3>2. \A i \in 0..(BufSize - 1) : buf'[i] \in Byte
      BY <1>0, <2>1, <2>2, <2>3, <3>1
    <3> QED
      BY <2>1, <3>2
  <2>7. TypeOK'
    BY <1>0, <1>a, <1>5, <2>1, <2>2, <2>6 DEF ReadBytes
  <2>8. WindowIsStream'
    <3>1. \A i \in rp..(wp - 1) : buf'[i] = stream[nread' - wp' + i + 1]
      BY <1>0, <2>1, <2>2, <2>4 DEF WindowIsStream
    <3>2. \A i \in wp..(wp' - 1) : buf'[i] = stream[nread' - wp' + i + 1]
      BY <1>0, <2>1, <2>2, <2>5
    <3> QED
      BY <1>0, <1>5, <2>1, <2>2, <3>1, <3>2 DEF ReadBytes, WindowIsStream
  <2>9. ScanInv'
    BY <1>0, <1>5, <2>1, <2>2, <2>4 DEF ReadBytes
  <2> QED
    BY <1>5, <2>7, <2>8, <2>9 DEF ReadBytes, RoomToRead, LineTooLongIsTrue, NextLineHasOne
<1>6. CASE ReadEnd
  BY <1>0, <1>6 DEF ReadEnd, RoomToRead, WindowIsStream, LineTooLongIsTrue, NextLineHasOne
<1>7. CASE Poll
  <2>1. slices' \in 0..QueryTimeout
    <3>1. slices \in Nat /\ QueryTimeout \in Nat
      BY <1>0
    <3>2. QueryTimeout = 0 \/ slices < QueryTimeout
      BY <1>7, <3>1 DEF Poll, QueryExpired
    <3> QED
      BY <1>7, <3>1, <3>2 DEF Poll
  <2> QED
    BY <1>0, <1>7, <1>a, <2>1 DEF Poll, RoomToRead, WindowIsStream, LineTooLongIsTrue, NextLineHasOne
<1>8. CASE Serve
  <2>1. lines' \in Seq(Seq(Byte))
    <3>1. PICK n \in 1..Len(lines) : lines' = SubSeq(lines, n + 1, Len(lines))
      BY <1>8 DEF Serve
    <3>2. Len(lines) \in Nat /\ \A i \in (n + 1)..Len(lines) : lines[i] \in Seq(Byte)
      BY LenProperties, ElementOfSeq
    <3> QED
      BY <3>1, <3>2, SubSeqProperties
  <2>2. TypeOK'
    <3>1. /\ UNCHANGED <<stream, closed, nread, term, buf, rp, wp>> /\ r' = rp
          /\ pc' = "scan" /\ result' = "none" /\ started' = FALSE
          /\ idle' = 0 /\ slices' = 0
      BY <1>8 DEF Serve
    <3>2. idle' \in 0..IdleCap' /\ slices' \in 0..QueryTimeout
      BY <1>a, <3>1 DEF IdleCap
    <3>3. wp' \in 0..BufSize /\ r' \in 0..wp' /\ rp' \in 0..r'
      BY <1>0, <3>1
    <3>4. buf' \in [0..(BufSize - 1) -> Byte] /\ nread' \in 0..Len(stream')
      BY <3>1
    <3>5. stream' \in Seq(Byte) /\ Len(stream') <= MaxBytes
      BY <3>1
    <3> QED
      BY <2>1, <3>1, <3>2, <3>3, <3>4, <3>5
  <2>3. ScanInv'
    BY <1>0, <1>8 DEF Serve
  <2> QED
    BY <1>8, <2>2, <2>3 DEF Serve, RoomToRead, WindowIsStream, LineTooLongIsTrue, NextLineHasOne
<1> QED
  BY <1>1, <1>2, <1>3, <1>4, <1>5, <1>6, <1>7, <1>8

-----------------------------------------------------------------------------
LEMMA NextIInv == IInv /\ [Next]_vars => IInv'
<1> SUFFICES ASSUME IInv, [Next]_vars PROVE IInv'
  OBVIOUS
<1>1. CASE Hangup \/ UNCHANGED vars
  <2>1. UNCHANGED vars
    BY <1>1 DEF Hangup
  <2>2. TypeOK'
    BY <2>1 DEF IInv, TypeOK, IdleCap, vars
  <2>3. ScanInv'
    BY <2>1 DEF IInv, ScanInv, QueryExpired, vars
  <2>4. RoomToRead' /\ WindowIsStream' /\ LineTooLongIsTrue' /\ NextLineHasOne'
    BY <2>1 DEF IInv, RoomToRead, WindowIsStream, LineTooLongIsTrue, NextLineHasOne, vars
  <2> QED
    BY <2>2, <2>3, <2>4 DEF IInv
<1> QED
  BY <1>1, ClientStep, ScanStep, ReadStep DEF Next, ReadRequest

\* Everything above holds of every reachable state.
THEOREM InvariantHolds == Spec => []IInv
<1> QED
  BY InitIInv, NextIInv, PTL DEF Spec

\* The variables keep their types; in particular the three pointers stay in
\* the buffer and in their order.
THEOREM TypesCorrect == Spec => []TypeOK
<1>1. IInv => TypeOK
  BY DEF IInv
<1> QED
  BY <1>1, InvariantHolds, PTL

\* No byte of the client is lost, repeated or overwritten by the buffer,
\* however large it is and however the bytes arrive.
THEOREM WindowCorrect == Spec => []WindowIsStream
<1>1. IInv => WindowIsStream
  BY DEF IInv
<1> QED
  BY <1>1, InvariantHolds, PTL

\* read() always has room, so a full buffer is never taken for a closed
\* connection.
THEOREM ReadHasRoom == Spec => []RoomToRead
<1>1. IInv => RoomToRead
  BY DEF IInv
<1> QED
  BY <1>1, InvariantHolds, PTL

\* "Line too long" is said only about a line that does not fit the buffer.
THEOREM LineTooLongCorrect == Spec => []LineTooLongIsTrue
<1>1. IInv => LineTooLongIsTrue
  BY DEF IInv
<1> QED
  BY <1>1, InvariantHolds, PTL

\* The caller's first nextLine() finds a line.
THEOREM NextLineSafe == Spec => []NextLineHasOne
<1>1. IInv => NextLineHasOne
  BY DEF IInv
<1> QED
  BY <1>1, InvariantHolds, PTL

-----------------------------------------------------------------------------
(* The idle clock                                                          *)

\* Nothing of the next request is there yet.
Quiet == ~started /\ rp = wp

\* readRequest only goes round its loop while the idle timeout is not over, and
\* what readData adds to that is at most the time it polls.
IdleInv ==
    QueryTimeout # 0 /\ IdleTimeout # 0 /\ Quiet =>
        /\ pc = "scan" => idle < IdleTimeout
        /\ pc \in {"data", "select"} => idle < IdleTimeout + slices

LEMMA IdleStep == IInv /\ IdleInv /\ [Next]_vars => IdleInv'
<1> SUFFICES ASSUME IInv, IdleInv, [Next]_vars PROVE IdleInv'
  OBVIOUS
<1> USE ConstantsAssumption DEF IdleInv, Quiet
<1>1. /\ QueryTimeout \in Nat /\ IdleTimeout \in Nat /\ idle \in Nat /\ slices \in Nat
      /\ rp \in Nat /\ wp \in Nat /\ r \in Nat /\ rp <= r /\ r <= wp
  BY DEF IInv, TypeOK, IdleCap
<1>2. CASE Send \/ Close \/ Abort \/ Terminate \/ Hangup \/ UNCHANGED vars
  BY <1>2 DEF Send, Close, Abort, Terminate, Hangup, vars, client, buffer, clock
<1>3. CASE Scan \/ EndOfLine \/ EmptyLine \/ LineTooLong \/ SeeTermination
  BY <1>1, <1>3 DEF Scan, EndOfLine, EmptyLine, LineTooLong, SeeTermination, Return,
                    client, buffer, clock
<1>4. CASE NeedData \/ Select
  BY <1>1, <1>4 DEF NeedData, Select, client, buffer, clock
<1>5. CASE Shift
  BY <1>1, <1>5 DEF Shift, client, clock
<1>6. CASE Timeout
  BY <1>1, <1>6 DEF Timeout, IdleExpired, Return, client, buffer, clock
<1>7. CASE ReadBytes
  <2>1. PICK n \in 1..(BufSize - wp) : wp' = wp + n
    BY <1>7 DEF ReadBytes
  <2>2. rp' = rp /\ rp' # wp'
    BY <1>1, <1>7, <2>1 DEF ReadBytes
  <2> QED
    BY <2>2
<1>8. CASE ReadEnd
  BY <1>8 DEF ReadEnd, Return, client, buffer, clock
<1>9. CASE Poll
  BY <1>1, <1>9 DEF Poll, Later, client, buffer
<1>10. CASE Serve
  BY <1>1, <1>10 DEF Serve, client
<1> QED
  BY <1>2, <1>3, <1>4, <1>5, <1>6, <1>7, <1>8, <1>9, <1>10 DEF Next, ReadRequest

\* If there is a query timeout, after which readData comes back at all, a
\* connection that has sent nothing of its next request is closed in time.
THEOREM IdleCorrect ==
    ASSUME QueryTimeout # 0
    PROVE  Spec => []IdleConnectionEnds
<1>1. Init => IdleInv
  BY ConstantsAssumption DEF Init, IdleInv
<1>2. IInv /\ IdleInv => IdleConnectionEnds
  <2> SUFFICES ASSUME IInv, IdleInv, IdleTimeout # 0, pc \in {"data", "select"}, ~started, rp = wp
               PROVE  idle <= IdleTimeout + QueryTimeout
    BY DEF IdleConnectionEnds
  <2>1. idle \in Nat /\ IdleTimeout \in Nat /\ QueryTimeout \in Nat /\ slices \in 0..QueryTimeout
    BY ConstantsAssumption DEF IInv, TypeOK, IdleCap
  <2>2. idle < IdleTimeout + slices
    BY DEF IdleInv, Quiet
  <2> QED
    BY <2>1, <2>2
<1> QED
  BY <1>1, <1>2, IdleStep, InvariantHolds, PTL DEF Spec

-----------------------------------------------------------------------------
(* The read-ahead buffer implements RequestFraming: the pointers, shifts,  *)
(* packets and polls are invisible to whoever looks at the request lines.  *)

AbsPos == nread - wp + r
AbsCur == [i \in 1..(r - rp) |-> stream[nread - wp + rp + i]]
AbsState == IF pc = "returned" THEN result ELSE "reading"

\* What the abstract state looks like where the invariant holds.
LEMMA Mapping ==
    ASSUME IInv
    PROVE  /\ BufSize \in Nat /\ nread \in Nat /\ Len(stream) \in Nat /\ nread <= Len(stream)
           /\ wp \in Nat /\ rp \in Nat /\ r \in Nat /\ rp <= r /\ r <= wp /\ wp <= nread
           /\ \A i \in 1..Len(stream) : stream[i] \in Byte
           /\ AbsCur = CurrentLine
           /\ CurrentLine \in Seq(Byte) /\ Len(CurrentLine) = r - rp
           /\ r < wp => stream[AbsPos + 1] = buf[r] /\ AbsPos < Len(stream)
<1> USE ConstantsAssumption DEF IInv, TypeOK, ScanInv
<1>1. /\ BufSize \in Nat /\ nread \in Nat /\ Len(stream) \in Nat /\ nread <= Len(stream)
      /\ wp \in Nat /\ rp \in Nat /\ r \in Nat /\ rp <= r /\ r <= wp /\ wp <= nread
      /\ \A i \in 1..Len(stream) : stream[i] \in Byte
  BY LenProperties, ElementOfSeq
<1>2. \A i \in 1..(r - rp) : buf[rp + i - 1] = stream[nread - wp + rp + i]
  BY <1>1 DEF WindowIsStream
<1>3. AbsCur = CurrentLine
  BY <1>2 DEF AbsCur, CurrentLine
<1>4. CurrentLine \in Seq(Byte) /\ Len(CurrentLine) = r - rp
  <2>1. \A i \in 1..(r - rp) : buf[rp + i - 1] \in Byte
    BY <1>1
  <2> QED
    BY <1>1, <2>1 DEF CurrentLine
<1>5. r < wp => stream[AbsPos + 1] = buf[r] /\ AbsPos < Len(stream)
  BY <1>1 DEF WindowIsStream, AbsPos
<1> QED
  BY <1>1, <1>3, <1>4, <1>5

LEMMA FramingInit == Init => Framing!Init
<1> SUFFICES ASSUME Init PROVE Framing!Init
  OBVIOUS
<1>1. [i \in 1..(r - rp) |-> stream[nread - wp + rp + i]] = <<>>
  BY DEF Init
<1> QED
  BY <1>1 DEF Init, Framing!Init

\* As long as the buffer's window and what was read of the stream stay, the
\* abstract position and line stay.
LEMMA SameMapping ==
    ASSUME IInv, UNCHANGED <<nread, rp, wp, r>>,
           \A i \in 1..nread : stream'[i] = stream[i]
    PROVE  AbsCur' = AbsCur /\ AbsPos' = AbsPos
<1>1. \A i \in 1..(r - rp) : nread - wp + rp + i \in 1..nread
  BY Mapping
<1> QED
  BY <1>1 DEF AbsCur, AbsPos

LEMMA FramingClient ==
    ASSUME IInv, Send \/ Close \/ Abort \/ Terminate
    PROVE  [Framing!Next]_(Framing!vars)
<1> USE Mapping DEF client, buffer, clock
<1>1. CASE Send
  <2>1. PICK b \in Byte : stream' = Append(stream, b)
    BY <1>1 DEF Send
  <2>2. \A i \in 1..nread : stream'[i] = stream[i]
    BY <2>1, AppendProperties DEF IInv, TypeOK
  <2>3. AbsCur' = AbsCur /\ AbsPos' = AbsPos
    BY <1>1, <2>2, SameMapping DEF Send
  <2> QED
    BY <1>1, <2>1, <2>3 DEF Send, Framing!Next, Framing!Send, AbsCur, AbsPos
<1>2. CASE Close
  BY <1>2 DEF Close, Framing!Next, Framing!Close
<1>3. CASE Terminate
  BY <1>3 DEF Terminate, Framing!vars
<1>4. CASE Abort
  <2>1. stream' = SubSeq(stream, 1, nread)
    BY <1>4 DEF Abort
  <2>2. \A i \in 1..nread : stream'[i] = stream[i]
    BY <2>1, SubSeqProperties
  <2>3. AbsCur' = AbsCur /\ AbsPos' = AbsPos
    BY <1>4, <2>2, SameMapping DEF Abort
  <2>4. nread \in AbsPos..Len(stream)
    BY DEF AbsPos
  <2> QED
    BY <1>4, <2>1, <2>3, <2>4 DEF Abort, Framing!Next, Framing!Abort, AbsCur, AbsPos
<1> QED
  BY <1>1, <1>2, <1>3, <1>4

\* The last position of a window that has grown by one is the stream's next.
LEMMA EndOfWindow ==
    ASSUME NEW n \in Nat, NEW w \in Nat, NEW begin \in Nat, NEW end \in Nat, begin <= end
    PROVE  /\ end - begin + 1 \in 1..(end - begin + 1)
           /\ n - w + begin + (end - begin + 1) = (n - w + end) + 1
OBVIOUS

LEMMA FramingScan ==
    ASSUME IInv, Scan \/ EndOfLine \/ EmptyLine \/ Shift \/ LineTooLong
    PROVE  [Framing!Next]_(Framing!vars)
<1> USE Mapping DEF client, buffer, clock, Return
<1>1. CASE Scan
  <2>1. r < wp /\ stream[AbsPos + 1] # Newline /\ AbsPos < Len(stream)
    BY <1>1 DEF Scan
  <2>2. AbsPos' = AbsPos + 1
    BY <1>1 DEF Scan, AbsPos
  <2>3. AbsCur' = Append(AbsCur, stream[AbsPos + 1])
    <3> DEFINE b == stream[AbsPos + 1]
               longer == [i \in 1..(r - rp + 1) |-> stream[nread - wp + rp + i]]
    <3>1. AbsCur' = longer
      <4>1. r' - rp' = r - rp + 1 /\ nread' - wp' + rp' = nread - wp + rp /\ stream' = stream
        BY <1>1 DEF Scan
      <4> QED
        BY <4>1 DEF AbsCur
    <3>2. AbsCur \in Seq(Byte) /\ Len(AbsCur) = r - rp /\ r - rp \in Nat
      OBVIOUS
    <3>3. b \in Byte
      BY <2>1 DEF AbsPos
    <3>4. /\ Append(AbsCur, b) \in Seq(Byte)
          /\ Len(Append(AbsCur, b)) = r - rp + 1
          /\ \A i \in 1..(r - rp) : Append(AbsCur, b)[i] = AbsCur[i]
          /\ Append(AbsCur, b)[r - rp + 1] = b
      BY <3>2, <3>3, AppendProperties
    <3>5. \A i \in 1..(r - rp) : longer[i] = AbsCur[i]
      BY <3>2 DEF AbsCur
    <3>6. longer[r - rp + 1] = b
      <4>1. nread \in Nat /\ wp \in Nat /\ rp \in Nat /\ r \in Nat /\ rp <= r
        OBVIOUS
      <4> HIDE Mapping
      <4>2. /\ r - rp + 1 \in 1..(r - rp + 1)
            /\ nread - wp + rp + (r - rp + 1) = AbsPos + 1
        BY <4>1, EndOfWindow DEF AbsPos
      <4> HIDE DEF client, buffer, clock, Return
      <4>3. longer[r - rp + 1] = stream[nread - wp + rp + (r - rp + 1)]
        BY <4>2
      <4> QED
        BY <4>2, <4>3
    <3>7. longer \in Seq(Byte) /\ Len(longer) = r - rp + 1
      <4>1. \A i \in 1..(r - rp + 1) : stream[nread - wp + rp + i] \in Byte
        BY <2>1
      <4> HIDE Mapping
      <4> QED
        BY <3>2, <4>1
    <3>8. longer = Append(AbsCur, b)
      <4> DEFINE l == longer
                 a == Append(AbsCur, b)
                 n == r - rp
      <4>1. /\ n \in Nat /\ l \in Seq(Byte) /\ a \in Seq(Byte)
            /\ Len(l) = n + 1 /\ Len(a) = n + 1
        BY <3>2, <3>4, <3>7
      <4>2. (\A i \in 1..n : l[i] = a[i]) /\ l[n + 1] = a[n + 1]
        BY <3>4, <3>5, <3>6
      <4> HIDE DEF l, a, n
      <4>3. \A i \in 1..Len(l) : l[i] = a[i]
        BY <4>1, <4>2
      <4>4. l = a
        BY <4>1, <4>3, SeqEqual
      <4> QED
        BY <4>4 DEF l, a
    <3> HIDE DEF longer
    <3> QED
      BY <3>1, <3>8
  <2> QED
    BY <1>1, <2>1, <2>2, <2>3 DEF Scan, Framing!Next, Framing!TakeByte, AbsCur, AbsPos
<1>2. CASE EndOfLine
  <2>1. /\ r < wp /\ stream[AbsPos + 1] = Newline /\ AbsPos < Len(stream)
        /\ AbsPos' = AbsPos + 1
    BY <1>2 DEF EndOfLine, AbsPos
  <2>2. AbsCur # <<>>
    <3>1. Len(AbsCur) # 0
      BY <1>2 DEF EndOfLine
    <3> QED
      BY <3>1
  <2>3. AbsCur' = <<>>
    BY <1>2 DEF EndOfLine, AbsCur
  <2>4. lines' = Framing!StoreLine(lines, AbsCur)
    BY <1>2 DEF EndOfLine, StoreRequestLine, TrimmedLength, Framing!StoreLine, Framing!TrimmedLength
  <2> QED
    BY <1>2, <2>1, <2>2, <2>3, <2>4 DEF EndOfLine, Framing!Next, Framing!TakeLine, AbsCur, AbsPos
<1>3. CASE EmptyLine
  <2>1. /\ r < wp /\ stream[AbsPos + 1] = Newline /\ AbsPos < Len(stream)
        /\ AbsPos' = AbsPos + 1
    BY <1>3 DEF EmptyLine, AbsPos
  <2>2. AbsCur = <<>> /\ AbsCur' = <<>>
    BY <1>3 DEF EmptyLine, AbsCur
  <2> QED
    BY <1>3, <2>1, <2>2 DEF EmptyLine, Framing!Next, Framing!TakeEmptyLine, AbsCur, AbsPos
<1>4. CASE Shift
  <2>1. AbsPos' = AbsPos /\ AbsCur' = AbsCur
    BY <1>4 DEF Shift, AbsPos, AbsCur
  <2> QED
    BY <1>4, <2>1 DEF Shift, Framing!vars, AbsPos, AbsCur
<1>5. CASE LineTooLong
  BY <1>5 DEF LineTooLong, Framing!Next, Framing!GiveUp, Framing!GivenUp
<1> QED
  BY <1>1, <1>2, <1>3, <1>4, <1>5

LEMMA FramingRead ==
    ASSUME IInv,
           NeedData \/ SeeTermination \/ Timeout \/ Select \/ ReadBytes
             \/ ReadEnd \/ Poll \/ Serve
    PROVE  [Framing!Next]_(Framing!vars)
<1> USE Mapping DEF client, buffer, clock, Return
<1>1. CASE NeedData
  BY <1>1 DEF NeedData, Framing!vars
<1>2. CASE SeeTermination
  BY <1>2 DEF SeeTermination, Framing!Next, Framing!GiveUp, Framing!GivenUp
<1>3. CASE Timeout
  BY <1>3 DEF Timeout, Framing!Next, Framing!GiveUp, Framing!GivenUp, Framing!vars
<1>4. CASE Select
  BY <1>4 DEF Select, Framing!vars
<1>5. CASE ReadBytes
  <2>1. AbsPos' = AbsPos /\ AbsCur' = AbsCur
    <3>1. PICK n \in 1..(BufSize - wp) : wp' = wp + n /\ nread' = nread + n
      BY <1>5 DEF ReadBytes
    <3>2. nread' - wp' = nread - wp
      BY <3>1
    <3> QED
      BY <1>5, <3>2 DEF ReadBytes, AbsPos, AbsCur
  <2> QED
    BY <1>5, <2>1 DEF ReadBytes, Framing!vars, AbsPos, AbsCur
<1>6. CASE ReadEnd
  <2>1. r = wp /\ AbsPos = Len(stream)
    BY <1>6 DEF ReadEnd, IInv, ScanInv, AbsPos
  <2>2. AbsCur # <<>> <=> r # rp
    BY Len(AbsCur) = r - rp
  <2> QED
    BY <1>6, <2>1, <2>2 DEF ReadEnd, Framing!Next, Framing!EndOfStream, AbsPos, AbsCur
<1>7. CASE Poll
  BY <1>7 DEF Poll, Framing!vars
<1>8. CASE Serve
  <2>1. /\ UNCHANGED <<stream, closed, nread, wp, rp>> /\ r' = rp
        /\ pc = "returned" /\ pc' = "scan" /\ result = "request_read" /\ r = rp
    BY <1>8 DEF Serve, IInv, ScanInv
  <2> QED
    BY <1>8, <2>1 DEF Serve, Framing!Next, Framing!Serve
<1> QED
  BY <1>1, <1>2, <1>3, <1>4, <1>5, <1>6, <1>7, <1>8

LEMMA FramingStep == IInv /\ [Next]_vars => [Framing!Next]_(Framing!vars)
<1> SUFFICES ASSUME IInv, [Next]_vars PROVE [Framing!Next]_(Framing!vars)
  OBVIOUS
<1>1. CASE Hangup \/ UNCHANGED vars
  BY <1>1 DEF Hangup, vars, Framing!vars
<1> QED
  BY <1>1, FramingClient, FramingScan, FramingRead DEF Next, ReadRequest

\* InputBuffer implements RequestFraming: whatever the buffer size, the packets
\* and the timing, the request lines are those the byte stream spells.
THEOREM FramingCorrect == Spec => FramingSpec
<1> QED
  BY FramingInit, FramingStep, InvariantHolds, PTL DEF Spec, FramingSpec, Framing!Spec
=============================================================================
