-------------------------- MODULE Connection_proofs --------------------------
(***************************************************************************)
(* For any requests, responses of any size and a socket of any capacity:   *)
(* as long as no signal cuts a write() short, the client receives exactly  *)
(* what was answered, in order, whatever is pipelined, closed or           *)
(* terminated meanwhile.                                                   *)
(*                                                                         *)
(* The invariant counts what writeData still has to write of the response  *)
(* at hand, and says that the promised pieces end with this response; so   *)
(* the piece that a write() moves next is the next one promised.           *)
(*                                                                         *)
(* And for any number of clients, IDs and entries: the mutexes of the      *)
(* downtimes and comments are held as often as they are to be, and the row *)
(* that a query is at exists.                                              *)
(***************************************************************************)
EXTENDS Connection, DownComm, TLAPS, SequenceTheorems

\* No response is being written.
Quiet == {"read", "answer", "command", "lock", "asleep", "query"}

Piece == [n : Nat, size : Nat]
Response == [fixed : BOOLEAN, size : Nat, keepalive : BOOLEAN]

Received == got \o wire

OutputType ==
    /\ got \in Seq(Piece) /\ wire \in Seq(Piece) /\ promised \in Seq(Piece)
    /\ out \in Response
    /\ left \in Nat /\ moved \in Nat
    /\ closed \in BOOLEAN /\ term \in BOOLEAN /\ writing \in BOOLEAN /\ cut \in BOOLEAN
    /\ pc \in Quiet \cup {"head", "body", "closed"}

\* writeData between two of its steps: a write() has something to write, and
\* only a write() has moved anything.
WriteInv ==
    /\ moved <= left
    /\ pc = "head" => left <= Len(HeadOf(out))
    /\ pc = "body" => left <= out.size
    /\ writing => left > 0
    /\ ~writing => moved = 0
    /\ pc \notin {"head", "body"} => left = 0 /\ ~writing

\* A part that is not cut short is written as a whole.
WholeParts ==
    /\ pc = "head" => left \in {0, Len(HeadOf(out))}
    /\ pc = "body" => left \in {0, out.size}

\* What was promised ends with the response that is being written.
PromisedLast ==
    pc \in {"head", "body"} =>
        /\ Len(promised) >= out.size + Len(HeadOf(out))
        /\ \A k \in 1..Len(HeadOf(out)) :
              promised[Len(promised) - out.size - Len(HeadOf(out)) + k] = HeadOf(out)[k]
        /\ \A k \in 1..out.size : promised[Len(promised) - out.size + k] = BodyOf(out)[k]

\* How many pieces of the response are not in the socket yet.
Rest == (left - moved) + (IF pc = "head" THEN out.size ELSE 0)

\* The client has left, or the thread writes no more because of the flag.
Over == closed \/ (term /\ ~writing /\ pc \notin Quiet)

InStep == ~Over => Len(Received) + Rest = Len(promised)

Undamaged ==
    /\ Len(Received) <= Len(promised)
    /\ \A k \in 1..Len(Received) : Received[k] = promised[k]

IInv ==
    /\ OutputType
    /\ WriteInv
    /\ ~cut => WholeParts /\ PromisedLast /\ InStep /\ Undamaged

-----------------------------------------------------------------------------
(* Responses                                                               *)

LEMMA ResponseParts ==
    ASSUME NEW o \in Response
    PROVE  /\ HeadOf(o) \in Seq(Piece) /\ BodyOf(o) \in Seq(Piece)
           /\ Len(HeadOf(o)) \in {0, 1} /\ Len(BodyOf(o)) = o.size /\ o.size \in Nat
<1>1. o.size \in Nat
  BY DEF Response
<1>2. HeadOf(o) \in Seq(Piece) /\ Len(HeadOf(o)) \in {0, 1}
  <2>1. [n |-> 0, size |-> o.size] \in Piece
    BY <1>1 DEF Piece
  <2>2. CASE o.fixed
    BY <2>1, <2>2 DEF HeadOf
  <2>3. CASE ~o.fixed
    BY <2>3, EmptySeq DEF HeadOf
  <2> QED
    BY <2>2, <2>3
<1>3. BodyOf(o) \in Seq(Piece) /\ Len(BodyOf(o)) = o.size
  <2>1. \A k \in 1..o.size : [n |-> k, size |-> o.size] \in Piece
    BY <1>1 DEF Piece
  <2>2. BodyOf(o) \in [1..o.size -> Piece]
    BY <2>1 DEF BodyOf
  <2> QED
    BY <1>1, <2>2
<1> QED
  BY <1>1, <1>2, <1>3

LEMMA Responses ==
    /\ NoResponse \in Response /\ NoResponse.size = 0 /\ HeadOf(NoResponse) = <<>>
    /\ ErrorResponse \in Response
  BY DEF NoResponse, ErrorResponse, Response, HeadOf

\* Every answer is a response that is flushed next.
LEMMA Responds ==
    ASSUME OutputType,
           \/ ReadFails \/ FinishGet \/ CommandRun \/ AnswerOther
           \/ AnswerCommand /\ pc' = "head"
    PROVE  /\ pc \in Quiet /\ UNCHANGED <<closed, term, wire, got, cut>>
           /\ \E o \in Response : Respond(o)
<1> USE ConnectionAssumption, Responses DEF input, Quiet
<1>1. CASE ReadFails
  BY <1>1 DEF ReadFails
<1>2. CASE FinishGet \/ CommandRun
  <2>1. PICK size \in Nat : Respond([out EXCEPT !.size = size])
    <3>1. CASE FinishGet
      <4>1. PICK size \in 0..MaxBody : Respond([out EXCEPT !.size = size])
        BY <3>1, Zenon DEF FinishGet
      <4>2. size \in Nat
        OBVIOUS
      <4> QED
        BY <4>1, <4>2, Zenon
    <3>2. CASE CommandRun
      <4>1. PICK size \in {0, 1} : Respond([out EXCEPT !.size = size])
        BY <3>2, Zenon DEF CommandRun
      <4>2. size \in Nat
        OBVIOUS
      <4> QED
        BY <4>1, <4>2, Zenon
    <3> QED
      BY <1>2, <3>1, <3>2, Zenon
  <2>2. [out EXCEPT !.size = size] \in Response
    BY DEF OutputType, Response
  <2> QED
    BY <1>2, <2>1, <2>2 DEF FinishGet, CommandRun
<1>3. CASE AnswerCommand /\ pc' = "head"
  <2>1. Respond([NoResponse EXCEPT !.keepalive = TRUE])
    BY <1>3 DEF AnswerCommand
  <2>2. [NoResponse EXCEPT !.keepalive = TRUE] \in Response
    BY DEF Response, NoResponse
  <2> QED
    BY <1>3, <2>1, <2>2 DEF AnswerCommand
<1>4. CASE AnswerOther
  BY <1>4 DEF AnswerOther
<1> QED
  BY <1>1, <1>2, <1>3, <1>4

LEMMA RespondStep ==
    ASSUME IInv, NEW o \in Response, Respond(o), pc \in Quiet,
           UNCHANGED <<closed, term, wire, got, cut>>
    PROVE  IInv'
<1> DEFINE H == HeadOf(o)
           B == BodyOf(o)
<1>1. H \in Seq(Piece) /\ B \in Seq(Piece) /\ Len(H) \in Nat /\ Len(B) = o.size /\ o.size \in Nat
  BY ResponseParts
<1>2. /\ out' = o /\ pc' = "head" /\ left' = Len(H) /\ ~writing' /\ writing' \in BOOLEAN
      /\ moved' = 0 /\ promised' = promised \o H \o B
  BY DEF Respond
<1>3. promised \in Seq(Piece) /\ Len(promised) \in Nat
  BY LenProperties DEF IInv, OutputType
<1> HIDE DEF H, B
<1>4. /\ promised \o H \in Seq(Piece) /\ Len(promised \o H) = Len(promised) + Len(H)
      /\ \A k \in 1..Len(promised) + Len(H) :
            (promised \o H)[k] = IF k <= Len(promised) THEN promised[k] ELSE H[k - Len(promised)]
  BY <1>1, <1>3, ConcatProperties
<1>5. /\ promised' \in Seq(Piece) /\ Len(promised') = Len(promised) + Len(H) + o.size
      /\ \A k \in 1..Len(promised) : promised'[k] = promised[k]
      /\ \A k \in 1..Len(H) : promised'[Len(promised) + k] = H[k]
      /\ \A k \in 1..o.size : promised'[Len(promised) + Len(H) + k] = B[k]
  <2> DEFINE PH == promised \o H
  <2>1. PH \in Seq(Piece) /\ promised' = PH \o B
    BY <1>2, <1>4
  <2> HIDE DEF PH
  <2>2. /\ promised' \in Seq(Piece)
        /\ Len(promised') = Len(PH) + Len(B)
        /\ \A k \in 1..Len(PH) + Len(B) :
              promised'[k] = IF k <= Len(PH) THEN PH[k] ELSE B[k - Len(PH)]
    BY <1>1, <2>1, ConcatProperties
  <2>3. /\ Len(PH) = Len(promised) + Len(H)
        /\ \A k \in 1..Len(promised) + Len(H) :
              PH[k] = IF k <= Len(promised) THEN promised[k] ELSE H[k - Len(promised)]
    BY <1>4 DEF PH
  <2>4. Len(promised') = Len(promised) + Len(H) + o.size
    BY <1>1, <1>3, <2>2, <2>3
  <2>5. \A k \in 1..Len(promised) + Len(H) : promised'[k] = PH[k]
    BY <1>1, <1>3, <2>2, <2>3
  <2>6. \A k \in 1..o.size : promised'[Len(promised) + Len(H) + k] = B[k]
    BY <1>1, <1>3, <2>2, <2>3
  <2>7. \A k \in 1..Len(H) : promised'[Len(promised) + k] = H[k]
    BY <1>1, <1>3, <2>3, <2>5
  <2>8. \A k \in 1..Len(promised) : promised'[k] = promised[k]
    BY <1>1, <1>3, <2>3, <2>5
  <2> QED
    BY <2>2, <2>4, <2>6, <2>7, <2>8
<1>6. Received' = Received /\ Len(Received) \in Nat
  BY ConcatProperties, LenProperties DEF Received, IInv, OutputType
<1>7. OutputType' /\ WriteInv'
  <2>1. OutputType'
    BY <1>1, <1>2, <1>5 DEF IInv, OutputType
  <2>2. WriteInv'
    BY <1>1, <1>2 DEF WriteInv, H
  <2> QED
    BY <2>1, <2>2
<1>8. ASSUME ~cut' PROVE WholeParts' /\ PromisedLast' /\ InStep' /\ Undamaged'
  <2>1. WholeParts'
    BY <1>2 DEF WholeParts, H
  <2>2. PromisedLast'
    <3>1. HeadOf(out') = H /\ BodyOf(out') = B /\ out'.size = o.size
      BY <1>2 DEF H, B
    <3>2. /\ Len(promised') - o.size - Len(H) = Len(promised)
          /\ Len(promised') - o.size = Len(promised) + Len(H)
          /\ Len(promised') >= o.size + Len(H)
      BY <1>1, <1>3, <1>5
    <3> QED
      BY <1>5, <3>1, <3>2 DEF PromisedLast
  <2>3. Undamaged'
    <3>1. Undamaged
      BY <1>8 DEF IInv
    <3>2. Len(Received) <= Len(promised') /\ \A k \in 1..Len(Received) : k \in 1..Len(promised)
      BY <1>1, <1>3, <1>5, <1>6, <3>1 DEF Undamaged
    <3> QED
      BY <1>5, <1>6, <3>1, <3>2 DEF Undamaged
  <2>4. InStep'
    <3>1. ~Over' => ~Over
      BY DEF Over
    <3>2. Rest = 0 /\ Rest' = Len(H) + o.size
      BY <1>1, <1>2 DEF Rest, IInv, WriteInv, OutputType, Quiet
    <3> QED
      BY <1>1, <1>3, <1>5, <1>6, <1>8, <3>1, <3>2 DEF InStep, IInv
  <2> QED
    BY <2>1, <2>2, <2>3, <2>4
<1> QED
  BY <1>7, <1>8 DEF IInv

-----------------------------------------------------------------------------
(* The other steps                                                         *)

LEMMA InitIInv == Init => IInv
<1> SUFFICES ASSUME Init PROVE IInv
  OBVIOUS
<1>1. OutputType
  BY Responses, EmptySeq DEF Init, OutputType, Quiet
<1>2. WriteInv
  BY DEF Init, WriteInv
<1>3. Received = <<>> /\ promised = <<>> /\ Len(promised) = 0 /\ Len(Received) = 0
  BY ConcatEmptySeq DEF Init, Received
<1>4. WholeParts /\ PromisedLast /\ InStep /\ Undamaged
  BY <1>3 DEF Init, WholeParts, PromisedLast, InStep, Rest, Undamaged
<1> QED
  BY <1>1, <1>2, <1>4 DEF IInv

\* Steps that neither write nor receive: what is written stays, also if a
\* response is prepared, and the thread does not come back to life.
LEMMA OtherStep ==
    ASSUME IInv, UNCHANGED <<left, writing, moved, cut, wire, got, promised>>,
           \/ pc' = pc /\ out' = out
           \/ pc \in Quiet /\ pc' \in Quiet /\ out' \in Response,
           closed' \in BOOLEAN, term' \in BOOLEAN, closed => closed', term => term'
    PROVE  IInv'
<1>1. Received' = Received
  BY DEF Received
<1>2. OutputType' /\ WriteInv'
  BY DEF IInv, OutputType, WriteInv, Quiet
<1>3. ASSUME ~cut' PROVE WholeParts' /\ PromisedLast' /\ InStep' /\ Undamaged'
  <2>1. WholeParts' /\ PromisedLast'
    BY <1>3 DEF IInv, WholeParts, PromisedLast, Quiet
  <2>2. (~Over' => ~Over) /\ Rest' = Rest
    BY DEF Over, Rest, Quiet
  <2>3. InStep' /\ Undamaged'
    BY <1>1, <1>3, <2>2 DEF IInv, InStep, Undamaged
  <2> QED
    BY <2>1, <2>3
<1> QED
  BY <1>2, <1>3 DEF IInv

LEMMA ReceiveStep == ASSUME IInv, Receive PROVE IInv'
<1>1. /\ wire # <<>> /\ got' = Append(got, Head(wire)) /\ wire' = Tail(wire)
      /\ UNCHANGED <<closed, term, pc, out, left, writing, moved, cut, promised>>
  BY DEF Receive, input
<1>2. /\ got \in Seq(Piece) /\ wire \in Seq(Piece)
      /\ got' \in Seq(Piece) /\ wire' \in Seq(Piece)
      /\ Len(got) \in Nat /\ Len(wire) \in Nat /\ Len(wire) > 0
      /\ Len(got') = Len(got) + 1 /\ Len(wire') = Len(wire) - 1
      /\ \A k \in 1..Len(got) : got'[k] = got[k]
      /\ got'[Len(got) + 1] = wire[1]
      /\ \A k \in 1..Len(wire') : wire'[k] = wire[k + 1]
  <2>1. got \in Seq(Piece) /\ wire \in Seq(Piece)
    BY DEF IInv, OutputType
  <2>2. /\ Head(wire) \in Piece /\ Tail(wire) \in Seq(Piece) /\ Len(Tail(wire)) = Len(wire) - 1
        /\ \A k \in 1..Len(Tail(wire)) : Tail(wire)[k] = wire[k + 1]
    BY <1>1, <2>1, HeadTailProperties
  <2>3. Len(got) \in Nat /\ Len(wire) \in Nat /\ Len(wire) > 0
    BY <1>1, <2>1, EmptySeq, LenProperties
  <2>4. Head(wire) = wire[1]
    BY <2>1, <2>3
  <2>5. /\ Append(got, Head(wire)) \in Seq(Piece)
        /\ Len(Append(got, Head(wire))) = Len(got) + 1
        /\ \A k \in 1..Len(got) : Append(got, Head(wire))[k] = got[k]
        /\ Append(got, Head(wire))[Len(got) + 1] = Head(wire)
    BY <2>1, <2>2, AppendProperties
  <2> QED
    BY <1>1, <2>1, <2>2, <2>3, <2>4, <2>5
<1>3. Received' = Received
  <2>1. /\ Received \in Seq(Piece) /\ Len(Received) = Len(got) + Len(wire)
        /\ \A k \in 1..Len(got) + Len(wire) :
              Received[k] = IF k <= Len(got) THEN got[k] ELSE wire[k - Len(got)]
    BY <1>2, ConcatProperties DEF Received
  <2>2. /\ Received' \in Seq(Piece) /\ Len(Received') = Len(got') + Len(wire')
        /\ \A k \in 1..Len(got') + Len(wire') :
              Received'[k] = IF k <= Len(got') THEN got'[k] ELSE wire'[k - Len(got')]
    BY <1>2, ConcatProperties DEF Received
  <2>3. Len(Received') = Len(Received)
    BY <1>2, <2>1, <2>2
  <2>4. ASSUME NEW k \in 1..Len(Received') PROVE Received'[k] = Received[k]
    <3> k \in 1..Len(got) + Len(wire)
      BY <2>1, <2>3
    <3>1. CASE k <= Len(got)
      <4>1. k \in 1..Len(got) /\ k <= Len(got') /\ k \in 1..Len(got') + Len(wire')
        BY <1>2, <3>1
      <4> QED
        BY <1>2, <2>1, <2>2, <3>1, <4>1
    <3>2. CASE k = Len(got) + 1
      <4>1. /\ k <= Len(got') /\ ~(k <= Len(got)) /\ k - Len(got) = 1
            /\ k \in 1..Len(got') + Len(wire')
        BY <1>2, <3>2
      <4> QED
        BY <1>2, <2>1, <2>2, <3>2, <4>1
    <3>3. CASE k > Len(got) + 1
      <4>1. Received'[k] = wire'[k - Len(got')] /\ Received[k] = wire[k - Len(got)]
        BY <1>2, <2>1, <2>2, <3>3
      <4>2. k - Len(got') \in 1..Len(wire') /\ (k - Len(got')) + 1 = k - Len(got)
        BY <1>2, <2>2, <3>3
      <4> QED
        BY <1>2, <4>1, <4>2
    <3> QED
      BY <1>2, <3>1, <3>2, <3>3
  <2> QED
    BY <2>1, <2>2, <2>3, <2>4, SeqEqual
<1>4. OutputType' /\ WriteInv'
  BY <1>1, <1>2 DEF IInv, OutputType, WriteInv
<1>5. ASSUME ~cut' PROVE WholeParts' /\ PromisedLast' /\ InStep' /\ Undamaged'
  BY <1>1, <1>3, <1>5 DEF IInv, WholeParts, PromisedLast, InStep, Over, Rest, Undamaged
<1> QED
  BY <1>4, <1>5 DEF IInv

\* The piece that is moved is the next one that was promised.
LEMMA WriteMoveStep == ASSUME IInv, WriteMove PROVE IInv'
<1> DEFINE part == IF pc = "head" THEN HeadOf(out) ELSE BodyOf(out)
           p == part[moved + 1]
<1>1. /\ writing /\ ~closed /\ moved < left /\ wire' = Append(wire, p) /\ moved' = moved + 1
      /\ UNCHANGED <<closed, term, pc, out, left, writing, cut, got, promised>>
  BY DEF WriteMove, input
<1>2. /\ pc \in {"head", "body"} /\ left \in Nat /\ moved \in Nat /\ out \in Response
      /\ got \in Seq(Piece) /\ wire \in Seq(Piece) /\ promised \in Seq(Piece)
  BY <1>1 DEF IInv, OutputType, WriteInv
<1>3. /\ HeadOf(out) \in Seq(Piece) /\ BodyOf(out) \in Seq(Piece)
      /\ Len(HeadOf(out)) \in Nat /\ Len(BodyOf(out)) = out.size /\ out.size \in Nat
  BY <1>2, ResponseParts
<1>4. part \in Seq(Piece) /\ left <= Len(part) /\ Len(part) \in Nat
  BY <1>2, <1>3 DEF IInv, WriteInv
<1>5. p \in Piece
  BY <1>1, <1>2, <1>4, ElementOfSeq
<1>6. Len(Received) \in Nat /\ Len(promised) \in Nat /\ Len(wire) \in Nat /\ Len(got) \in Nat
  BY <1>2, ConcatProperties, LenProperties DEF Received
<1> HIDE DEF part, p
<1>7. /\ wire' \in Seq(Piece) /\ Len(Received') = Len(Received) + 1
      /\ \A k \in 1..Len(Received) : Received'[k] = Received[k]
      /\ Received'[Len(Received) + 1] = p
  <2>1. /\ wire' \in Seq(Piece) /\ Len(wire') = Len(wire) + 1
        /\ \A k \in 1..Len(wire) : wire'[k] = wire[k]
        /\ wire'[Len(wire) + 1] = p
    BY <1>1, <1>2, <1>5, AppendProperties
  <2>2. /\ Len(Received) = Len(got) + Len(wire)
        /\ \A k \in 1..Len(got) + Len(wire) :
              Received[k] = IF k <= Len(got) THEN got[k] ELSE wire[k - Len(got)]
    BY <1>2, ConcatProperties DEF Received
  <2>3. /\ Len(Received') = Len(got) + Len(wire')
        /\ \A k \in 1..Len(got) + Len(wire') :
              Received'[k] = IF k <= Len(got) THEN got[k] ELSE wire'[k - Len(got)]
    BY <1>1, <1>2, <2>1, ConcatProperties DEF Received
  <2>4. ASSUME NEW k \in 1..Len(Received) PROVE Received'[k] = Received[k]
    <3>1. CASE k <= Len(got)
      BY <1>6, <2>1, <2>2, <2>3, <3>1
    <3>2. CASE k > Len(got)
      <4>1. k - Len(got) \in 1..Len(wire) /\ k \in 1..Len(got) + Len(wire')
        BY <1>6, <2>1, <2>2, <3>2
      <4> QED
        BY <1>6, <2>1, <2>2, <2>3, <3>2, <4>1
    <3> QED
      BY <1>6, <3>1, <3>2
  <2> QED
    BY <1>6, <2>1, <2>2, <2>3, <2>4
<1>8. OutputType' /\ WriteInv'
  BY <1>1, <1>2, <1>7 DEF IInv, OutputType, WriteInv
<1>9. ASSUME ~cut' PROVE WholeParts' /\ PromisedLast' /\ InStep' /\ Undamaged'
  <2>1. WholeParts /\ PromisedLast /\ InStep /\ Undamaged
    BY <1>1, <1>9 DEF IInv
  <2>2. WholeParts' /\ PromisedLast'
    BY <1>1, <2>1 DEF WholeParts, PromisedLast
  <2>3. Len(Received) + Rest = Len(promised) /\ Rest' = Rest - 1 /\ Rest \in Nat
    BY <1>1, <1>2, <1>3, <2>1 DEF InStep, Over, Rest
  <2>4. left = Len(part)
    BY <1>1, <1>2, <1>3, <2>1 DEF WholeParts, part
  <2>5. promised[Len(Received) + 1] = p
    <3>1. CASE pc = "head"
      <4>1. part = HeadOf(out)
        BY <3>1 DEF part
      <4>2. Rest = left - moved + out.size
        BY <3>1 DEF Rest
      <4>3. Len(Received) + 1 = Len(promised) - out.size - left + (moved + 1)
        <5>1. Len(Received) \in Int /\ left \in Int /\ moved \in Int /\ out.size \in Int
          BY <1>2, <1>3, <1>6
        <5>2. Len(promised) = Len(Received) + (left - moved + out.size)
          BY <2>3, <4>2
        <5> QED
          BY <5>1, <5>2
      <4>4. moved + 1 \in 1..left
        BY <1>1, <1>2
      <4> QED
        BY <2>1, <2>4, <3>1, <4>1, <4>3, <4>4 DEF PromisedLast, p
    <3>2. CASE pc = "body"
      <4>1. part = BodyOf(out)
        BY <3>2 DEF part
      <4>2. Len(Received) + 1 = Len(promised) - out.size + (moved + 1)
        <5>1. Len(Received) \in Int /\ moved \in Int /\ out.size \in Int /\ left = out.size
          BY <1>2, <1>3, <1>6, <2>4, <4>1
        <5>2. Rest = left - moved
          BY <3>2, <5>1 DEF Rest
        <5>3. Len(promised) = Len(Received) + (left - moved)
          BY <2>3, <5>2
        <5> QED
          BY <5>1, <5>3
      <4>3. moved + 1 \in 1..out.size
        BY <1>1, <1>2, <1>3, <2>4, <4>1
      <4> QED
        BY <2>1, <3>2, <4>1, <4>2, <4>3 DEF PromisedLast, p
    <3> QED
      BY <1>2, <3>1, <3>2
  <2>6. InStep'
    <3>1. Len(Received') + Rest' = Len(promised)
      BY <1>6, <1>7, <2>3
    <3> QED
      BY <1>1, <3>1 DEF InStep
  <2>7. Undamaged'
    <3>1. Len(Received') <= Len(promised)
      BY <1>1, <1>2, <1>3, <1>6, <1>7, <2>3 DEF Rest
    <3> QED
      BY <1>1, <1>6, <1>7, <2>1, <2>5, <3>1 DEF Undamaged
  <2> QED
    BY <2>2, <2>6, <2>7
<1> QED
  BY <1>8, <1>9 DEF IInv

\* The rest of flush: calls of write() that begin and end.
LEMMA WriteCallStep ==
    ASSUME IInv, WriteStart \/ WriteEnd \/ WriteFails \/ WriteSignal
    PROVE  IInv'
<1>1. /\ out \in Response /\ left \in Nat /\ moved \in Nat /\ cut \in BOOLEAN
      /\ pc \notin {"head", "body"} => ~writing
  BY DEF IInv, OutputType, WriteInv
<1>2. /\ pc \in {"head", "body"} /\ pc' = pc /\ left' \in Nat /\ left' <= left
      /\ UNCHANGED <<closed, term, out, wire, got, promised>>
      /\ moved' = 0 /\ writing' \in BOOLEAN /\ cut' \in BOOLEAN /\ (cut => cut')
      /\ writing' => left' > 0
  <2>1. CASE WriteStart
    BY <1>1, <2>1 DEF WriteStart, Flushing, input
  <2>2. CASE WriteEnd
    <3>1. /\ writing /\ left' \in {0, left - moved} /\ moved <= left /\ pc \in {"head", "body"}
          /\ ~writing' /\ writing' \in BOOLEAN
      BY <1>1, <2>2 DEF WriteEnd, WriteReturn, IInv, WriteInv
    <3>2. (cut' = cut \/ cut' = TRUE) /\ cut' \in BOOLEAN /\ (cut => cut')
      BY <1>1, <2>2 DEF WriteEnd
    <3>3. UNCHANGED <<closed, term, out, wire, got, promised, pc>> /\ moved' = 0
      BY <2>2 DEF WriteEnd, WriteReturn, input
    <3> QED
      BY <1>1, <3>1, <3>2, <3>3
  <2>3. CASE WriteFails
    <3>1. /\ writing /\ left' \in {0, left - moved} /\ moved <= left /\ pc \in {"head", "body"}
          /\ ~writing' /\ writing' \in BOOLEAN
      BY <1>1, <2>3 DEF WriteFails, WriteReturn, IInv, WriteInv
    <3>2. (cut' = cut \/ cut' = TRUE) /\ cut' \in BOOLEAN /\ (cut => cut')
      BY <1>1, <2>3 DEF WriteFails
    <3>3. UNCHANGED <<closed, term, out, wire, got, promised, pc>> /\ moved' = 0
      BY <2>3 DEF WriteFails, WriteReturn, input
    <3> QED
      BY <1>1, <3>1, <3>2, <3>3
  <2>4. CASE WriteSignal
    <3>1. /\ writing /\ left' \in {0, left - moved} /\ moved <= left /\ pc \in {"head", "body"}
          /\ ~writing' /\ writing' \in BOOLEAN
      BY <1>1, <2>4 DEF WriteSignal, WriteReturn, IInv, WriteInv
    <3>2. (cut' = cut \/ cut' = TRUE) /\ cut' \in BOOLEAN /\ (cut => cut')
      BY <1>1, <2>4 DEF WriteSignal
    <3>3. UNCHANGED <<closed, term, out, wire, got, promised, pc>> /\ moved' = 0
      BY <2>4 DEF WriteSignal, WriteReturn, input
    <3> QED
      BY <1>1, <3>1, <3>2, <3>3
  <2> QED
    BY <2>1, <2>2, <2>3, <2>4
<1>3. Len(HeadOf(out)) \in Nat /\ out.size \in Nat
  BY <1>1, ResponseParts
<1>4. Received' = Received
  BY <1>2 DEF Received
<1>5. OutputType' /\ WriteInv'
  BY <1>1, <1>2, <1>3 DEF IInv, OutputType, WriteInv
<1>6. ASSUME ~cut' PROVE WholeParts' /\ PromisedLast' /\ InStep' /\ Undamaged'
  <2>1. WholeParts /\ PromisedLast /\ InStep /\ Undamaged
    BY <1>2, <1>6 DEF IInv
  <2>2. left' \in {0, left}
    BY <1>6 DEF WriteStart, WriteEnd, WriteFails, WriteSignal, WriteReturn
  <2>3. WholeParts' /\ PromisedLast' /\ Undamaged'
    BY <1>2, <1>4, <2>1, <2>2 DEF WholeParts, PromisedLast, Undamaged
  <2>4. ~Over' => ~Over /\ Rest' = Rest
    <3>1. CASE WriteStart
      BY <1>1, <1>2, <3>1 DEF WriteStart, Over, Rest, IInv, WriteInv
    <3>2. CASE WriteEnd
      BY <1>1, <1>2, <3>2 DEF WriteEnd, WriteReturn, Over, Rest
    <3>3. CASE WriteFails
      BY <1>2, <3>3 DEF WriteFails, Over
    <3>4. CASE WriteSignal
      BY <1>6, <3>4 DEF WriteSignal
    <3> QED
      BY <3>1, <3>2, <3>3, <3>4
  <2> QED
    BY <1>2, <1>4, <2>1, <2>3, <2>4 DEF InStep
<1> QED
  BY <1>5, <1>6 DEF IInv

\* From the header to the body, and from the body to the next request.
LEMMA FlushStep == ASSUME IInv, FlushBody \/ FlushEnd PROVE IInv'
<1>1. /\ pc \in {"head", "body"} /\ ~writing /\ (left = 0 \/ term) /\ moved = 0
      /\ UNCHANGED <<closed, term, writing, moved, cut, wire, got, promised>>
  BY DEF FlushBody, FlushEnd, input, IInv, WriteInv
<1>2. /\ out \in Response /\ left \in Nat /\ out.size \in Nat /\ Len(HeadOf(out)) \in Nat
      /\ term \in BOOLEAN
  BY ResponseParts DEF IInv, OutputType
<1>3. Received' = Received
  BY <1>1 DEF Received
<1>4. OutputType' /\ WriteInv'
  <2>1. CASE FlushBody
    BY <1>1, <1>2, <2>1 DEF FlushBody, IInv, OutputType, WriteInv
  <2>2. CASE FlushEnd
    BY <1>1, <1>2, <2>2, Responses DEF FlushEnd, IInv, OutputType, WriteInv, Quiet
  <2> QED
    BY <2>1, <2>2
<1>5. ASSUME ~cut' PROVE WholeParts' /\ PromisedLast' /\ InStep' /\ Undamaged'
  <2>1. WholeParts /\ PromisedLast /\ InStep /\ Undamaged
    BY <1>1, <1>5 DEF IInv
  <2>2. CASE FlushBody
    <3>1. pc = "head" /\ pc' = "body" /\ left' = out.size /\ out' = out
      BY <2>2 DEF FlushBody
    <3>2. WholeParts' /\ PromisedLast' /\ Undamaged'
      BY <1>1, <1>3, <2>1, <3>1 DEF WholeParts, PromisedLast, Undamaged
    <3>3. ~Over' => ~Over /\ Rest' = Rest
      BY <1>1, <1>2, <3>1 DEF Over, Rest, Quiet
    <3> QED
      BY <1>1, <1>3, <2>1, <3>2, <3>3 DEF InStep
  <2>3. CASE FlushEnd
    <3>1. /\ pc = "body" /\ pc' \in {"read", "closed"} /\ left' = 0 /\ out' = NoResponse
          /\ pc' = "read" => ~term
      BY <2>3 DEF FlushEnd
    <3>2. WholeParts' /\ PromisedLast' /\ Undamaged'
      BY <1>1, <1>3, <2>1, <3>1 DEF WholeParts, PromisedLast, Undamaged
    <3>3. ~Over' => ~Over /\ Rest' = Rest
      BY <1>1, <1>2, <3>1 DEF Over, Rest, Quiet
    <3> QED
      BY <1>1, <1>3, <2>1, <3>2, <3>3 DEF InStep
  <2> QED
    BY <2>2, <2>3
<1> QED
  BY <1>4, <1>5 DEF IInv

LEMMA IInvStep == IInv /\ [Next]_vars => IInv'
<1> SUFFICES ASSUME IInv, [Next]_vars PROVE IInv'
  OBVIOUS
<1>1. closed \in BOOLEAN /\ term \in BOOLEAN
  BY DEF IInv, OutputType
<1>2. CASE Send \/ Close \/ Terminate \/ ReadLine \/ RequestRead
  <2>1. /\ UNCHANGED <<out, left, writing, moved, cut, wire, got, promised>>
        /\ pc' = pc \/ (pc \in Quiet /\ pc' \in Quiet)
        /\ closed' \in BOOLEAN /\ term' \in BOOLEAN /\ (closed => closed') /\ (term => term')
    BY <1>1, <1>2 DEF Send, Close, Terminate, ReadLine, RequestRead, input, output, Quiet
  <2> QED
    BY <2>1, OtherStep DEF IInv, OutputType
<1>3. CASE UNCHANGED vars \/ Done
  BY <1>1, <1>3, OtherStep DEF vars, Done
<1>4. CASE \/ ReadFails \/ FinishGet \/ CommandRun \/ AnswerOther
           \/ AnswerCommand /\ pc' = "head"
  BY <1>4, Responds, RespondStep DEF IInv
<1>9. CASE \/ AnswerGet \/ LockGot \/ Woken
           \/ AnswerCommand /\ pc' # "head"
  <2>1. /\ UNCHANGED <<closed, term, left, writing, moved, cut, wire, got, promised>>
        /\ pc \in Quiet /\ pc' \in Quiet
    BY <1>9 DEF AnswerGet, LockGot, Woken, AnswerCommand, Respond, input, output, Quiet
  <2>2. out' \in Response
    <3>1. CASE AnswerGet
      <4>1. HasHeader("ResponseHeader") \in BOOLEAN /\ HasHeader("KeepAlive") \in BOOLEAN
        BY DEF HasHeader
      <4>2. PICK size \in {0, 1} : out' = [fixed |-> HasHeader("ResponseHeader"),
                                          keepalive |-> HasHeader("KeepAlive"), size |-> size]
        BY <3>1 DEF AnswerGet
      <4> QED
        BY <4>1, <4>2 DEF Response
    <3>2. CASE LockGot \/ Woken
      BY <3>2 DEF LockGot, Woken, IInv, OutputType, Response
    <3>3. CASE AnswerCommand /\ pc' # "head"
      <4>1. out' = [NoResponse EXCEPT !.keepalive = TRUE]
        BY <3>3 DEF AnswerCommand, Respond
      <4> QED
        BY <4>1, Zenon DEF NoResponse, Response
    <3> QED
      BY <1>9, <3>1, <3>2, <3>3
  <2> QED
    BY <1>1, <2>1, <2>2, OtherStep
<1>5. CASE Receive
  BY <1>5, ReceiveStep
<1>6. CASE WriteMove
  BY <1>6, WriteMoveStep
<1>7. CASE WriteStart \/ WriteEnd \/ WriteFails \/ WriteSignal
  BY <1>7, WriteCallStep
<1>8. CASE FlushBody \/ FlushEnd
  BY <1>8, FlushStep
<1> QED
  BY <1>2, <1>3, <1>4, <1>5, <1>6, <1>7, <1>8, <1>9 DEF Next, Serve

THEOREM IInvCorrect == Spec => []IInv
  BY InitIInv, IInvStep, PTL DEF Spec

-----------------------------------------------------------------------------
(* What the client gets                                                    *)

\* Store::answerRequest and OutputBuffer::flush: for any requests, headers and
\* bodies, the client gets the pieces of the answers in their order, without a
\* gap or a repetition, as long as no write() is cut short by a signal.
THEOREM ReceivedCorrect == Spec => []ReceivedAsAnswered
<1>1. IInv => ReceivedAsAnswered
  <2> SUFFICES ASSUME IInv, ~cut PROVE IsPrefix(Received, promised)
    BY DEF ReceivedAsAnswered, Received
  <2>1. Received \in Seq(Piece) /\ promised \in Seq(Piece)
    BY ConcatProperties DEF IInv, OutputType, Received
  <2> HIDE DEF Received
  <2>2. /\ Len(Received) \in Nat /\ Len(promised) \in Nat /\ Len(Received) <= Len(promised)
        /\ \A k \in 1..Len(Received) : Received[k] = promised[k]
    BY <2>1, LenProperties DEF IInv, Undamaged
  <2>3. SubSeq(Received, 1, Len(Received)) = SubSeq(promised, 1, Len(Received))
    BY <2>1, <2>2 
  <2> QED
    BY <2>2, <2>3 DEF IsPrefix
<1> QED
  BY <1>1, IInvCorrect, PTL

\* flush(): before the thread reads the next request of a client that is still
\* there, it has written the answers to all earlier ones in full.
THEOREM AnsweredCorrect == Spec => []AnsweredCompletely
<1>1. IInv => AnsweredCompletely
  <2> SUFFICES ASSUME IInv, ~cut, pc = "read", ~closed PROVE Received = promised
    BY DEF AnsweredCompletely, Received
  <2>1. Received \in Seq(Piece) /\ promised \in Seq(Piece)
    BY ConcatProperties DEF IInv, OutputType, Received
  <2>2. Rest = 0 /\ ~Over
    BY DEF Rest, Over, IInv, OutputType, WriteInv
  <2>3. Len(Received) = Len(promised)
    BY <2>1, <2>2, LenProperties DEF IInv, InStep
  <2> QED
    BY <2>1, <2>3, SeqEqual DEF IInv, Undamaged
<1> QED
  BY <1>1, IInvCorrect, PTL

-----------------------------------------------------------------------------
(* The lines of a request                                                  *)

\* All lines that answerRequest has not taken yet, in order, with the blank
\* line that readRequest has just taken: it stands behind _requestlines.
Gap == IF pc = "answer" THEN 1 ELSE 0
StreamLen == Len(lines) + Gap + Len(unread)
Stream ==
    [i \in 1..StreamLen |->
        IF i <= Len(lines) THEN lines[i]
        ELSE IF i <= Len(lines) + Gap THEN Blank ELSE unread[i - Len(lines) - Gap]]

\* A stream of l lines: up to request n, one request after the other, each
\* with a blank line behind it and tidy by itself.
Numbered(w, l, n) == \A i \in 1..l : w[i] = Blank \/ w[i] \in (1..n) \X Kind
Ended(w, l) == l > 0 => w[l] = Blank
Together(w, l) ==
    \A i, j \in 1..l : i <= j /\ (\A m \in i..j : w[m] # Blank) => w[i][1] = w[j][1]
Apart(w, l) ==
    \A i, j, k \in 1..l :
        i < j /\ j < k /\ w[i] # Blank /\ w[j] = Blank /\ w[k] # Blank => w[i][1] < w[k][1]
TidyLines(w, l) ==
    \A i \in 1..l : i < l /\ w[i] # Blank /\ w[i + 1] # Blank =>
        IF i = 1 \/ w[i - 1] = Blank THEN w[i][2] \in {"GET", "GET unknown"}
                                     ELSE w[i][2] \in Header
OneByOne(w, l, n) ==
    Numbered(w, l, n) /\ Ended(w, l) /\ Together(w, l) /\ Apart(w, l) /\ TidyLines(w, l)

\* Without what comes before a blank line.
LEMMA DropRequest ==
    ASSUME NEW w, NEW v, NEW l \in Nat, NEW n \in Nat, NEW m \in 1..l,
           OneByOne(w, l, n), w[m] = Blank, \A i \in 1..l - m : v[i] = w[i + m]
    PROVE  OneByOne(v, l - m, n)
<1>1. \A i \in 1..l - m : i + m \in 1..l /\ v[i] = w[i + m]
  OBVIOUS
<1>2. Numbered(w, l, n) /\ Ended(w, l) /\ Together(w, l) /\ Apart(w, l) /\ TidyLines(w, l)
  BY DEF OneByOne
<1>3. Numbered(v, l - m, n)
  BY <1>1, <1>2 DEF Numbered
<1>4. Ended(v, l - m)
  <2>1. ASSUME l - m > 0 PROVE v[l - m] = w[l]
    <3>1. l - m \in 1..l - m /\ (l - m) + m = l
      BY <2>1
    <3> QED
      BY <1>1, <3>1
  <2> QED
    BY <1>2, <2>1 DEF Ended
<1>5. ASSUME NEW i \in 1..l - m, NEW j \in 1..l - m, i <= j, \A k \in i..j : v[k] # Blank
      PROVE  v[i][1] = v[j][1]
  <2>1. i + m \in 1..l /\ j + m \in 1..l /\ i + m <= j + m
    BY <1>5
  <2>2. ASSUME NEW k \in i + m..j + m PROVE w[k] # Blank
    <3>1. k - m \in i..j /\ k - m \in 1..l - m /\ (k - m) + m = k
      BY <1>5, <2>2
    <3> QED
      BY <1>1, <1>5, <3>1
  <2>3. w[i + m][1] = w[j + m][1]
    BY <1>2, <2>1, <2>2 DEF Together
  <2> QED
    BY <1>1, <1>5, <2>3
<1>6. ASSUME NEW i \in 1..l - m, NEW j \in 1..l - m, NEW k \in 1..l - m, i < j, j < k,
             v[i] # Blank, v[j] = Blank, v[k] # Blank
      PROVE  v[i][1] < v[k][1]
  <2>1. i + m \in 1..l /\ j + m \in 1..l /\ k + m \in 1..l /\ i + m < j + m /\ j + m < k + m
    BY <1>6
  <2>2. w[i + m] # Blank /\ w[j + m] = Blank /\ w[k + m] # Blank
    BY <1>1, <1>6
  <2>3. w[i + m][1] < w[k + m][1]
    BY <1>2, <2>1, <2>2 DEF Apart
  <2> QED
    BY <1>1, <1>6, <2>3
<1>7. ASSUME NEW i \in 1..l - m, i < l - m, v[i] # Blank, v[i + 1] # Blank
      PROVE  IF i = 1 \/ v[i - 1] = Blank THEN v[i][2] \in {"GET", "GET unknown"}
                                          ELSE v[i][2] \in Header
  <2>1. /\ i + m \in 1..l /\ i + m < l /\ i + m # 1 /\ i + 1 \in 1..l - m
        /\ (i + 1) + m = (i + m) + 1
    BY <1>7
  <2>2. w[i + m] # Blank /\ w[(i + m) + 1] # Blank
    BY <1>1, <1>7, <2>1
  <2>3. (i = 1 \/ v[i - 1] = Blank) <=> w[(i + m) - 1] = Blank
    <3>1. CASE i = 1
      BY <3>1
    <3>2. CASE i # 1
      <4>1. i - 1 \in 1..l - m /\ (i - 1) + m = (i + m) - 1
        BY <1>7, <3>2
      <4> QED
        BY <1>1, <3>2, <4>1
    <3> QED
      BY <3>1, <3>2
  <2>4. v[i] = w[i + m]
    BY <1>1, <1>7
  <2>5. IF w[(i + m) - 1] = Blank THEN w[i + m][2] \in {"GET", "GET unknown"}
                                  ELSE w[i + m][2] \in Header
    BY <1>2, <2>1, <2>2 DEF TidyLines
  <2> QED
    BY <2>3, <2>4, <2>5
<1>8. Together(v, l - m) /\ Apart(v, l - m) /\ TidyLines(v, l - m)
  BY <1>5, <1>6, <1>7 DEF Together, Apart, TidyLines
<1> QED
  BY <1>3, <1>4, <1>8 DEF OneByOne

\* OneByOne only looks at the first l lines.
LEMMA SameStream ==
    ASSUME NEW w, NEW v, NEW l \in Nat, NEW n \in Nat, OneByOne(w, l, n),
           \A i \in 1..l : v[i] = w[i]
    PROVE  OneByOne(v, l, n)
<1>1. Numbered(w, l, n) /\ Ended(w, l) /\ Together(w, l) /\ Apart(w, l) /\ TidyLines(w, l)
  BY DEF OneByOne
<1>2. Numbered(v, l, n) /\ Ended(v, l)
  BY <1>1 DEF Numbered, Ended
<1>3. Together(v, l) /\ Apart(v, l)
  BY <1>1 DEF Together, Apart
<1>4. ASSUME NEW i \in 1..l, i < l, v[i] # Blank, v[i + 1] # Blank
      PROVE  IF i = 1 \/ v[i - 1] = Blank THEN v[i][2] \in {"GET", "GET unknown"}
                                          ELSE v[i][2] \in Header
  <2>1. i + 1 \in 1..l /\ (i # 1 => i - 1 \in 1..l)
    BY <1>4
  <2>2. w[i] # Blank /\ w[i + 1] # Blank
    BY <1>4, <2>1
  <2>3. IF i = 1 \/ w[i - 1] = Blank THEN w[i][2] \in {"GET", "GET unknown"}
                                     ELSE w[i][2] \in Header
    BY <1>1, <1>4, <2>2 DEF TidyLines
  <2>4. v[i] = w[i] /\ (i # 1 => v[i - 1] = w[i - 1])
    BY <2>1
  <2> QED
    BY <2>3, <2>4
<1>5. TidyLines(v, l)
  BY <1>4 DEF TidyLines
<1> QED
  BY <1>2, <1>3, <1>5 DEF OneByOne

\* One more request and its blank line.
LEMMA AddRequest ==
    ASSUME NEW w, NEW v, NEW l \in Nat, NEW n \in Nat, NEW q \in Seq(Kind), Tidy(q),
           OneByOne(w, l, n),
           \A i \in 1..l : v[i] = w[i],
           \A k \in 1..Len(q) : v[l + k] = <<n + 1, q[k]>>,
           v[l + Len(q) + 1] = Blank
    PROVE  OneByOne(v, l + Len(q) + 1, n + 1)
<1> DEFINE e == l + Len(q) + 1
<1>1. Len(q) \in Nat /\ e \in Nat /\ l < e
  OBVIOUS
<1>2. ASSUME NEW i \in 1..e
      PROVE  i \in 1..l \/ i = e \/ (i - l \in 1..Len(q) /\ l + (i - l) = i)
  BY <1>1
<1>3. Numbered(w, l, n) /\ Ended(w, l) /\ Together(w, l) /\ Apart(w, l) /\ TidyLines(w, l)
  BY DEF OneByOne
<1>4. \A i \in 1..l : w[i] = Blank \/ w[i] \in (1..n) \X Kind
  BY <1>3 DEF Numbered
<1>5. ASSUME NEW i \in 1..e, i > l, i # e
      PROVE  /\ v[i][1] = n + 1 /\ v[i][2] = q[i - l]
             /\ v[i] # Blank /\ v[i] \in (1..n + 1) \X Kind
  <2>1. i - l \in 1..Len(q) /\ l + (i - l) = i
    BY <1>2, <1>5
  <2>2. v[i] = <<n + 1, q[i - l]>> /\ q[i - l] \in Kind
    BY <2>1, ElementOfSeq
  <2> QED
    BY <2>2 DEF Blank
<1> HIDE DEF e
<1>6. \A i \in 1..e : v[i] = Blank \/ v[i] \in (1..n + 1) \X Kind
  <2> TAKE i \in 1..e
  <2>1. CASE i \in 1..l
    <3>1. v[i] = Blank \/ v[i] \in (1..n) \X Kind
      BY <1>4, <2>1
    <3> QED
      BY <3>1
  <2>2. CASE i > l /\ i # e
    BY <1>5, <2>2
  <2>3. CASE i = e
    BY <2>3 DEF e
  <2> QED
    BY <1>1, <2>1, <2>2, <2>3
<1>7. e > 0 /\ v[e] = Blank
  BY <1>1 DEF e
<1>8. l > 0 => v[l] = Blank
  BY <1>3 DEF Ended
<1>9. ASSUME NEW i \in 1..e, NEW j \in 1..e, i <= j, \A m \in i..j : v[m] # Blank
      PROVE  v[i][1] = v[j][1]
  <2>1. j # e
    BY <1>7, <1>9
  <2>2. CASE j <= l
    <3>1. i \in 1..l /\ j \in 1..l /\ \A m \in i..j : w[m] # Blank
      <4>1. i \in 1..l /\ j \in 1..l /\ i..j \subseteq 1..l
        BY <1>1, <1>9, <2>2
      <4>2. ASSUME NEW m \in i..j PROVE w[m] # Blank
        BY <1>9, <4>1
      <4> QED
        BY <4>1, <4>2
    <3> QED
      <4>1. v[i] = w[i] /\ v[j] = w[j]
        BY <3>1
      <4>2. w[i][1] = w[j][1]
        BY <1>3, <1>9, <3>1 DEF Together
      <4> QED
        BY <4>1, <4>2
  <2>3. CASE j > l /\ i > l
    <3>1. v[i][1] = n + 1 /\ v[j][1] = n + 1
      BY <1>1, <1>5, <1>9, <2>1, <2>3
    <3> QED
      BY <3>1
  <2>4. CASE j > l /\ i <= l
    <3>1. l \in i..j /\ l > 0
      BY <1>1, <1>9, <2>4
    <3> QED
      BY <1>8, <1>9, <3>1
  <2> QED
    BY <1>1, <2>2, <2>3, <2>4
<1>10. ASSUME NEW i \in 1..e, NEW j \in 1..e, NEW k \in 1..e, i < j, j < k,
             v[i] # Blank, v[j] = Blank, v[k] # Blank
      PROVE  v[i][1] < v[k][1]
  <2>1. k # e
    BY <1>7, <1>10
  <2>2. CASE k <= l
    <3>1. i \in 1..l /\ j \in 1..l /\ k \in 1..l
      BY <1>1, <1>10, <2>2
    <3> QED
      BY <1>3, <1>10, <3>1 DEF Apart
  <2>3. CASE k > l
    <3>1. v[k][1] = n + 1
      BY <1>1, <1>5, <2>1, <2>3
    <3>2. j <= l
      BY <1>1, <1>5, <1>10, <2>1
    <3>3. i \in 1..l /\ v[i] \in (1..n) \X Kind
      <4>1. i \in 1..l
        BY <1>1, <1>10, <3>2
      <4>2. w[i] = Blank \/ w[i] \in (1..n) \X Kind
        BY <1>4, <4>1
      <4>3. v[i] = w[i]
        BY <4>1
      <4> QED
        BY <1>10, <4>1, <4>2, <4>3
    <3> QED
      BY <3>1, <3>3
  <2> QED
    BY <1>1, <2>2, <2>3
<1>11. ASSUME NEW i \in 1..e, i < e, v[i] # Blank, v[i + 1] # Blank
       PROVE  IF i = 1 \/ v[i - 1] = Blank THEN v[i][2] \in {"GET", "GET unknown"}
                                           ELSE v[i][2] \in Header
  <2>1. i + 1 \in 1..e /\ i + 1 # e
    BY <1>1, <1>7, <1>11
  <2>2. CASE i < l
    <3>1. i \in 1..l /\ i + 1 \in 1..l /\ (i # 1 => i - 1 \in 1..l)
      BY <1>1, <2>2
    <3>2. w[i] # Blank /\ w[i + 1] # Blank
      BY <1>11, <3>1
    <3> QED
      BY <1>3, <2>2, <3>1, <3>2 DEF TidyLines
  <2>3. i # l
    BY <1>8, <1>11
  <2>4. CASE i > l
    <3>1. i - l \in 1..Len(q) /\ i - l < Len(q) /\ Len(q) > 1
      BY <1>1, <2>1, <2>4 DEF e
    <3>2. v[i][2] = q[i - l]
      BY <1>1, <1>5, <2>1, <2>4
    <3>3. CASE i = l + 1
      <4>1. i = 1 \/ v[i - 1] = Blank
        BY <1>1, <1>8, <3>3
      <4>2. i - l = 1
        BY <1>1, <3>3
      <4>3. q[i - l] \in {"GET", "GET unknown"}
        BY <3>1, <4>2 DEF Tidy
      <4> QED
        BY <3>2, <4>1, <4>3
    <3>4. CASE i > l + 1
      <4>1. i # 1 /\ v[i - 1] # Blank
        <5>1. i - 1 \in 1..e /\ i - 1 > l /\ i - 1 # e
          BY <1>1, <3>4
        <5> QED
          BY <1>1, <1>5, <3>4, <5>1
      <4>2. i - l \in 2..Len(q) - 1
        BY <1>1, <3>1, <3>4
      <4>3. q[i - l] \in Header
        BY <4>2 DEF Tidy
      <4> QED
        BY <3>2, <4>1, <4>3
    <3>5. i = l + 1 \/ i > l + 1
      BY <1>1, <2>4
    <3> QED
      BY Zenon, <3>3, <3>4, <3>5
  <2>5. i < l \/ i > l
    BY <1>1, <2>3
  <2> QED
    BY Zenon, <2>2, <2>4, <2>5
<1>12. Numbered(v, e, n + 1) /\ Ended(v, e)
  BY <1>6, <1>7 DEF Numbered, Ended
<1>13. Together(v, e) /\ Apart(v, e) /\ TidyLines(v, e)
  BY <1>9, <1>10, <1>11 DEF Together, Apart, TidyLines
<1> QED
  BY <1>12, <1>13 DEF OneByOne, e

LineInv ==
    /\ sent \in Nat
    /\ lines \in Seq((1..sent) \X Kind) /\ unread \in Seq({Blank} \cup ((1..sent) \X Kind))
    /\ pc = "answer" => lines # <<>>
    /\ OneByOne(Stream, StreamLen, sent)

\* As long as all requests were tidy, LineInv holds.
LInv == tidy \in BOOLEAN /\ (tidy => LineInv)

LEMMA LineTypes ==
    ASSUME LineInv
    PROVE  /\ sent \in Nat /\ Len(lines) \in Nat /\ Len(unread) \in Nat
           /\ Gap \in Nat /\ StreamLen \in Nat
           /\ \A i \in 1..Len(lines) :
                lines[i] \in (1..sent) \X Kind /\ lines[i] # Blank /\ Stream[i] = lines[i]
           /\ \A i \in 1..Len(unread) :
                Len(lines) + Gap + i \in 1..StreamLen /\ Stream[Len(lines) + Gap + i] = unread[i]
           /\ pc = "answer" => Gap = 1 /\ Stream[Len(lines) + 1] = Blank
           /\ pc # "answer" => Gap = 0
<1>1. /\ sent \in Nat /\ lines \in Seq((1..sent) \X Kind)
      /\ unread \in Seq({Blank} \cup ((1..sent) \X Kind))
  BY DEF LineInv
<1>2. Len(lines) \in Nat /\ Len(unread) \in Nat
  BY <1>1, LenProperties
<1>3. Gap \in Nat /\ (pc = "answer" => Gap = 1) /\ (pc # "answer" => Gap = 0)
  BY DEF Gap
<1>4. StreamLen \in Nat
  BY <1>2, <1>3 DEF StreamLen
<1>5. ASSUME NEW i \in 1..Len(lines)
      PROVE  lines[i] \in (1..sent) \X Kind /\ lines[i] # Blank /\ Stream[i] = lines[i]
  <2>1. lines[i] \in (1..sent) \X Kind
    BY <1>1, ElementOfSeq
  <2>2. i \in 1..StreamLen
    BY <1>2, <1>3 DEF StreamLen
  <2> QED
    BY <1>1, <2>1, <2>2 DEF Blank, Stream
<1>6. ASSUME NEW i \in 1..Len(unread)
      PROVE  /\ Len(lines) + Gap + i \in 1..StreamLen
             /\ Stream[Len(lines) + Gap + i] = unread[i]
  <2>1. Len(lines) + Gap + i \in 1..StreamLen
    BY <1>2, <1>3 DEF StreamLen
  <2>2. /\ ~(Len(lines) + Gap + i <= Len(lines)) /\ ~(Len(lines) + Gap + i <= Len(lines) + Gap)
        /\ (Len(lines) + Gap + i) - Len(lines) - Gap = i
    BY <1>2, <1>3
  <2>3. \A d \in 1..StreamLen :
            ~(d <= Len(lines)) /\ ~(d <= Len(lines) + Gap)
                => Stream[d] = unread[d - Len(lines) - Gap]
    BY DEF Stream
  <2> QED
    BY <2>1, <2>2, <2>3
<1>7. pc = "answer" => Stream[Len(lines) + 1] = Blank
  <2> SUFFICES ASSUME pc = "answer" PROVE Stream[Len(lines) + 1] = Blank
    OBVIOUS
  <2>1. Len(lines) + 1 \in 1..StreamLen /\ ~(Len(lines) + 1 <= Len(lines)) /\ Gap = 1
    BY <1>2, <1>3 DEF StreamLen
  <2> QED
    BY <1>2, <2>1 DEF Stream
<1> QED
  BY <1>1, <1>2, <1>3, <1>4, <1>5, <1>6, <1>7

\* Steps that leave the lines where they are.
LEMMA SameLines ==
    ASSUME LInv, UNCHANGED <<sent, unread, lines, tidy>>, (pc = "answer") <=> (pc' = "answer")
    PROVE  LInv'
<1>1. Stream' = Stream /\ StreamLen' = StreamLen
  BY DEF Stream, StreamLen, Gap
<1> QED
  BY <1>1 DEF LInv, LineInv

\* The first line behind those that were read, and the rest.
LEMMA NextLine ==
    ASSUME LineInv, unread # <<>>
    PROVE  /\ Head(unread) = unread[1] /\ Len(Tail(unread)) = Len(unread) - 1 /\ Len(unread) > 0
           /\ Head(unread) # Blank => Head(unread) \in (1..sent) \X Kind
           /\ Tail(unread) \in Seq({Blank} \cup ((1..sent) \X Kind))
           /\ \A i \in 1..Len(unread) - 1 : Tail(unread)[i] = unread[i + 1]
<1> DEFINE Item == {Blank} \cup ((1..sent) \X Kind)
<1>1. unread \in Seq(Item)
  BY DEF LineInv
<1> HIDE DEF Item
<1>2. /\ Head(unread) \in Item /\ Tail(unread) \in Seq(Item) /\ Len(Tail(unread)) = Len(unread) - 1
      /\ \A i \in 1..Len(Tail(unread)) : Tail(unread)[i] = unread[i + 1]
  BY <1>1, HeadTailProperties
<1>3. Head(unread) = unread[1] /\ Len(unread) > 0
  BY <1>1, EmptySeq
<1> QED
  BY <1>2, <1>3 DEF Item

\* A line moves from the client's side of the stream to _requestlines.
LEMMA ReadLineStep == ASSUME LInv, ReadLine PROVE LInv'
<1> SUFFICES ASSUME tidy PROVE LineInv'
  BY DEF LInv, ReadLine
<1>1. /\ LineInv /\ pc = "read" /\ unread # <<>> /\ Head(unread) # Blank
      /\ lines' = Append(lines, Head(unread)) /\ unread' = Tail(unread)
      /\ UNCHANGED <<sent, pc>>
  BY DEF LInv, ReadLine
<1>2. Gap = 0 /\ Gap' = 0
  BY <1>1 DEF Gap
<1>3. /\ lines \in Seq((1..sent) \X Kind) /\ Len(lines) \in Nat /\ Len(unread) \in Nat
      /\ Head(unread) \in (1..sent) \X Kind
  BY <1>1, LineTypes, NextLine DEF LineInv
<1>4. /\ lines' \in Seq((1..sent) \X Kind) /\ Len(lines') = Len(lines) + 1
      /\ \A i \in 1..Len(lines) : lines'[i] = lines[i]
      /\ lines'[Len(lines) + 1] = Head(unread)
  <2> DEFINE Item == (1..sent) \X Kind
  <2>1. lines \in Seq(Item) /\ Head(unread) \in Item
    BY <1>3
  <2> HIDE DEF Item
  <2>2. /\ Append(lines, Head(unread)) \in Seq(Item)
        /\ Len(Append(lines, Head(unread))) = Len(lines) + 1
        /\ \A i \in 1..Len(lines) : Append(lines, Head(unread))[i] = lines[i]
        /\ Append(lines, Head(unread))[Len(lines) + 1] = Head(unread)
    BY <2>1, AppendProperties
  <2> QED
    BY <1>1, <2>2 DEF Item
<1>5. /\ Head(unread) = unread[1] /\ Len(unread') = Len(unread) - 1 /\ Len(unread) > 0
      /\ unread' \in Seq({Blank} \cup ((1..sent) \X Kind))
      /\ \A i \in 1..Len(unread) - 1 : unread'[i] = unread[i + 1]
  BY <1>1, NextLine
<1>6. StreamLen' = StreamLen
  BY <1>2, <1>3, <1>4, <1>5 DEF StreamLen
<1>7. Stream' = Stream
  <2>1. ASSUME NEW i \in 1..StreamLen
        PROVE  (IF i <= Len(lines') THEN lines'[i]
                ELSE IF i <= Len(lines') + 0 THEN Blank ELSE unread'[i - Len(lines') - 0])
             = (IF i <= Len(lines) THEN lines[i]
                ELSE IF i <= Len(lines) + 0 THEN Blank ELSE unread[i - Len(lines) - 0])
    <3>1. i \in 1..Len(lines) + Len(unread)
      BY <1>2, <1>3 DEF StreamLen
    <3>2. CASE i <= Len(lines)
      BY <1>3, <1>4, <3>1, <3>2
    <3>3. CASE i = Len(lines) + 1
      BY <1>3, <1>4, <1>5, <3>1, <3>3
    <3>4. CASE i > Len(lines) + 1
      <4>1. /\ i - Len(lines') - 0 \in 1..Len(unread) - 1
            /\ (i - Len(lines') - 0) + 1 = i - Len(lines) - 0
        BY <1>3, <1>4, <3>1, <3>4
      <4>2. unread'[i - Len(lines') - 0] = unread[i - Len(lines) - 0]
        BY <1>5, <4>1
      <4> QED
        BY <1>3, <1>4, <3>1, <3>4, <4>2
    <3> QED
      BY <1>3, <3>1, <3>2, <3>3, <3>4
  <2> QED
    BY <1>2, <1>6, <2>1 DEF Stream
<1> QED
  BY <1>1, <1>4, <1>5, <1>6, <1>7 DEF LineInv

\* The blank line changes its place only; and there is one, since a client does
\* not leave a request without it.
LEMMA RequestReadStep == ASSUME LInv, RequestRead PROVE LInv'
<1> SUFFICES ASSUME tidy PROVE LineInv'
  BY DEF LInv, RequestRead
<1>1. /\ LineInv /\ pc = "read" /\ lines # <<>> /\ pc' = "answer" /\ UNCHANGED <<sent, lines>>
  BY DEF LInv, RequestRead
<1>2. Gap = 0 /\ Gap' = 1
  BY <1>1 DEF Gap
<1>3. Len(lines) \in Nat /\ Len(unread) \in Nat /\ Len(lines) > 0
  BY <1>1, LineTypes, EmptySeq DEF LineInv
<1>4. unread # <<>>
  <2> SUFFICES ASSUME unread = <<>> PROVE FALSE
    OBVIOUS
  <2>1. StreamLen = Len(lines) /\ Stream[Len(lines)] # Blank
    BY <1>1, <1>2, <1>3, LineTypes DEF StreamLen
  <2> QED
    BY <1>1, <1>3, <2>1 DEF LineInv, OneByOne, Ended
<1>5. Head(unread) = Blank /\ unread' = Tail(unread)
  BY <1>4 DEF RequestRead
<1>6. /\ unread[1] = Blank /\ Len(unread') = Len(unread) - 1 /\ Len(unread) > 0
      /\ unread' \in Seq({Blank} \cup ((1..sent) \X Kind))
      /\ \A i \in 1..Len(unread) - 1 : unread'[i] = unread[i + 1]
  BY <1>1, <1>4, <1>5, NextLine
<1>7. StreamLen' = StreamLen
  BY <1>1, <1>2, <1>3, <1>6 DEF StreamLen
<1>8. Stream' = Stream
  <2>1. ASSUME NEW i \in 1..StreamLen
        PROVE  (IF i <= Len(lines) THEN lines[i]
                ELSE IF i <= Len(lines) + 1 THEN Blank ELSE unread'[i - Len(lines) - 1])
             = (IF i <= Len(lines) THEN lines[i]
                ELSE IF i <= Len(lines) + 0 THEN Blank ELSE unread[i - Len(lines) - 0])
    <3>1. i \in 1..Len(lines) + Len(unread)
      BY <1>2, <1>3 DEF StreamLen
    <3>2. CASE i <= Len(lines)
      BY <3>2
    <3>3. CASE i = Len(lines) + 1
      BY <1>3, <1>6, <3>1, <3>3
    <3>4. CASE i > Len(lines) + 1
      <4>1. /\ i - Len(lines) - 1 \in 1..Len(unread) - 1
            /\ (i - Len(lines) - 1) + 1 = i - Len(lines) - 0
        BY <1>3, <3>1, <3>4
      <4>2. unread'[i - Len(lines) - 1] = unread[i - Len(lines) - 0]
        BY <1>6, <4>1
      <4> QED
        BY <1>3, <3>1, <3>4, <4>2
    <3> QED
      BY <1>3, <3>1, <3>2, <3>3, <3>4
  <2> QED
    BY <1>1, <1>2, <1>7, <2>1 DEF Stream
<1> QED
  BY <1>1, <1>6, <1>7, <1>8 DEF LineInv

\* A new request comes behind all others.
LEMMA SendStep == ASSUME LInv, Send PROVE LInv'
<1>1. /\ sent' = sent + 1 /\ UNCHANGED <<lines, pc>> /\ tidy \in BOOLEAN
      /\ \E q \in Requests :
            /\ unread' = unread \o [k \in 1..Len(q) |-> <<sent + 1, q[k]>>] \o <<Blank>>
            /\ tidy' = (tidy /\ Tidy(q))
  BY DEF Send, LInv
<1>2. tidy' \in BOOLEAN
  BY <1>1
<1> SUFFICES ASSUME tidy' PROVE LineInv'
  BY <1>2 DEF LInv
<1>3. PICK q \in Requests :
        /\ unread' = unread \o [k \in 1..Len(q) |-> <<sent + 1, q[k]>>] \o <<Blank>>
        /\ tidy' = (tidy /\ Tidy(q))
  BY <1>1
<1>4. tidy /\ Tidy(q)
  BY <1>3
<1>5. LineInv /\ sent \in Nat /\ Gap' = Gap /\ Gap \in {0, 1}
  BY <1>1, <1>4 DEF LInv, LineInv, Gap
<1>6. q \in Seq(Kind) /\ Len(q) \in Nat /\ Len(lines) \in Nat /\ Len(unread) \in Nat
  BY <1>5, ConnectionAssumption, LineTypes
<1> DEFINE Item == {Blank} \cup ((1..sent + 1) \X Kind)
           New == [k \in 1..Len(q) |-> <<sent + 1, q[k]>>]
<1>7. New \in Seq(Item) /\ Len(New) = Len(q) /\ \A k \in 1..Len(q) : New[k] = <<sent + 1, q[k]>>
  <2>1. \A k \in 1..Len(q) : <<sent + 1, q[k]>> \in Item
    BY <1>5, <1>6, ElementOfSeq
  <2> HIDE DEF Item
  <2> QED
    BY <1>6, <2>1
<1>8. unread \in Seq(Item) /\ <<Blank>> \in Seq(Item)
  <2>1. {Blank} \cup ((1..sent) \X Kind) \subseteq Item
    BY <1>5
  <2>2. Blank \in Item
    OBVIOUS
  <2> HIDE DEF Item
  <2> QED
    BY <1>5, <2>1, <2>2, SeqMonotonic DEF LineInv
<1>9. lines' \in Seq((1..sent + 1) \X Kind)
  <2>1. (1..sent) \X Kind \subseteq (1..sent + 1) \X Kind
    BY <1>5
  <2> QED
    BY <1>1, <1>5, <2>1, SeqMonotonic DEF LineInv
<1> HIDE DEF Item, New
<1>10. /\ unread' \in Seq(Item) /\ Len(unread') = Len(unread) + Len(q) + 1
       /\ \A k \in 1..Len(unread) : unread'[k] = unread[k]
       /\ \A k \in 1..Len(q) : unread'[Len(unread) + k] = <<sent + 1, q[k]>>
       /\ unread'[Len(unread) + Len(q) + 1] = Blank
  <2> DEFINE UN == unread \o New
  <2>1. unread' = UN \o <<Blank>>
    BY <1>3 DEF New
  <2>2. /\ UN \in Seq(Item) /\ Len(UN) = Len(unread) + Len(q)
        /\ \A k \in 1..Len(unread) + Len(q) :
              UN[k] = IF k <= Len(unread) THEN unread[k] ELSE New[k - Len(unread)]
    <3>1. /\ UN \in Seq(Item) /\ Len(UN) = Len(unread) + Len(New)
          /\ \A k \in 1..Len(unread) + Len(New) :
                UN[k] = IF k <= Len(unread) THEN unread[k] ELSE New[k - Len(unread)]
      BY <1>7, <1>8, ConcatProperties
    <3> QED
      BY <1>7, <3>1
  <2> HIDE DEF UN
  <2>3. /\ unread' \in Seq(Item) /\ Len(unread') = Len(UN) + 1
        /\ \A k \in 1..Len(UN) + 1 :
              unread'[k] = IF k <= Len(UN) THEN UN[k] ELSE <<Blank>>[k - Len(UN)]
    BY <1>8, <2>1, <2>2, ConcatProperties
  <2>4. Len(unread') = Len(unread) + Len(q) + 1
    BY <1>6, <2>2, <2>3
  <2>5. \A k \in 1..Len(unread) : unread'[k] = unread[k]
    BY <1>6, <2>2, <2>3
  <2>6. ASSUME NEW k \in 1..Len(q) PROVE unread'[Len(unread) + k] = <<sent + 1, q[k]>>
    <3>1. unread'[Len(unread) + k] = UN[Len(unread) + k]
      BY <1>6, <2>2, <2>3
    <3>2. UN[Len(unread) + k] = New[k]
      BY <1>6, <2>2
    <3> QED
      BY <1>7, <3>1, <3>2
  <2>7. unread'[Len(unread) + Len(q) + 1] = Blank
    BY <1>6, <2>2, <2>3
  <2> QED
    BY <2>3, <2>4, <2>5, <2>6, <2>7
<1>11. /\ StreamLen \in Nat /\ StreamLen' = StreamLen + Len(q) + 1
       /\ StreamLen = Len(lines) + Gap + Len(unread)
  BY <1>1, <1>5, <1>6, <1>10 DEF StreamLen
<1>12. \A i \in 1..StreamLen' :
        Stream'[i] = IF i <= Len(lines) THEN lines[i]
                     ELSE IF i <= Len(lines) + Gap THEN Blank
                     ELSE unread'[i - Len(lines) - Gap]
  BY <1>1, <1>5 DEF Stream
<1>13. \A i \in 1..StreamLen : Stream'[i] = Stream[i]
  <2> TAKE i \in 1..StreamLen
  <2>1. i \in 1..StreamLen'
    BY <1>6, <1>11
  <2>2. CASE i <= Len(lines) + Gap
    BY <1>12, <2>1, <2>2 DEF Stream
  <2>3. CASE i > Len(lines) + Gap
    <3>1. /\ i - Len(lines) - Gap \in 1..Len(unread)
          /\ ~(i <= Len(lines)) /\ ~(i <= Len(lines) + Gap)
      BY <1>5, <1>6, <1>11, <2>3
    <3> QED
      BY <1>10, <1>12, <2>1, <3>1 DEF Stream
  <2> QED
    BY <1>5, <1>6, <1>11, <2>2, <2>3
<1>14. ASSUME NEW k \in 1..Len(q) + 1
       PROVE  Stream'[StreamLen + k] = unread'[Len(unread) + k]
  <2>1. /\ StreamLen + k \in 1..StreamLen'
        /\ ~(StreamLen + k <= Len(lines)) /\ ~(StreamLen + k <= Len(lines) + Gap)
        /\ (StreamLen + k) - Len(lines) - Gap = Len(unread) + k
    BY <1>5, <1>6, <1>11
  <2> QED
    BY <1>12, <2>1
<1>15. \A k \in 1..Len(q) : Stream'[StreamLen + k] = <<sent + 1, q[k]>>
  BY <1>6, <1>10, <1>14
<1>16. Stream'[StreamLen + Len(q) + 1] = Blank
  <2>1. Stream'[StreamLen + (Len(q) + 1)] = unread'[Len(unread) + (Len(q) + 1)]
    BY <1>6, <1>14
  <2>2. /\ StreamLen + (Len(q) + 1) = StreamLen + Len(q) + 1
        /\ Len(unread) + (Len(q) + 1) = Len(unread) + Len(q) + 1
    BY <1>6, <1>11
  <2> QED
    BY <1>10, <2>1, <2>2
<1>17. OneByOne(Stream', StreamLen + Len(q) + 1, sent + 1)
  <2>1. OneByOne(Stream, StreamLen, sent)
    BY <1>5 DEF LineInv
  <2> QED
    BY <1>4, <1>5, <1>6, <1>11, <1>13, <1>15, <1>16, <2>1, AddRequest
<1> QED
  BY <1>1, <1>5, <1>9, <1>10, <1>11, <1>17 DEF LineInv, Item

\* What is in _requestlines when a request is answered.
LEMMA WholeRequest ==
    ASSUME LineInv, pc = "answer"
    PROVE  /\ HeadersEnd = Len(lines)
           /\ Len(lines) > 1 => lines[1][2] \in {"GET", "GET unknown"}
           /\ OneByOne(unread, Len(unread), sent)
<1>1. /\ Len(lines) \in Nat \ {0} /\ Len(unread) \in Nat /\ StreamLen \in Nat /\ Gap = 1
      /\ StreamLen = Len(lines) + 1 + Len(unread)
      /\ \A k \in 1..Len(lines) : Stream[k] = lines[k] /\ Stream[k] # Blank
      /\ OneByOne(Stream, StreamLen, sent) /\ sent \in Nat
  BY LineTypes, EmptySeq DEF LineInv, StreamLen
<1>2. ASSUME NEW k \in 1..Len(lines), k < Len(lines)
      PROVE  IF k = 1 THEN lines[k][2] \in {"GET", "GET unknown"} ELSE lines[k][2] \in Header
  <2>1. /\ k \in 1..StreamLen /\ k < StreamLen /\ k + 1 \in 1..Len(lines)
        /\ (k # 1 => k - 1 \in 1..Len(lines))
    BY <1>1, <1>2
  <2>2. /\ Stream[k] = lines[k] /\ Stream[k] # Blank /\ Stream[k + 1] # Blank
        /\ (k # 1 => Stream[k - 1] # Blank)
    BY <1>1, <2>1
  <2> QED
    BY <1>1, <2>1, <2>2 DEF OneByOne, TidyLines
<1>3. HeadersEnd = Len(lines)
  <2> DEFINE bad == {k \in 2..Len(lines) : lines[k][2] \notin Header}
  <2>1. bad \subseteq {Len(lines)}
    <3> SUFFICES ASSUME NEW k \in bad, k # Len(lines) PROVE FALSE
      OBVIOUS
    <3>1. k \in 1..Len(lines) /\ k < Len(lines) /\ k # 1
      BY <1>1
    <3>2. lines[k][2] \in Header
      BY <1>2, <3>1
    <3> QED
      BY <3>2
  <2>2. HeadersEnd = IF bad = {} THEN Len(lines) ELSE CHOOSE k \in bad : \A l \in bad : k <= l
    BY DEF HeadersEnd
  <2> HIDE DEF bad
  <2>3. CASE bad = {}
    BY <2>2, <2>3
  <2>4. CASE bad # {}
    <3>1. bad = {Len(lines)}
      BY <2>1, <2>4
    <3>2. \A k \in bad : k = Len(lines)
      BY <3>1
    <3>3. \E k \in bad : \A l \in bad : k <= l
      BY <1>1, <3>1
    <3>4. (CHOOSE k \in bad : \A l \in bad : k <= l) \in bad
      BY <3>3
    <3> QED
      BY <2>2, <2>4, <3>2, <3>4
  <2> QED
    BY <2>3, <2>4
<1>4. Len(lines) > 1 => lines[1][2] \in {"GET", "GET unknown"}
  <2> SUFFICES ASSUME Len(lines) > 1 PROVE lines[1][2] \in {"GET", "GET unknown"}
    OBVIOUS
  <2>1. 1 \in 1..Len(lines) /\ 1 < Len(lines)
    BY <1>1
  <2> QED
    BY <1>2, <2>1
<1>5. OneByOne(unread, Len(unread), sent)
  <2> DEFINE m == Len(lines) + 1
  <2>1. m \in 1..StreamLen /\ Stream[m] = Blank /\ StreamLen - m = Len(unread)
    BY <1>1, LineTypes
  <2>2. ASSUME NEW i \in 1..Len(unread) PROVE unread[i] = Stream[i + m]
    <3>1. Stream[Len(lines) + Gap + i] = unread[i]
      BY LineTypes
    <3>2. Len(lines) + Gap + i = i + m
      BY <1>1
    <3> QED
      BY <3>1, <3>2
  <2> HIDE DEF m
  <2>3. OneByOne(unread, StreamLen - m, sent)
    BY <1>1, <2>1, <2>2, DropRequest
  <2> QED
    BY <2>1, <2>3
<1> QED
  BY <1>1, <1>3, <1>4, <1>5

\* An answer takes all lines of its request, and what remains begins with the
\* next one.
LEMMA AnswerStep ==
    ASSUME LInv, AnswerGet \/ AnswerCommand \/ AnswerOther
    PROVE  LInv'
<1>1. pc = "answer" /\ pc' # "answer" /\ UNCHANGED <<sent, unread, tidy>>
  BY DEF AnswerGet, AnswerCommand, AnswerOther, Respond, input
<1> SUFFICES ASSUME tidy PROVE LineInv'
  BY <1>1 DEF LInv
<1>2. LineInv
  BY DEF LInv
<1>3. /\ HeadersEnd = Len(lines)
      /\ Len(lines) > 1 => lines[1][2] \in {"GET", "GET unknown"}
      /\ OneByOne(unread, Len(unread), sent)
  BY <1>1, <1>2, WholeRequest
<1>4. lines \in Seq((1..sent) \X Kind) /\ sent \in Nat
      /\ unread \in Seq({Blank} \cup ((1..sent) \X Kind)) /\ Len(unread) \in Nat
  BY <1>2, LineTypes DEF LineInv
<1>5. Len(lines) \in Nat /\ Len(lines) > 0
  BY <1>1, <1>2, LineTypes, EmptySeq DEF LineInv
<1>6. lines' = <<>>
  <2>1. CASE AnswerGet
    <3>1. lines' = SubSeq(lines, Len(lines) + 1, Len(lines))
      BY <1>3, <2>1 DEF AnswerGet
    <3>2. Len(lines) \in Int /\ Len(lines) + 1 \in Int /\ Len(lines) < Len(lines) + 1
      BY <1>5
    <3> QED
      BY <3>1, <3>2, SubSeqEmpty
  <2>2. CASE AnswerCommand \/ AnswerOther
    <3>1. lines' = Tail(lines) /\ lines[1][2] \notin {"GET", "GET unknown"}
      BY <2>2 DEF AnswerCommand, AnswerOther
    <3>2. ~(Len(lines) > 1)
      BY Zenon, <1>3, <3>1
    <3>3. Len(lines) = 1
      <4>1. \A n \in Nat : n > 0 /\ n # 1 => n > 1
        OBVIOUS
      <4> QED
        BY Zenon, <1>5, <3>2, <4>1
    <3> DEFINE Item == (1..sent) \X Kind
    <3>4. lines \in Seq(Item)
      BY <1>4
    <3> HIDE DEF Item
    <3>5. lines # <<>>
      BY <3>3
    <3>6. Tail(lines) \in Seq(Item) /\ Len(Tail(lines)) = 0
      BY <3>3, <3>4, <3>5, HeadTailProperties
    <3> QED
      BY <3>1, <3>6, EmptySeq
  <2> QED
    BY <2>1, <2>2
<1>7. Len(lines') = 0 /\ Gap' = 0 /\ unread' = unread /\ sent' = sent
  BY <1>1, <1>6 DEF Gap
<1>8. StreamLen' = Len(unread)
  BY <1>4, <1>7 DEF StreamLen
<1>9. \A i \in 1..Len(unread) : Stream'[i] = unread[i]
  <2>1. Stream' = [i \in 1..Len(unread) |->
                    IF i <= 0 THEN <<>>[i] ELSE IF i <= 0 + 0 THEN Blank ELSE unread[i - 0 - 0]]
    BY <1>1, <1>6, <1>7, <1>8 DEF Stream
  <2> QED
    BY <1>4, <2>1
<1>10. OneByOne(Stream', Len(unread), sent)
  BY <1>3, <1>4, <1>9, SameStream
<1> QED
  BY <1>1, <1>4, <1>6, <1>7, <1>8, <1>10, EmptySeq DEF LineInv

LEMMA ReadFailsStep == ASSUME LInv, ReadFails PROVE LInv'
<1>1. pc = "read" /\ pc' = "head" /\ UNCHANGED <<sent, lines, tidy>>
  BY DEF ReadFails, Respond, input
<1>2. CASE unread' = unread
  BY <1>1, <1>2, SameLines
<1>3. CASE unread' # unread
  <2> SUFFICES ASSUME tidy PROVE LineInv'
    BY <1>1 DEF LInv
  <2>1. /\ LineInv /\ lines = <<>> /\ unread # <<>> /\ Head(unread) = Blank
        /\ unread' = Tail(unread) /\ Gap = 0 /\ Gap' = 0 /\ sent \in Nat
    BY <1>1, <1>3 DEF ReadFails, LInv, LineInv, Gap
  <2>2. /\ unread[1] = Blank /\ Len(unread') = Len(unread) - 1 /\ Len(unread) > 0
        /\ unread' \in Seq({Blank} \cup ((1..sent) \X Kind))
        /\ \A i \in 1..Len(unread) - 1 : unread'[i] = unread[i + 1]
    BY <2>1, NextLine
  <2>3. Len(lines) = 0 /\ Len(unread) \in Nat /\ Len(lines') = 0 /\ lines' = <<>>
    BY <1>1, <2>1, LineTypes
  <2>4. StreamLen = Len(unread) /\ StreamLen' = Len(unread) - 1
    BY <2>1, <2>2, <2>3 DEF StreamLen
  <2>5. Stream = [i \in 1..Len(unread) |->
                    IF i <= 0 THEN <<>>[i] ELSE IF i <= 0 + 0 THEN Blank ELSE unread[i - 0 - 0]]
    BY <2>1, <2>3, <2>4 DEF Stream
  <2>6. Stream' = [i \in 1..Len(unread) - 1 |->
                    IF i <= 0 THEN <<>>[i] ELSE IF i <= 0 + 0 THEN Blank ELSE unread'[i - 0 - 0]]
    BY <2>1, <2>3, <2>4 DEF Stream
  <2>7. \A i \in 1..Len(unread) : Stream[i] = unread[i]
    BY <2>3, <2>5
  <2>8. \A i \in 1..Len(unread) - 1 : Stream'[i] = unread'[i]
    BY <2>3, <2>6
  <2>9. \A i \in 1..Len(unread) - 1 : Stream'[i] = Stream[i + 1]
    <3> TAKE i \in 1..Len(unread) - 1
    <3>1. i + 1 \in 1..Len(unread)
      BY <2>3
    <3> QED
      BY <2>2, <2>7, <2>8, <3>1
  <2>10. OneByOne(Stream', Len(unread) - 1, sent)
    <3>1. 1 \in 1..Len(unread) /\ Stream[1] = Blank
      BY <2>2, <2>3, <2>7
    <3>2. OneByOne(Stream, Len(unread), sent)
      BY <2>1, <2>4 DEF LineInv
    <3> QED
      BY <2>1, <2>3, <2>9, <3>1, <3>2, DropRequest
  <2> QED
    BY <1>1, <2>1, <2>2, <2>4, <2>10 DEF LineInv
<1> QED
  BY <1>2, <1>3

LEMMA InitLInv == Init => LInv
<1> SUFFICES ASSUME Init PROVE LInv
  OBVIOUS
<1>1. /\ sent = 0 /\ lines = <<>> /\ unread = <<>> /\ tidy = TRUE /\ pc = "read"
      /\ Len(lines) = 0 /\ Len(unread) = 0
  BY DEF Init
<1>2. StreamLen = 0
  BY <1>1 DEF StreamLen, Gap
<1>3. OneByOne(Stream, 0, 0)
  BY DEF OneByOne, Numbered, Ended, Together, Apart, TidyLines
<1> QED
  BY <1>1, <1>2, <1>3, EmptySeq DEF LInv, LineInv

LEMMA LInvStep == LInv /\ [Next]_vars => LInv'
<1> SUFFICES ASSUME LInv, [Next]_vars PROVE LInv'
  OBVIOUS
<1>1. CASE Receive \/ Close \/ Terminate \/ Done \/ UNCHANGED vars
  BY <1>1, SameLines DEF Receive, Close, Terminate, Done, vars, input
<1>2. CASE WriteStart \/ WriteMove \/ WriteEnd \/ WriteFails \/ WriteSignal
  BY <1>2, SameLines
     DEF WriteStart, WriteMove, WriteEnd, WriteFails, WriteSignal, WriteReturn, input
<1>3. CASE FlushBody \/ FlushEnd
  BY <1>3, SameLines DEF FlushBody, FlushEnd, input
<1>4. CASE Send
  BY <1>4, SendStep
<1>5. CASE ReadLine \/ RequestRead
  BY <1>5, ReadLineStep, RequestReadStep
<1>6. CASE ReadFails
  BY <1>6, ReadFailsStep
<1>7. CASE AnswerGet \/ AnswerCommand \/ AnswerOther
  BY <1>7, AnswerStep
<1>8. CASE LockGot \/ Woken \/ FinishGet \/ CommandRun
  BY <1>8, SameLines DEF LockGot, Woken, FinishGet, CommandRun, Respond, input
<1> QED
  BY <1>1, <1>2, <1>3, <1>4, <1>5, <1>6, <1>7, <1>8 DEF Next, Serve

\* readRequest and the header loop of Query::Query: for any number of tidy
\* requests, pipelined or not, a request is answered from its own lines and
\* from all of them.
THEOREM LinesCorrect == Spec => []LinesOfTheRequest
<1>1. LInv => LinesOfTheRequest
  <2> SUFFICES ASSUME LineInv, pc = "answer"
               PROVE  /\ \A k \in 1..Len(lines) : lines[k][1] = lines[1][1]
                      /\ \A k \in 1..Len(unread) : unread[k][1] # lines[1][1]
    BY DEF LInv, LinesOfTheRequest
  <2>1. /\ Len(lines) \in Nat \ {0} /\ Len(unread) \in Nat /\ StreamLen \in Nat /\ Gap = 1
        /\ StreamLen = Len(lines) + 1 + Len(unread) /\ sent \in Nat
        /\ \A k \in 1..Len(lines) :
              /\ Stream[k] = lines[k] /\ Stream[k] # Blank
              /\ lines[k] \in (1..sent) \X Kind /\ k \in 1..StreamLen
        /\ OneByOne(Stream, StreamLen, sent)
    BY LineTypes, EmptySeq DEF LineInv, StreamLen
  <2>2. 1 \in 1..Len(lines) /\ lines[1] \in (1..sent) \X Kind
    BY <2>1
  <2>3. ASSUME NEW k \in 1..Len(lines) PROVE lines[k][1] = lines[1][1]
    <3>1. 1 <= k /\ \A m \in 1..k : m \in 1..Len(lines)
      BY <2>1
    <3>2. Stream[1][1] = Stream[k][1]
      BY <2>1, <2>2, <3>1 DEF OneByOne, Together
    <3> QED
      BY <2>1, <2>2, <3>2
  <2>4. ASSUME NEW k \in 1..Len(unread) PROVE unread[k][1] # lines[1][1]
    <3>1. CASE unread[k] = Blank
      BY <2>2, <3>1 DEF Blank
    <3>2. CASE unread[k] # Blank
      <4> DEFINE b == Len(lines) + 1
                 d == Len(lines) + Gap + k
      <4>1. d \in 1..StreamLen /\ Stream[d] = unread[k] /\ Stream[b] = Blank
        BY LineTypes
      <4>2. 1 < b /\ b < d /\ b \in 1..StreamLen /\ 1 \in 1..StreamLen
        BY <2>1
      <4>3. Stream[1] = lines[1] /\ Stream[1] # Blank
        BY <2>1, <2>2
      <4> HIDE DEF b, d
      <4>4. Stream[1][1] < Stream[d][1] /\ Stream[d] \in (1..sent) \X Kind
        BY <2>1, <3>2, <4>1, <4>2, <4>3 DEF OneByOne, Apart, Numbered
      <4> QED
        BY <2>2, <4>1, <4>3, <4>4
    <3> QED
      BY <3>1, <3>2
  <2> QED
    BY <2>3, <2>4
<1>2. Spec => []LInv
  BY InitLInv, LInvStep, PTL DEF Spec
<1> QED
  BY <1>1, <1>2, PTL
-----------------------------------------------------------------------------
(* The tables of downtimes and comments that the queries of the clients go  *)
(* through: the recursive mutexes are counted right, and the row a query is *)
(* at exists.                                                               *)

\* Beside the types: which table a row, a column or an event belongs to,
\* where it matters.
PlaceInv ==
    /\ \A c \in Clients :
        /\ place[c] \in {"lock", "next"} => query[c].table \in Tables
        /\ place[c] \in Visiting => row[c].table = query[c].table
        /\ place[c] \in {"lock_list", "list", "find", "member", "lock_print", "print_list"}
            => column[c] \in Tables
    /\ corePc # "idle" => event # NoEvent

TablesInv ==
    /\ TablesTypeOK
    /\ PlaceInv
    /\ LockedAsOften
    /\ RowsAlive

USE DEF Tables, Threads

-----------------------------------------------------------------------------
LEMMA QueryFields ==
    ASSUME NEW q \in Queries
    PROVE  q.table \in Tables \cup {"hosts"}
  BY QueriesAssumption

\* An event that is one has a table.
LEMMA EventFields ==
    ASSUME TablesTypeOK, event # NoEvent
    PROVE  /\ event.table \in Tables
           /\ event.id \in Ids
           /\ event.kind \in {"add", "delete"}
  BY DEF TablesTypeOK

LEMMA InitTablesInv == TablesInit => TablesInv
<1> SUFFICES ASSUME TablesInit PROVE TablesInv
  OBVIOUS
<1>1. TablesTypeOK
  BY QueriesAssumption DEF TablesInit, TablesTypeOK, Places, Pointer, Null, NoEvent
<1>2. PlaceInv
  BY DEF TablesInit, PlaceInv, Visiting
<1>3. LockedAsOften
  BY ThreadsAssumption
     DEF TablesInit, LockedAsOften, InCore, InTable, InColumn, Visiting, Core, Nobody
<1>4. RowsAlive
  BY DEF TablesInit, RowsAlive, Visiting
<1> QED
  BY <1>1, <1>2, <1>3, <1>4 DEF TablesInv

-----------------------------------------------------------------------------
\* The core's steps: an entry goes only while the core holds the table, and
\* then no client is at a row of it.
LEMMA CoreEventStep == TablesInv /\ CoreEvent => TablesInv'
<1> SUFFICES ASSUME TablesInv, CoreEvent PROVE TablesInv'
  OBVIOUS
<1> USE DEF TablesInv
<1>1. TablesTypeOK'
  BY DEF CoreEvent, TablesTypeOK
<1>2. PlaceInv'
  BY DEF CoreEvent, PlaceInv, Visiting, NoEvent
<1>3. LockedAsOften'
  BY DEF CoreEvent, LockedAsOften, InCore, InTable, InColumn, Visiting
<1>4. RowsAlive'
  BY DEF CoreEvent, RowsAlive, Visiting, Live
<1> QED
  BY <1>1, <1>2, <1>3, <1>4

LEMMA CoreLockStep == TablesInv /\ CoreLock => TablesInv'
<1> SUFFICES ASSUME TablesInv, CoreLock PROVE TablesInv'
  OBVIOUS
<1> USE DEF TablesInv
<1>1. event.table \in Tables
  BY EventFields DEF CoreLock, PlaceInv
<1>2. TablesTypeOK'
  BY <1>1 DEF CoreLock, Lock, TablesTypeOK
<1>3. PlaceInv'
  BY DEF CoreLock, PlaceInv, Visiting
<1>4. LockedAsOften'
  BY <1>1, ThreadsAssumption
     DEF CoreLock, Lock, TablesTypeOK, LockedAsOften, InCore, InTable, InColumn, Visiting,
         Core, Nobody
<1>5. RowsAlive'
  BY DEF CoreLock, RowsAlive, Visiting, Live
<1> QED
  BY <1>2, <1>3, <1>4, <1>5

LEMMA CoreUnlockStep == TablesInv /\ CoreUnlock => TablesInv'
<1> SUFFICES ASSUME TablesInv, CoreUnlock PROVE TablesInv'
  OBVIOUS
<1> USE DEF TablesInv
<1>1. /\ event.table \in Tables /\ event.id \in Ids
      /\ owner[event.table] = Core
  BY EventFields DEF CoreUnlock, PlaceInv, LockedAsOften, InCore
<1>2. TablesTypeOK'
  <2>1. entries' \in [Tables -> [Ids -> Nat]] /\ made' \in Nat
    BY <1>1 DEF CoreUnlock, TablesTypeOK
  <2>2. depth[event.table] # 0
    BY <1>1, ThreadsAssumption DEF LockedAsOften, Core, Nobody
  <2>3. depth' \in [Tables -> Nat]
    <3>1. depth' = [depth EXCEPT ![event.table] = @ - 1]
      BY DEF CoreUnlock, Unlock
    <3>2. depth[event.table] - 1 \in Nat
      BY <1>1, <2>2 DEF TablesTypeOK
    <3> QED
      BY <3>1, <3>2 DEF TablesTypeOK
  <2>4. owner' \in [Tables -> Threads \cup {Nobody}]
    <3>1. owner' = [owner EXCEPT ![event.table] =
                        IF depth[event.table] = 1 THEN Nobody ELSE @]
      BY DEF CoreUnlock, Unlock
    <3> QED
      BY <3>1, <1>1 DEF TablesTypeOK
  <2>5. /\ event' = NoEvent /\ corePc' = "idle"
        /\ UNCHANGED <<known, query, place, row, done, sorter, column, found>>
    BY DEF CoreUnlock
  <2> QED
    BY <2>1, <2>3, <2>4, <2>5 DEF TablesTypeOK
<1>3. PlaceInv'
  BY DEF CoreUnlock, PlaceInv, Visiting
<1>4. LockedAsOften'
  BY <1>1, ThreadsAssumption
     DEF CoreUnlock, Unlock, TablesTypeOK, LockedAsOften, InCore, InTable, InColumn, Visiting,
         Core, Nobody
<1>5. RowsAlive'
  <2> SUFFICES ASSUME NEW c \in Clients, place[c] \in Visiting, row[c] # Null
               PROVE  entries'[row[c].table][row[c].id] = row[c].allocation
    BY DEF CoreUnlock, RowsAlive, Live
  <2>1. row[c] \in Pointer /\ row[c].table = query[c].table
    BY DEF TablesTypeOK, PlaceInv
  <2>2. row[c].table # event.table
    BY <1>1, <2>1, ThreadsAssumption DEF LockedAsOften, InTable, Core, Nobody, Pointer
  <2>3. entries'[row[c].table] = entries[row[c].table]
    BY <1>1, <2>1, <2>2 DEF CoreUnlock, TablesTypeOK, Pointer
  <2> QED
    BY <2>3 DEF RowsAlive, Live
<1> QED
  BY <1>2, <1>3, <1>4, <1>5

-----------------------------------------------------------------------------
\* A client's steps.
USE DEF Goto, corevars

LEMMA StartStep == \A c \in Clients : TablesInv /\ Start(c) => TablesInv'
<1> SUFFICES ASSUME NEW c \in Clients, TablesInv, Start(c) PROVE TablesInv'
  OBVIOUS
<1> USE DEF TablesInv
<1>2. TablesTypeOK'
  BY ThreadsAssumption DEF Start, TablesTypeOK, Places, Null
<1>3. PlaceInv'
  BY QueryFields DEF Start, PlaceInv, TablesTypeOK, Visiting, Null
<1>4. LockedAsOften'
  BY QueryFields, ThreadsAssumption
     DEF Start, TablesTypeOK, LockedAsOften, InCore, InTable, InColumn, Visiting, Core, Nobody
<1>5. RowsAlive'
  BY ThreadsAssumption DEF Start, RowsAlive, TablesTypeOK, Visiting, Live, Null
<1> QED
  BY <1>2, <1>3, <1>4, <1>5

LEMMA LockTableStep == \A c \in Clients : TablesInv /\ LockTable(c) => TablesInv'
<1> SUFFICES ASSUME NEW c \in Clients, TablesInv, LockTable(c) PROVE TablesInv'
  OBVIOUS
<1> USE DEF TablesInv
<1>1. query[c].table \in Tables
  BY DEF LockTable, PlaceInv
<1>2. TablesTypeOK'
  BY <1>1, ThreadsAssumption DEF LockTable, Lock, TablesTypeOK, Places
<1>3. PlaceInv'
  BY <1>1, QueryFields DEF LockTable, Lock, PlaceInv, TablesTypeOK, Visiting
<1>4. LockedAsOften'
  BY <1>1, QueryFields, ThreadsAssumption
     DEF LockTable, Lock, TablesTypeOK, LockedAsOften, InCore, InTable, InColumn, Visiting,
         Core, Nobody
<1>5. RowsAlive'
  BY <1>1, ThreadsAssumption DEF LockTable, Lock, RowsAlive, TablesTypeOK, Visiting, Live
<1> QED
  BY <1>2, <1>3, <1>4, <1>5

LEMMA NextRowStep == \A c \in Clients : TablesInv /\ NextRow(c) => TablesInv'
<1> SUFFICES ASSUME NEW c \in Clients, TablesInv, NextRow(c) PROVE TablesInv'
  OBVIOUS
<1> USE DEF TablesInv
<1>1. query[c].table \in Tables
  BY DEF NextRow, PlaceInv
<1>2. TablesTypeOK'
  BY <1>1, ThreadsAssumption DEF NextRow, TablesTypeOK, Places, PointerTo, Present, Pointer
<1>3. PlaceInv'
  BY <1>1, QueryFields
     DEF NextRow, PlaceInv, TablesTypeOK, Visiting, PointerTo, Present, Pointer
<1>4. LockedAsOften'
  BY <1>1, QueryFields, ThreadsAssumption
     DEF NextRow, TablesTypeOK, LockedAsOften, InCore, InTable, InColumn, Visiting, Core, Nobody
<1>5. RowsAlive'
  BY <1>1, ThreadsAssumption
     DEF NextRow, RowsAlive, TablesTypeOK, Visiting, Live, PointerTo, Present, Pointer
<1> QED
  BY <1>2, <1>3, <1>4, <1>5

LEMMA BeginColumnStep == \A c \in Clients : TablesInv /\ BeginColumn(c) => TablesInv'
<1> SUFFICES ASSUME NEW c \in Clients, TablesInv, BeginColumn(c) PROVE TablesInv'
  OBVIOUS
<1> USE DEF TablesInv
<1>2. TablesTypeOK'
  BY ThreadsAssumption DEF BeginColumn, TablesTypeOK, Places
<1>3. PlaceInv'
  BY QueryFields DEF BeginColumn, PlaceInv, TablesTypeOK, Visiting
<1>4. LockedAsOften'
  BY QueryFields, ThreadsAssumption
     DEF BeginColumn, TablesTypeOK, LockedAsOften, InCore, InTable, InColumn, Visiting, Core,
         Nobody
<1>5. RowsAlive'
  BY ThreadsAssumption DEF BeginColumn, RowsAlive, TablesTypeOK, Visiting, Live
<1> QED
  BY <1>2, <1>3, <1>4, <1>5

LEMMA EnterListStep == \A c \in Clients : TablesInv /\ EnterList(c) => TablesInv'
<1> SUFFICES ASSUME NEW c \in Clients, TablesInv, EnterList(c) PROVE TablesInv'
  OBVIOUS
<1> USE DEF TablesInv
<1>1. column[c] \in Tables
  BY DEF EnterList, PlaceInv
<1>2. TablesTypeOK'
  BY <1>1, ThreadsAssumption DEF EnterList, Lock, TablesTypeOK, Places
<1>3. PlaceInv'
  BY <1>1, QueryFields DEF EnterList, Lock, PlaceInv, TablesTypeOK, Visiting
<1>4. LockedAsOften'
  BY <1>1, QueryFields, ThreadsAssumption
     DEF EnterList, Lock, TablesTypeOK, LockedAsOften, InCore, InTable, InColumn, Visiting,
         Core, Nobody
<1>5. RowsAlive'
  BY <1>1, ThreadsAssumption DEF EnterList, Lock, RowsAlive, TablesTypeOK, Visiting, Live
<1> QED
  BY <1>2, <1>3, <1>4, <1>5

LEMMA LeaveListStep == \A c \in Clients : TablesInv /\ LeaveList(c) => TablesInv'
<1> SUFFICES ASSUME NEW c \in Clients, TablesInv, LeaveList(c) PROVE TablesInv'
  OBVIOUS
<1> USE DEF TablesInv
<1>1. /\ column[c] \in Tables
      /\ owner[column[c]] = c
      /\ depth[column[c]] # 0
  BY ThreadsAssumption DEF LeaveList, PlaceInv, LockedAsOften, InColumn, Nobody
<1>2. TablesTypeOK'
  BY <1>1, ThreadsAssumption DEF LeaveList, Unlock, TablesTypeOK, Places
<1>3. PlaceInv'
  BY <1>1, QueryFields DEF LeaveList, Unlock, PlaceInv, TablesTypeOK, Visiting
<1>4. LockedAsOften'
  <2>1. PICK u \in Tables : u = column[c]
    BY <1>1
  <2>2. /\ corePc' = corePc /\ event' = event /\ query' = query
        /\ \A d \in Clients : d # c => place'[d] = place[d] /\ column'[d] = column[d]
        /\ place[c] \in {"list", "print_list"} /\ column'[c] = "none"
        /\ place'[c] = IF place[c] = "list" THEN "row" ELSE "print"
    BY <1>1 DEF LeaveList, Goto, TablesTypeOK, corevars
  <2>3. /\ owner[u] = c /\ depth[u] \in Nat /\ depth[u] # 0
        /\ \A t \in Tables : t # u => owner'[t] = owner[t] /\ depth'[t] = depth[t]
        /\ owner'[u] = IF depth[u] = 1 THEN Nobody ELSE c
        /\ depth'[u] = depth[u] - 1
    BY <1>1, <2>1 DEF LeaveList, Unlock, TablesTypeOK
  <2>4. \A t \in Tables : InCore(t)' <=> InCore(t)
    BY <2>2 DEF InCore
  <2>5. ASSUME NEW t \in Tables
        PROVE  /\ \A d \in Clients : d # c =>
                    /\ InTable(d, t)' <=> InTable(d, t)
                    /\ InColumn(d, t)' <=> InColumn(d, t)
               /\ InTable(c, t)' <=> InTable(c, t)
               /\ ~InColumn(c, t)' /\ (InColumn(c, t) <=> t = u)
    <3>1. column[c] \in Tables /\ "none" \notin Tables
      BY <1>1, ThreadsAssumption
    <3> QED
      BY <2>1, <2>2, <3>1 DEF InTable, InColumn, Visiting
  <2>6. c # Core /\ c # Nobody /\ Core # Nobody
    BY ThreadsAssumption DEF Core, Nobody
  <2>7. ASSUME NEW t \in Tables
        PROVE  /\ owner'[t] = Nobody <=> depth'[t] = 0
               /\ owner'[t] = Core <=> InCore(t)'
               /\ owner'[t] = Core => depth'[t] = 1
    <3>1. CASE t = u
      BY <2>3, <2>4, <2>6, <3>1 DEF LockedAsOften
    <3>2. CASE t # u
      BY <2>3, <2>4, <3>2 DEF LockedAsOften
    <3> QED
      BY <3>1, <3>2
  <2>8. ASSUME NEW t \in Tables, NEW d \in Clients
        PROVE  /\ InTable(d, t)' \/ InColumn(d, t)' => owner'[t] = d
               /\ owner'[t] = d =>
                    depth'[t] = (IF InTable(d, t)' THEN 1 ELSE 0) + (IF InColumn(d, t)' THEN 1 ELSE 0)
    <3>1. d # Nobody
      BY ThreadsAssumption DEF Nobody
    <3>2. /\ InTable(d, t) \/ InColumn(d, t) => owner[t] = d
          /\ owner[t] = d =>
                depth[t] = (IF InTable(d, t) THEN 1 ELSE 0) + (IF InColumn(d, t) THEN 1 ELSE 0)
      BY DEF LockedAsOften
    <3>3. CASE d = c /\ t = u
      BY <2>3, <2>5, <2>6, <3>2, <3>3
    <3>4. CASE d = c /\ t # u
      BY <2>3, <2>5, <3>2, <3>4
    <3>5. CASE d # c /\ t = u
      BY <2>3, <2>5, <3>1, <3>2, <3>5
    <3>6. CASE d # c /\ t # u
      BY <2>3, <2>5, <3>2, <3>6
    <3> QED
      BY <3>3, <3>4, <3>5, <3>6
  <2> QED
    BY <2>7, <2>8 DEF LockedAsOften
<1>5. RowsAlive'
  BY <1>1, ThreadsAssumption DEF LeaveList, Unlock, RowsAlive, TablesTypeOK, Visiting, Live
<1> QED
  BY <1>2, <1>3, <1>4, <1>5

LEMMA FindEntryStep == \A c \in Clients : TablesInv /\ FindEntry(c) => TablesInv'
<1> SUFFICES ASSUME NEW c \in Clients, TablesInv, FindEntry(c) PROVE TablesInv'
  OBVIOUS
<1> USE DEF TablesInv
<1>1. column[c] \in Tables
  BY DEF FindEntry, PlaceInv
<1>2. TablesTypeOK'
  BY <1>1, ThreadsAssumption DEF FindEntry, TablesTypeOK, Places, PointerTo, Pointer
<1>3. PlaceInv'
  BY <1>1, QueryFields DEF FindEntry, PlaceInv, TablesTypeOK, Visiting, PointerTo, Pointer
<1>4. LockedAsOften'
  BY <1>1, QueryFields, ThreadsAssumption
     DEF FindEntry, TablesTypeOK, LockedAsOften, InCore, InTable, InColumn, Visiting, Core,
         Nobody
<1>5. RowsAlive'
  BY <1>1, ThreadsAssumption
     DEF FindEntry, RowsAlive, TablesTypeOK, Visiting, Live, PointerTo, Pointer
<1> QED
  BY <1>2, <1>3, <1>4, <1>5

LEMMA UseEntryStep == \A c \in Clients : TablesInv /\ UseEntry(c) => TablesInv'
<1> SUFFICES ASSUME NEW c \in Clients, TablesInv, UseEntry(c) PROVE TablesInv'
  OBVIOUS
<1> USE DEF TablesInv
<1>2. TablesTypeOK'
  BY ThreadsAssumption DEF UseEntry, TablesTypeOK, Places
<1>3. PlaceInv'
  BY QueryFields DEF UseEntry, PlaceInv, TablesTypeOK, Visiting
<1>4. LockedAsOften'
  BY QueryFields, ThreadsAssumption
     DEF UseEntry, TablesTypeOK, LockedAsOften, InCore, InTable, InColumn, Visiting, Core,
         Nobody
<1>5. RowsAlive'
  BY ThreadsAssumption DEF UseEntry, RowsAlive, TablesTypeOK, Visiting, Live
<1> QED
  BY <1>2, <1>3, <1>4, <1>5

LEMMA RowDoneStep == \A c \in Clients : TablesInv /\ RowDone(c) => TablesInv'
<1> SUFFICES ASSUME NEW c \in Clients, TablesInv, RowDone(c) PROVE TablesInv'
  OBVIOUS
<1> USE DEF TablesInv
<1>2. TablesTypeOK'
  BY ThreadsAssumption DEF RowDone, TablesTypeOK, Places, Null
<1>3. PlaceInv'
  BY QueryFields DEF RowDone, PlaceInv, TablesTypeOK, Visiting, Null
<1>4. LockedAsOften'
  BY QueryFields, ThreadsAssumption
     DEF RowDone, TablesTypeOK, LockedAsOften, InCore, InTable, InColumn, Visiting, Core, Nobody
<1>5. RowsAlive'
  BY ThreadsAssumption DEF RowDone, RowsAlive, TablesTypeOK, Visiting, Live, Null
<1> QED
  BY <1>2, <1>3, <1>4, <1>5

LEMMA UnlockTableStep == \A c \in Clients : TablesInv /\ UnlockTable(c) => TablesInv'
<1> SUFFICES ASSUME NEW c \in Clients, TablesInv, UnlockTable(c) PROVE TablesInv'
  OBVIOUS
<1> USE DEF TablesInv
<1>1. /\ query[c].table \in Tables
      /\ owner[query[c].table] = c
      /\ depth[query[c].table] # 0
  BY ThreadsAssumption DEF UnlockTable, PlaceInv, LockedAsOften, InTable, Nobody
<1>2. TablesTypeOK'
  BY <1>1, ThreadsAssumption DEF UnlockTable, Unlock, TablesTypeOK, Places
<1>3. PlaceInv'
  BY <1>1, QueryFields DEF UnlockTable, Unlock, PlaceInv, TablesTypeOK, Visiting
<1>4. LockedAsOften'
  BY <1>1, QueryFields, ThreadsAssumption
     DEF UnlockTable, Unlock, TablesTypeOK, LockedAsOften, InCore, InTable, InColumn,
         Visiting, Core, Nobody
<1>5. RowsAlive'
  BY <1>1, ThreadsAssumption DEF UnlockTable, Unlock, RowsAlive, TablesTypeOK, Visiting, Live
<1> QED
  BY <1>2, <1>3, <1>4, <1>5

LEMMA FinishRowStep == \A c \in Clients : TablesInv /\ FinishRow(c) => TablesInv'
<1> SUFFICES ASSUME NEW c \in Clients, TablesInv, FinishRow(c) PROVE TablesInv'
  OBVIOUS
<1> USE DEF TablesInv
<1>2. TablesTypeOK'
  BY ThreadsAssumption DEF FinishRow, TablesTypeOK, Places
<1>3. PlaceInv'
  BY QueryFields DEF FinishRow, PlaceInv, TablesTypeOK, Visiting
<1>4. LockedAsOften'
  BY QueryFields, ThreadsAssumption
     DEF FinishRow, TablesTypeOK, LockedAsOften, InCore, InTable, InColumn, Visiting, Core,
         Nobody
<1>5. RowsAlive'
  BY ThreadsAssumption DEF FinishRow, RowsAlive, TablesTypeOK, Visiting, Live
<1> QED
  BY <1>2, <1>3, <1>4, <1>5

LEMMA PrintedStep == \A c \in Clients : TablesInv /\ Printed(c) => TablesInv'
<1> SUFFICES ASSUME NEW c \in Clients, TablesInv, Printed(c) PROVE TablesInv'
  OBVIOUS
<1> USE DEF TablesInv
<1>2. TablesTypeOK'
  BY ThreadsAssumption DEF Printed, TablesTypeOK, Places
<1>3. PlaceInv'
  BY QueryFields DEF Printed, PlaceInv, TablesTypeOK, Visiting
<1>4. LockedAsOften'
  BY QueryFields, ThreadsAssumption
     DEF Printed, TablesTypeOK, LockedAsOften, InCore, InTable, InColumn, Visiting, Core, Nobody
<1>5. RowsAlive'
  BY ThreadsAssumption DEF Printed, RowsAlive, TablesTypeOK, Visiting, Live
<1> QED
  BY <1>2, <1>3, <1>4, <1>5

LEMMA FinishedStep == \A c \in Clients : TablesInv /\ Finished(c) => TablesInv'
<1> SUFFICES ASSUME NEW c \in Clients, TablesInv, Finished(c) PROVE TablesInv'
  OBVIOUS
<1> USE DEF TablesInv
<1>2. TablesTypeOK'
  BY ThreadsAssumption DEF Finished, TablesTypeOK, Places
<1>3. PlaceInv'
  BY QueryFields DEF Finished, PlaceInv, TablesTypeOK, Visiting
<1>4. LockedAsOften'
  BY QueryFields, ThreadsAssumption
     DEF Finished, TablesTypeOK, LockedAsOften, InCore, InTable, InColumn, Visiting, Core,
         Nobody
<1>5. RowsAlive'
  BY ThreadsAssumption DEF Finished, RowsAlive, TablesTypeOK, Visiting, Live
<1> QED
  BY <1>2, <1>3, <1>4, <1>5

-----------------------------------------------------------------------------
LEMMA StutterStep == TablesInv /\ UNCHANGED tableVars => TablesInv'
  BY
     DEF tableVars, corevars, TablesInv, TablesTypeOK, PlaceInv, LockedAsOften, RowsAlive, InCore,
         InTable,
         InColumn, Visiting, Live

LEMMA NextIInv == TablesInv /\ [TablesNext]_tableVars => TablesInv'
  BY CoreEventStep, CoreLockStep, CoreUnlockStep, StartStep, LockTableStep,
     NextRowStep, BeginColumnStep, EnterListStep, LeaveListStep,
     FindEntryStep, UseEntryStep, RowDoneStep, UnlockTableStep,
     FinishRowStep, PrintedStep, FinishedStep,
     StutterStep DEF TablesNext, CoreStep, Proceed

\* The inductive invariant holds in every state of the specification.
THEOREM TablesInvHolds == TablesSpec => []TablesInv
<1>1. TablesInit => TablesInv
  BY InitTablesInv
<1>2. TablesInv /\ [TablesNext]_tableVars => TablesInv'
  BY NextIInv
<1> QED
  BY <1>1, <1>2, PTL DEF TablesSpec

\* Every variable keeps its type: the depth of a mutex never goes below zero.
THEOREM TablesTypesCorrect == TablesSpec => []TablesTypeOK
<1>1. TablesInv => TablesTypeOK
  BY DEF TablesInv
<1> QED
  BY <1>1, TablesInvHolds, PTL

\* A recursive mutex is held as often as its owner is in a section that locks
\* it: every way out of a column or a table gives back what it took.
THEOREM LocksCounted == TablesSpec => []LockedAsOften
<1>1. TablesInv => LockedAsOften
  BY DEF TablesInv
<1> QED
  BY <1>1, TablesInvHolds, PTL

\* The entry a query is at while it goes through its table was not deleted.
THEOREM RowsExist == TablesSpec => []RowsAlive
<1>1. TablesInv => RowsAlive
  BY DEF TablesInv
<1> QED
  BY <1>1, TablesInvHolds, PTL

-----------------------------------------------------------------------------
(* The tables and the core's own lists, when every ID fits an unsigned int  *)

LEMMA SmallModulo ==
    ASSUME NEW i \in Nat, NEW n \in Nat, i < n
    PROVE  i % n = i
  OBVIOUS

\* While a callback is under way, its table differs from the core's list in
\* the entry it is about, and in nothing else.
MirrorInv ==
    /\ \A t \in Tables, id \in Ids :
        \/ entries[t][id] # 0 <=> id \in known[t]
        \/ corePc # "idle" /\ event.table = t /\ event.id = id
    /\ corePc # "idle" => (event.kind = "add" <=> event.id \in known[event.table])

LEMMA MirrorInit == TablesInit => MirrorInv
  BY DEF TablesInit, MirrorInv

LEMMA MirrorEvent == TablesInv /\ MirrorInv /\ CoreEvent => MirrorInv'
  BY DEF TablesInv, TablesTypeOK, MirrorInv, CoreEvent

LEMMA MirrorUnlock ==
    ASSUME \A id \in Ids : id < UnsignedSpan, TablesInv, MirrorInv, CoreUnlock
    PROVE  MirrorInv'
<1>1. event.table \in Tables /\ event.id \in Ids /\ event.kind \in {"add", "delete"}
  BY EventFields DEF TablesInv, PlaceInv, CoreUnlock
<1>2. event.id % UnsignedSpan = event.id
  <2>1. event.id \in Nat /\ UnsignedSpan \in Nat /\ event.id < UnsignedSpan
    BY <1>1, QueriesAssumption
  <2> QED
    BY <2>1, SmallModulo
<1>3. CASE event.kind = "add"
  BY <1>1, <1>3 DEF TablesInv, TablesTypeOK, MirrorInv, CoreUnlock
<1>4. CASE event.kind = "delete"
  BY <1>1, <1>2, <1>4 DEF TablesInv, TablesTypeOK, MirrorInv, CoreUnlock
<1> QED
  BY <1>1, <1>3, <1>4

\* No other step changes the tables or the core's lists.
LEMMA MirrorStep ==
    ASSUME \A id \in Ids : id < UnsignedSpan, TablesInv, MirrorInv, [TablesNext]_tableVars
    PROVE  MirrorInv'
<1>1. CASE CoreEvent
  BY <1>1, MirrorEvent
<1>2. CASE CoreUnlock
  BY <1>2, MirrorUnlock
<1>3. CASE CoreLock
  BY <1>3 DEF CoreLock, MirrorInv
<1>4. CASE \E c \in Clients : Start(c) \/ NextRow(c) \/ BeginColumn(c) \/ Proceed(c)
  <2>1. UNCHANGED <<entries, event, corePc, known>>
    BY <1>4
    DEF Proceed, Start, LockTable, NextRow, BeginColumn, EnterList, LeaveList,
                FindEntry, UseEntry, RowDone, UnlockTable, FinishRow, Printed, Finished
  <2> QED
    BY <2>1 DEF MirrorInv
<1>5. CASE UNCHANGED tableVars
  BY <1>5 DEF tableVars, MirrorInv
<1> QED
  BY <1>1, <1>2, <1>3, <1>4, <1>5 DEF TablesNext, CoreStep

\* Between two callbacks the tables hold exactly the core's downtimes and
\* comments, if no ID is truncated by remove(unsigned).
THEOREM TablesMirrorCore ==
    ASSUME \A id \in Ids : id < UnsignedSpan
    PROVE  TablesSpec => []MirrorsCore
<1>1. TablesInit => MirrorInv
  BY MirrorInit
<1>2. TablesInv /\ MirrorInv /\ [TablesNext]_tableVars => MirrorInv'
  BY MirrorStep
<1>3. TablesInv /\ MirrorInv => MirrorsCore
  BY DEF TablesInv, TablesTypeOK, MirrorInv, MirrorsCore, Present
<1> QED
  BY <1>1, <1>2, <1>3, TablesInvHolds, PTL DEF TablesSpec
=============================================================================
