----------------------------- MODULE HttpProofs ------------------------------
(***************************************************************************)
(* Http, for any number of requests, pieces of a response and all times: a *)
(* response goes to the request it was sent for, but over a connection on  *)
(* which a request was answered with something still to come, and          *)
(* m_queue.front() exists when it is used.                                 *)
(*                                                                         *)
(* OwnAnswers rests on OneUnderWay, which does not stand by itself: it     *)
(* must be known that a new connection starts with nothing (Fresh), and    *)
(* that an answer either leaves nothing under way or is noted in spoilt.   *)
(***************************************************************************)
EXTENDS Http, SequenceTheorems, TLAPS

Asked == [to : Requests, sent : 0..(MaxPieces - 1)]

Types ==
  /\ queue \in Seq(Requests) /\ counter \in 0..MaxRequests
  /\ response \in Seq(Pieces) /\ wire \in Seq(Pieces)
  /\ inbox \in Seq(Asked)
  /\ answer \in [Requests -> Answers]

\* Without a connection nothing is under way, and a new one starts with nothing.
Fresh ==
  /\ net # "Connected" => wire = <<>> /\ inbox = <<>>
  /\ net \in {"Connecting", "TLSHandshaking"} => response = <<>> /\ ~written /\ queue # <<>>

Inv == Types /\ Fresh /\ FrontExists /\ OneUnderWay

\* What of the invariant is about a connection, from its variables only.
LEMMA NothingUnderWay ==
  ASSUME net' # "Connected" \/ spoilt' \/ (response' = <<>> /\ wire' = <<>> /\ inbox' = <<>>)
  PROVE  OneUnderWay'
BY DEF OneUnderWay

\* What has arrived after k pieces (m_response, m_response.added_to_tail).
LEMMA ReceivedPieces ==
  ASSUME Types, NEW k \in 0..Len(wire)
  PROVE  /\ Received(k) \in Seq(Pieces)
         /\ Len(Received(k)) = Len(response) + k
         /\ \A i \in 1..Len(Received(k)) :
              \/ i \in 1..Len(response) /\ Received(k)[i] = response[i]
              \/ \E j \in 1..k : j = i - Len(response) /\ Received(k)[i] = wire[j]
<1>1. /\ SubSeq(wire, 1, k) \in Seq(Pieces)
      /\ Len(SubSeq(wire, 1, k)) = k
      /\ \A i \in 1..k : SubSeq(wire, 1, k)[i] = wire[i]
  <2>1. \A i \in 1..k : wire[i] \in Pieces
    BY DEF Types
  <2>2. k \in Int /\ 1 \in Int
    OBVIOUS
  <2> QED
    BY <2>1, <2>2, SubSeqProperties
<1>2. response \in Seq(Pieces)
  BY DEF Types
<1> DEFINE t == SubSeq(wire, 1, k)
<1>3. Received(k) = response \o t /\ t \in Seq(Pieces) /\ Len(t) = k /\ \A i \in 1..k : t[i] = wire[i]
  BY <1>1 DEF Received
<1> HIDE DEF t
<1>4. /\ Received(k) \in Seq(Pieces) /\ Len(Received(k)) = Len(response) + k
      /\ \A i \in 1..Len(response) + k :
           Received(k)[i] = IF i <= Len(response) THEN response[i] ELSE t[i - Len(response)]
  <2>1. /\ response \o t \in Seq(Pieces) /\ Len(response \o t) = Len(response) + Len(t)
        /\ \A i \in 1..Len(response) + Len(t) :
             (response \o t)[i] = IF i <= Len(response) THEN response[i] ELSE t[i - Len(response)]
    BY <1>2, <1>3, ConcatProperties
  <2> QED
    BY <1>3, <2>1
<1>5. Len(response) \in Nat /\ k \in Nat
  BY <1>2
<1>6. ASSUME NEW i \in 1..Len(Received(k))
      PROVE  \/ i \in 1..Len(response) /\ Received(k)[i] = response[i]
             \/ \E j \in 1..k : j = i - Len(response) /\ Received(k)[i] = wire[j]
  <2>1. CASE i <= Len(response)
    BY <1>4, <1>5, <2>1
  <2>2. CASE i > Len(response)
    <3>1. i - Len(response) \in 1..k /\ Received(k)[i] = t[i - Len(response)]
      BY <1>4, <1>5, <2>2
    <3> QED
      BY <1>3, <3>1
  <2> QED
    BY <1>5, <2>1, <2>2
<1> QED
  BY <1>4, <1>6

\* What is still under way after k pieces.
LEMMA ArriveLeaves ==
  ASSUME Types, NEW k \in 0..Len(wire), Arrive(k)
  PROVE  /\ wire' \in Seq(Pieces)
         /\ Len(wire') = Len(wire) - k
         /\ \A i \in 1..Len(wire') : wire'[i] = wire[k + i]
<1>1. \A i \in (k + 1)..Len(wire) : wire[i] \in Pieces
  BY DEF Types
<1>2. k + 1 \in Int /\ Len(wire) \in Int /\ Len(wire) >= k
  BY DEF Types
<1> QED
  BY <1>1, <1>2, SubSeqProperties DEF Arrive

\* Nothing is left of a buffer without length.
LEMMA LengthZero == \A S : \A s \in Seq(S) : Len(s) = 0 => s = <<>>
BY EmptySeq

\* While nothing was left over, what has arrived is for the first request.
LEMMA ReceivedForFront ==
  ASSUME Types, OneUnderWay, net = "Connected", ~spoilt, NEW k \in 0..Len(wire)
  PROVE  /\ \A i \in 1..Len(Received(k)) : Received(k)[i].to = Front
         /\ Received(k) # <<>> => Head(Received(k)).to = Front
<1>1. \A i \in 1..Len(Received(k)) : Received(k)[i].to = Front
  <2> SUFFICES ASSUME NEW i \in 1..Len(Received(k)) PROVE Received(k)[i].to = Front
    OBVIOUS
  <2>1. /\ \A j \in 1..Len(response) : response[j].to = Front
        /\ \A j \in 1..Len(wire) : wire[j].to = Front
    BY DEF OneUnderWay
  <2>2. \/ i \in 1..Len(response) /\ Received(k)[i] = response[i]
        \/ \E j \in 1..k : j = i - Len(response) /\ Received(k)[i] = wire[j]
    BY ReceivedPieces
  <2>3. 1..k \subseteq 1..Len(wire)
    BY DEF Types
  <2> QED
    BY <2>1, <2>2, <2>3
<1>2. Received(k) # <<>> => Head(Received(k)) = Received(k)[1] /\ 1 \in 1..Len(Received(k))
  BY ReceivedPieces
<1> QED
  BY <1>1, <1>2

\* An answer changes that of the first request only.
LEMMA AnswerTypes ==
  ASSUME Types, queue # <<>>, NEW a \in Answers, Answer(a)
  PROVE  /\ queue' \in Seq(Requests) /\ answer' \in [Requests -> Answers]
         /\ \A r \in Requests : answer'[r] = IF r = Front THEN a ELSE answer[r]
         /\ response' = <<>> /\ started' = Never /\ counter' = counter
<1>1. Front \in Requests /\ Tail(queue) \in Seq(Requests)
  BY DEF Types, Front
<1>2. answer' \in [Requests -> Answers]
  BY <1>1 DEF Types, Answer
<1>3. \A r \in Requests : answer'[r] = IF r = Front THEN a ELSE answer[r]
  BY <1>1 DEF Types, Answer
<1> QED
  BY <1>1, <1>2, <1>3 DEF Answer

\* An answer that leaves nothing under way, or notes what it leaves, restores all of
\* the invariant.
LEMMA AnswerClears ==
  ASSUME Inv, queue # <<>>, NEW a \in Answers, Answer(a),
         wire' \in Seq(Pieces), inbox' \in Seq(Asked),
         \/ net' = "Connected" /\ (spoilt' \/ (wire' = <<>> /\ inbox' = <<>>))
         \/ Down
  PROVE  Inv'
<1>1. /\ queue' \in Seq(Requests) /\ answer' \in [Requests -> Answers]
      /\ response' = <<>> /\ started' = Never /\ counter' = counter
  BY AnswerTypes DEF Inv
<1>2. Types'
  BY <1>1, EmptySeq DEF Inv, Types
<1>3. OneUnderWay'
  BY <1>1, NothingUnderWay DEF Down
<1>4. Fresh'
  BY DEF Fresh, Down
<1> QED
  BY <1>1, <1>2, <1>3, <1>4 DEF Inv, FrontExists

\* What convert_to_http_message makes of pieces: an answer, and no other response than
\* the one they are of.
LEMMA OutcomeKinds ==
  ASSUME NEW pieces \in Seq(Pieces), NEW eof \in BOOLEAN, NEW a \in Outcome(pieces, eof)
  PROVE  /\ a \in Answers
         /\ a \in Requests => pieces # <<>> /\ a = Head(pieces).to
<1>1. pieces # <<>> => Head(pieces).to \in Requests
  <2> SUFFICES ASSUME pieces # <<>> PROVE Head(pieces).to \in Requests
    OBVIOUS
  <2>1. Head(pieces) \in Pieces
    OBVIOUS
  <2> QED
    BY <2>1 DEF Pieces
<1>2. /\ NoAnswer \in Answers /\ NoAnswer \notin Requests
      /\ Failed \in Answers /\ Failed \notin Requests
      /\ Requests \subseteq Answers
  BY BoundsAssumption DEF NoAnswer, Failed, TimedOut, GivenUp, Answers, Requests
<1>3. a \in {NoAnswer, Failed} \/ (pieces # <<>> /\ a = Head(pieces).to)
  BY DEF Outcome
<1> QED
  BY <1>1, <1>2, <1>3

\* Reading keeps the invariant (tick_inputs), and takes a response for the first
\* request's only if nothing was left over on the connection.
LEMMA ReadSteps ==
  ASSUME Inv, ReadPart \/ ReadAnswer \/ ReadEnd \/ TimeOut
  PROVE  /\ Inv'
         /\ \A r \in Requests :
              answer'[r] # answer[r] /\ answer'[r] \in Requests => answer'[r] = r \/ spoilt
<1> DEFINE Own == \A r \in Requests :
                    answer'[r] # answer[r] /\ answer'[r] \in Requests => answer'[r] = r \/ spoilt
<1> USE DEF Inv
<1>1. Reading /\ queue # <<>> /\ net = "Connected" /\ Types /\ OneUnderWay
  BY DEF ReadPart, ReadAnswer, ReadEnd, TimeOut, Reading, FrontExists
<1>2. ASSUME NEW a \in Answers, Answer(a), a \in Requests => a = Front \/ spoilt PROVE Own
  BY <1>1, <1>2, AnswerTypes
<1>3. CASE ReadPart
  <2>1. PICK k \in 1..Len(wire) : Arrive(k) /\ response' = Received(k)
    BY <1>3 DEF ReadPart
  <2>2. k \in 0..Len(wire) /\ Received(k) \in Seq(Pieces)
    <3>1. k \in 0..Len(wire)
      BY <1>1, <2>1 DEF Types
    <3> QED
      BY <1>1, <3>1, ReceivedPieces
  <2>3. /\ wire' \in Seq(Pieces) /\ Len(wire') = Len(wire) - k
        /\ \A i \in 1..Len(wire') : wire'[i] = wire[k + i]
    BY <1>1, <2>1, <2>2, ArriveLeaves
  <2>4. UNCHANGED <<queue, written, started, counter, inbox, net, answer, spoilt>>
    BY <1>3, <2>1 DEF ReadPart, Arrive, historyVars
  <2>5. Types'
    BY <1>1, <2>1, <2>2, <2>3, <2>4 DEF Types
  <2>6. OneUnderWay'
    <3> SUFFICES ASSUME ~spoilt PROVE OneUnderWay'
      BY <2>4 DEF OneUnderWay
    <3>1. written
      BY <1>1, <2>1 DEF OneUnderWay
    <3>2. \A i \in 1..Len(wire') : wire'[i].to = Front
      <4>1. \A i \in 1..Len(wire) : wire[i].to = Front
        BY <1>1 DEF OneUnderWay
      <4>2. \A i \in 1..Len(wire') : k + i \in 1..Len(wire)
        BY <2>2, <2>3 DEF Types
      <4> QED
        BY <2>3, <4>1, <4>2
    <3>3. \A i \in 1..Len(response') : response'[i].to = Front
      BY <1>1, <2>1, <2>2, ReceivedForFront
    <3>4. Front' = Front
      BY <2>4 DEF Front
    <3> QED
      BY <1>1, <2>4, <3>1, <3>2, <3>3, <3>4 DEF OneUnderWay
  <2> QED
    BY <1>1, <2>4, <2>5, <2>6 DEF Fresh, FrontExists
<1>4. CASE ReadAnswer
  <2>1. PICK k \in 1..Len(wire) : /\ \E a \in Outcome(Received(k), FALSE) \ {NoAnswer} : Answer(a)
                                 /\ Arrive(k)
    BY <1>4 DEF ReadAnswer
  <2>2. k \in 0..Len(wire) /\ Received(k) \in Seq(Pieces)
    <3>1. k \in 0..Len(wire)
      BY <1>1, <2>1 DEF Types
    <3> QED
      BY <1>1, <3>1, ReceivedPieces
  <2>3. PICK a \in Outcome(Received(k), FALSE) : Answer(a)
    BY <2>1
  <2>4. a \in Answers /\ (a \in Requests => Received(k) # <<>> /\ a = Head(Received(k)).to)
    BY <2>2, <2>3, OutcomeKinds
  <2>5. wire' \in Seq(Pieces) /\ inbox' \in Seq(Asked) /\ net' = "Connected"
    <3>1. wire' \in Seq(Pieces)
      BY <1>1, <2>1, <2>2, ArriveLeaves
    <3> QED
      BY <1>1, <2>1, <3>1 DEF Arrive, Types
  <2>6. spoilt' \/ (wire' = <<>> /\ inbox' = <<>>)
    BY <1>4, <2>1 DEF ReadAnswer, Spoils, Arrive
  <2>7. Inv'
    BY <1>1, <2>3, <2>4, <2>5, <2>6, AnswerClears
  <2>8. a \in Requests => a = Front \/ spoilt
    BY <1>1, <2>2, <2>4, ReceivedForFront
  <2> QED
    BY <1>2, <2>3, <2>4, <2>7, <2>8
<1>5. CASE ReadEnd
  <2>1. PICK a \in Outcome(response, TRUE) : Answer(a)
    BY <1>5 DEF ReadEnd
  <2>2. a \in Answers /\ (a \in Requests => response # <<>> /\ a = Head(response).to)
    BY <1>1, <2>1, OutcomeKinds DEF Types
  <2>3. Down /\ wire' \in Seq(Pieces) /\ inbox' \in Seq(Asked)
    BY <1>5, EmptySeq DEF ReadEnd, Down
  <2>4. Inv'
    BY <1>1, <2>1, <2>2, <2>3, AnswerClears
  <2>5. a \in Requests => a = Front \/ spoilt
    <3>1. Received(0) = response /\ 0 \in 0..Len(wire)
      BY <1>1, SubSeqEmpty, ConcatEmptySeq DEF Received, Types
    <3> QED
      BY <1>1, <2>2, <3>1, ReceivedForFront
  <2> QED
    BY <1>2, <2>1, <2>2, <2>4, <2>5
<1>6. CASE TimeOut
  <2>1. TimedOut \in Answers /\ TimedOut \notin Requests
    BY BoundsAssumption DEF Answers, TimedOut, Requests
  <2>2. Answer(TimedOut) /\ Down /\ wire' \in Seq(Pieces) /\ inbox' \in Seq(Asked)
    BY <1>6, EmptySeq DEF TimeOut, Down
  <2>3. Inv'
    BY <1>1, <2>1, <2>2, AnswerClears
  <2> QED
    BY <1>2, <2>1, <2>2, <2>3
<1> QED
  BY <1>3, <1>4, <1>5, <1>6

\* So does the server's sending of a piece.
LEMMA RespondStep == ASSUME Inv, Respond PROVE Inv'
<1> USE DEF Inv
<1> DEFINE r == Head(inbox)
<1>1. /\ Types /\ net = "Connected" /\ inbox # <<>>
      /\ UNCHANGED <<queue, written, started, counter, response, net, answer, spoilt>>
  BY DEF Respond, connectorVars, historyVars
<1>2. /\ r = inbox[1] /\ 1 \in 1..Len(inbox)
      /\ r \in Asked /\ r.to \in Requests /\ r.sent \in 0..(MaxPieces - 1)
  <2>1. inbox \in Seq(Asked)
    BY <1>1 DEF Types
  <2>2. r = inbox[1] /\ 1 \in 1..Len(inbox)
    BY <1>1, <2>1
  <2>3. r \in Asked
    BY <2>1, <2>2
  <2> QED
    BY <2>2, <2>3 DEF Asked
<1>3. PICK kind \in {"part", "cut", "whole", "open", "bad"} :
        /\ wire' = Append(wire, [to |-> r.to, kind |-> kind, first |-> r.sent = 0])
        /\ \/ r.sent + 1 < MaxPieces /\ inbox' = [inbox EXCEPT ![1].sent = @ + 1]
           \/ inbox' = Tail(inbox)
  BY DEF Respond
<1> DEFINE piece == [to |-> r.to, kind |-> kind, first |-> r.sent = 0]
<1>4. piece \in Pieces /\ piece.to = r.to
  BY <1>2 DEF Pieces
<1>5. /\ wire' \in Seq(Pieces) /\ Len(wire') = Len(wire) + 1
      /\ \A i \in 1..Len(wire) : wire'[i] = wire[i]
      /\ wire'[Len(wire) + 1] = piece
  <2> HIDE DEF piece
  <2>1. wire' = Append(wire, piece) /\ wire \in Seq(Pieces)
    BY <1>1, <1>3 DEF Types, piece
  <2> QED
    BY <1>4, <2>1, AppendProperties
<1>6. \A i \in 1..Len(wire') : i \in 1..Len(wire) \/ i = Len(wire) + 1
  BY <1>5
<1>7. /\ inbox' \in Seq(Asked)
      /\ \/ Len(inbox') = Len(inbox) /\ inbox'[1].to = r.to
         \/ Len(inbox') = Len(inbox) - 1
  <2>0. inbox \in Seq(Asked)
    BY <1>1 DEF Types
  <2>1. CASE r.sent + 1 < MaxPieces /\ inbox' = [inbox EXCEPT ![1].sent = @ + 1]
    <3> DEFINE more == [r EXCEPT !.sent = @ + 1]
    <3>1. more \in Asked /\ more.to = r.to
      BY <1>2, <2>1, BoundsAssumption DEF Asked
    <3>2. inbox' = [inbox EXCEPT ![1] = more]
      BY <1>2, <2>1
    <3> HIDE DEF more, r
    <3>3. /\ [inbox EXCEPT ![1] = more] \in Seq(Asked)
          /\ Len([inbox EXCEPT ![1] = more]) = Len(inbox)
          /\ [inbox EXCEPT ![1] = more][1] = more
      BY <1>2, <2>0, <3>1, ExceptSeq
    <3> QED
      BY <3>1, <3>2, <3>3
  <2>2. CASE inbox' = Tail(inbox)
    BY <1>1, <2>0, <2>2, HeadTailProperties
  <2> QED
    BY <1>3, <2>1, <2>2
<1>8. Types'
  BY <1>1, <1>5, <1>7 DEF Types
<1>9. OneUnderWay'
  <2> SUFFICES ASSUME ~spoilt PROVE OneUnderWay'
    BY <1>1 DEF OneUnderWay
  <2>1. /\ queue # <<>> /\ r.to = Front /\ written /\ Len(inbox) = 1
        /\ \A i \in 1..Len(wire) : wire[i].to = Front
        /\ \A i \in 1..Len(response) : response[i].to = Front
    <3>1. Len(inbox) \in Nat
      BY <1>1 DEF Types
    <3>2. /\ Len(inbox) <= 1
          /\ \A i \in 1..Len(inbox) : queue # <<>> /\ inbox[i].to = Front /\ written
          /\ \A i \in 1..Len(wire) : wire[i].to = Front
          /\ \A i \in 1..Len(response) : response[i].to = Front
      BY <1>1 DEF OneUnderWay
    <3>3. inbox[1].to = r.to /\ 1 \in 1..Len(inbox)
      BY <1>2
    <3>4. Len(inbox) = 1
      <4> DEFINE n == Len(inbox)
      <4>1. n \in Nat /\ n <= 1 /\ 1 \in 1..n
        BY <3>1, <3>2, <3>3
      <4> HIDE DEF n
      <4>2. n = 1
        BY <4>1
      <4> QED
        BY <4>2 DEF n
    <3>5. queue # <<>> /\ inbox[1].to = Front /\ written
      BY <3>2, <3>3
    <3>6. r.to = Front
      BY <3>3, <3>5
    <3> QED
      BY <3>2, <3>4, <3>5, <3>6
  <2>2. \A i \in 1..Len(wire') : wire'[i].to = Front
    BY <1>4, <1>5, <1>6, <2>1
  <2>3. Len(inbox') <= 1 /\ \A i \in 1..Len(inbox') : inbox'[i].to = Front
    <3>1. CASE Len(inbox') = Len(inbox) - 1
      BY <2>1, <3>1
    <3>2. CASE Len(inbox') = Len(inbox) /\ inbox'[1].to = r.to
      BY <2>1, <3>2
    <3> QED
      BY <1>7, <3>1, <3>2
  <2> QED
    BY <1>1, <2>1, <2>2, <2>3 DEF OneUnderWay, Front
<1> QED
  BY <1>1, <1>8, <1>9 DEF Fresh, FrontExists

\* A step that changes nothing of this.
LEMMA QuietStep ==
  ASSUME Inv, UNCHANGED <<queue, written, counter, response, wire, inbox, net, spoilt, answer>>,
         started' = Never <=> started = Never
  PROVE  Inv'
BY DEF Inv, Types, Fresh, FrontExists, OneUnderWay, Front

\* A step that closes the socket.
LEMMA DownStep ==
  ASSUME Inv, Down, UNCHANGED <<counter, answer>>,
         queue' \in Seq(Requests), response' \in Seq(Pieces)
  PROVE  Inv'
<1>1. Types'
  BY EmptySeq DEF Inv, Types, Down
<1>2. OneUnderWay'
  BY NothingUnderWay DEF Down
<1> QED
  BY <1>1, <1>2 DEF Inv, Fresh, FrontExists, Down

\* A step that brings the connection up.
LEMMA UpStep ==
  ASSUME Inv, net \in {"Connecting", "TLSHandshaking"}, net' \in {"TLSHandshaking", "Connected"},
         UNCHANGED <<queue, written, counter, response, wire, inbox, answer>>
  PROVE  Inv'
<1>1. response = <<>> /\ wire = <<>> /\ inbox = <<>> /\ ~written /\ queue # <<>>
  BY DEF Inv, Fresh
<1>2. OneUnderWay'
  BY <1>1, NothingUnderWay
<1> QED
  BY <1>1, <1>2 DEF Inv, Types, Fresh, FrontExists

\* The first request is written (tick_outputs).
LEMMA SendStep == ASSUME Inv, Send PROVE Inv'
<1> USE DEF Inv
<1>1. /\ net = "Connected" /\ queue # <<>> /\ written' = TRUE /\ queue \in Seq(Requests)
      /\ UNCHANGED <<queue, counter, response, answer>>
  BY DEF Send, Types
<1>2. CASE UNCHANGED netVars
  BY <1>1, <1>2 DEF netVars, lineVars, Types, Fresh, FrontExists, OneUnderWay, Front
<1>3. CASE Down
  BY <1>1, <1>3, DownStep DEF Types
<1>4. CASE /\ ~written
           /\ inbox' = Append(inbox, [to |-> Front, sent |-> 0])
           /\ UNCHANGED <<net, wire, gone, spoilt>>
  <2> DEFINE asked == [to |-> Front, sent |-> 0]
  <2>1. asked \in Asked /\ asked.to = Front
    BY <1>1, BoundsAssumption DEF Front, Asked
  <2> HIDE DEF asked
  <2>2. inbox \in Seq(Asked) /\ inbox' = Append(inbox, asked)
    BY <1>4 DEF Types, asked
  <2>3. inbox' \in Seq(Asked) /\ Len(inbox') = Len(inbox) + 1 /\ inbox'[Len(inbox) + 1] = asked
    BY <2>1, <2>2, AppendProperties
  <2>4. OneUnderWay'
    <3> SUFFICES ASSUME ~spoilt PROVE OneUnderWay'
      BY <1>4 DEF OneUnderWay
    <3>1. Len(inbox) = 0 /\ Len(wire) = 0 /\ Len(response) = 0
      BY <1>1, <1>4 DEF OneUnderWay, Types
    <3>2. Len(inbox') = 1 /\ inbox'[1].to = Front /\ Len(wire') = 0 /\ Len(response') = 0
      BY <1>1, <1>4, <2>1, <2>3, <3>1
    <3>3. Front' = Front
      BY <1>1 DEF Front
    <3> QED
      BY <1>1, <3>2, <3>3 DEF OneUnderWay
  <2> QED
    BY <1>1, <1>4, <2>3, <2>4 DEF Types, Fresh, FrontExists
<1> QED
  BY <1>2, <1>3, <1>4 DEF Send, netVars, lineVars

\* A request is queued behind the others (queue_request).
LEMMA RequestStep == ASSUME Inv, Request PROVE Inv'
<1> USE DEF Inv
<1>1. /\ UNCHANGED <<written, started, response, net, wire, inbox, spoilt, answer>>
      /\ counter' \in Requests /\ queue' = Append(queue, counter')
  BY BoundsAssumption DEF Request, Types, Requests, netVars, lineVars, historyVars
<1>2. queue \in Seq(Requests)
  BY DEF Types
<1>3. queue' \in Seq(Requests) /\ queue' # <<>>
  BY <1>1, <1>2, AppendProperties
<1>4. queue # <<>> => Head(queue') = Head(queue)
  <2>1. queue # <<>> => 1 \in 1..Len(queue)
    BY <1>2
  <2>2. 1 \in 1..Len(queue) => queue'[1] = queue[1]
    BY <1>1, <1>2, AppendProperties
  <2>3. Head(queue') = queue'[1] /\ Head(queue) = queue[1]
    OBVIOUS
  <2> QED
    BY <2>1, <2>2, <2>3
<1>5. OneUnderWay'
  BY <1>1, <1>3, <1>4 DEF OneUnderWay, Front
<1>6. FrontExists'
  BY <1>1, <1>3 DEF FrontExists
<1>7. Types'
  <2>1. counter' \in 0..MaxRequests
    BY <1>1, BoundsAssumption DEF Requests
  <2> QED
    BY <1>1, <1>3, <2>1 DEF Types
<1>8. Fresh'
  BY <1>1, <1>3 DEF Fresh, Request
<1> QED
  BY <1>5, <1>6, <1>7, <1>8

\* Every step of ConnectorHttp, the script and the server keeps the invariant.
LEMMA InvStep == Inv /\ [Next]_vars => Inv'
<1> SUFFICES ASSUME Inv, [Next]_vars PROVE Inv'
  OBVIOUS
<1> USE DEF connectorVars, netVars, lineVars, historyVars
<1>1. CASE NothingToRead \/ ReadNothing \/ NothingToDo \/ Forget \/ ServerDrops
  BY <1>1, QuietStep DEF NothingToRead, ReadNothing, NothingToDo, Forget, ServerDrops
<1>2. ASSUME NEW b \in BOOLEAN, SetEnabled(b) PROVE Inv'
  BY <1>2, QuietStep DEF SetEnabled
<1>3. CASE Sleep
  BY <1>3, QuietStep, BoundsAssumption DEF Sleep, Never
<1>4. CASE ReadPart \/ ReadAnswer \/ ReadEnd \/ TimeOut
  BY <1>4, ReadSteps
<1>5. CASE HandshakeInputs \/ HandshakeOutputs
  <2>1. CASE UNCHANGED netVars
    BY <1>5, <2>1, QuietStep DEF HandshakeInputs, HandshakeOutputs
  <2>2. CASE Down
    BY <1>5, <2>2, DownStep DEF HandshakeInputs, HandshakeOutputs, Inv, Types
  <2>3. CASE net = "TLSHandshaking" /\ net' = "Connected" /\ UNCHANGED lineVars
    BY <1>5, <2>3, UpStep DEF HandshakeInputs, HandshakeOutputs
  <2> QED
    BY <1>5, <2>1, <2>2, <2>3 DEF HandshakeInputs, HandshakeOutputs, Handshake
<1>6. CASE NetAnswers
  <2>1. CASE Down
    BY <1>6, <2>1, DownStep DEF NetAnswers, Inv, Types
  <2> QED
    BY <1>6, <2>1, UpStep DEF NetAnswers
<1>7. CASE Connect
  <2>1. /\ net = "Disconnected" /\ queue # <<>> /\ net' = "Connecting"
        /\ response' = <<>> /\ ~written'
        /\ UNCHANGED <<queue, counter, wire, inbox, answer>>
    BY <1>7 DEF Connect, MayConnect
  <2>2. OneUnderWay'
    BY <2>1, NothingUnderWay
  <2> QED
    BY <2>1, <2>2, EmptySeq DEF Inv, Types, Fresh, FrontExists
<1>8. CASE GiveUp
  <2>1. /\ net = "Disconnected" /\ queue' = <<>> /\ response' = <<>>
        /\ UNCHANGED <<net, wire, inbox>>
    BY <1>8 DEF GiveUp, MayConnect
  <2>2. counter' \in 0..MaxRequests
    BY <1>8, BoundsAssumption DEF GiveUp, Inv, Types
  <2>3. GivenUp \in Answers /\ GivenUp \notin Requests
    BY BoundsAssumption DEF Answers, GivenUp, Requests
  <2>4. answer' \in [Requests -> Answers]
    BY <1>8, <2>3 DEF GiveUp, Inv, Types
  <2>5. OneUnderWay'
    BY <2>1, NothingUnderWay
  <2> QED
    BY <2>1, <2>2, <2>4, <2>5, EmptySeq DEF Inv, Types, Fresh, FrontExists
<1>9. CASE Close \/ Shutdown
  BY <1>9, DownStep, EmptySeq DEF Close, Shutdown, Inv, Types
<1>10. CASE Send
  BY <1>10, SendStep
<1>11. CASE Request
  BY <1>11, RequestStep
<1>12. CASE Respond
  BY <1>12, RespondStep
<1>13. CASE UNCHANGED vars
  BY <1>13, QuietStep DEF vars
<1> QED
  BY <1>1, <1>2, <1>3, <1>4, <1>5, <1>6, <1>7, <1>8, <1>9, <1>10, <1>11, <1>12, <1>13
     DEF Next, Tick, Script, Network

\* The invariant holds in every state of ConnectorHttp.
THEOREM Invariance == Spec => []Inv
<1>1. Init => Inv
  <2> SUFFICES ASSUME Init PROVE Inv
    OBVIOUS
  <2>1. NoAnswer \in Answers /\ NoAnswer \notin Requests
    BY BoundsAssumption DEF Answers, NoAnswer, Requests
  <2> QED
    BY <2>1, EmptySeq, BoundsAssumption
       DEF Init, Inv, Types, Fresh, FrontExists, OneUnderWay
<1> QED
  BY <1>1, InvStep, PTL DEF Spec

\* The other variables, which the invariant does not need.
Rest ==
  /\ pc \in {"inputs", "outputs", "sleep", "ended"} /\ written \in BOOLEAN /\ enabled \in BOOLEAN
  /\ started \in {Never} \cup 0..(Timeout + 1) /\ wait \in 0..Longest /\ attempts \in 0..MaxAttempts
  /\ promised \subseteq Requests /\ tried \subseteq Requests
  /\ net \in {"Disconnected", "Connecting", "TLSHandshaking", "Connected"} /\ gone \in BOOLEAN /\ spoilt \in BOOLEAN

LEMMA WaitsFit == Longest \in Nat /\ {0, AnswerWait, RetryWait, PauseWait} \subseteq 0..Longest
BY BoundsAssumption DEF Longest

\* An answer sets back what it belongs to.
LEMMA AnswerRest ==
  ASSUME Rest, NEW a, Answer(a)
  PROVE  /\ written' = FALSE /\ started' = Never /\ wait' \in 0..Longest /\ enabled' = enabled
         /\ promised' \subseteq Requests /\ tried' = tried
BY WaitsFit DEF Rest, Answer

LEMMA RestStep == ASSUME Inv, Rest, [Next]_vars PROVE Rest'
<1>0. TRUE \in BOOLEAN /\ FALSE \in BOOLEAN /\ 0 \in 0..MaxAttempts
  BY BoundsAssumption
<1>1. CASE NothingToRead \/ ReadNothing \/ NothingToDo \/ UNCHANGED vars
  BY <1>1 DEF NothingToRead, ReadNothing, NothingToDo, Rest, vars, connectorVars, netVars, lineVars, historyVars
<1>2. CASE HandshakeInputs \/ HandshakeOutputs
  BY <1>0, <1>2 DEF HandshakeInputs, HandshakeOutputs, Handshake, Down, Rest, lineVars, connectorVars, netVars, lineVars, historyVars
<1>3. CASE ReadPart
  BY <1>0, <1>3 DEF ReadPart, Arrive, Rest, historyVars
<1>4. CASE ReadAnswer
  BY <1>0, <1>4, AnswerRest DEF ReadAnswer, Arrive, Spoils, Rest
<1>5. CASE ReadEnd
  BY <1>0, <1>5, AnswerRest DEF ReadEnd, Down, Rest
<1>6. CASE TimeOut
  BY <1>0, <1>6, AnswerRest DEF TimeOut, Down, Rest
<1>7. CASE Connect
  <2>1. attempts' \in 0..MaxAttempts
    BY <1>7, BoundsAssumption DEF Connect, MayTry, Rest
  <2> QED
    BY <1>0, <1>7, <2>1, WaitsFit DEF Connect, Rest, lineVars, historyVars
<1>8. CASE GiveUp
  <2>1. promised' \subseteq Requests
    BY <1>8, BoundsAssumption DEF GiveUp, Inv, Types, Requests
  <2> QED
    BY <1>0, <1>8, <2>1, WaitsFit DEF GiveUp, Rest, netVars, lineVars
<1>9. CASE Close
  BY <1>0, <1>9 DEF Close, Down, Rest, lineVars, connectorVars, historyVars
<1>10. CASE Send
  <2>1. Front \in Requests
    BY <1>10 DEF Send, Front, Inv, Types
  <2>2. started' \in {Never} \cup 0..(Timeout + 1)
    BY <1>10, BoundsAssumption DEF Send, Rest
  <2> QED
    BY <1>0, <1>10, <2>1, <2>2 DEF Send, Down, Rest, netVars, lineVars
<1>11. CASE Sleep
  <2>1. started' \in {Never} \cup 0..(Timeout + 1)
    BY <1>11, BoundsAssumption DEF Sleep, Rest
  <2>2. wait' \in 0..Longest
    BY <1>11, WaitsFit DEF Sleep, Rest
  <2> QED
    BY <1>11, <2>1, <2>2 DEF Sleep, Rest, netVars, lineVars, historyVars
<1>12. CASE Shutdown
  BY <1>0, <1>12 DEF Shutdown, Down, Rest, historyVars
<1>13. CASE Request
  <2>1. promised' \subseteq Requests
    BY <1>13, BoundsAssumption DEF Request, Rest, Inv, Types, Requests
  <2> QED
    BY <1>13, <2>1 DEF Request, Rest, netVars, lineVars, historyVars
<1>14. CASE Forget \/ \E b \in BOOLEAN : SetEnabled(b)
  BY <1>14 DEF Forget, SetEnabled, Rest, netVars, lineVars, historyVars
<1>15. CASE NetAnswers
  BY <1>0, <1>15 DEF NetAnswers, Down, Rest, lineVars, connectorVars, historyVars
<1>16. CASE Respond \/ ServerDrops
  BY <1>0, <1>16 DEF Respond, ServerDrops, Rest, lineVars, connectorVars, historyVars
<1> QED
  BY <1>1, <1>2, <1>3, <1>4, <1>5, <1>6, <1>7, <1>8, <1>9, <1>10, <1>11, <1>12, <1>13, <1>14, <1>15, <1>16
     DEF Next, Tick, Script, Network

\* Every variable of the connector keeps its type.
THEOREM TypeCorrect == Spec => []TypeOK
<1>1. Init => Rest
  <2>1. 0 \in 0..Longest /\ 0 \in 0..MaxAttempts /\ {TRUE, FALSE} \subseteq BOOLEAN
    BY WaitsFit, BoundsAssumption
  <2> QED
    BY <2>1 DEF Init, Rest
<1>2. Inv /\ Rest => TypeOK
  BY DEF Inv, Types, Rest, TypeOK, Asked
<1>3. Inv /\ Rest /\ [Next]_vars => Rest'
  BY RestStep
<1> QED
  BY <1>1, <1>2, <1>3, Invariance, PTL DEF Spec

\* Every response that answers a request was sent for that request, unless something
\* was left over on the connection (tick_inputs, m_response).
THEOREM ResponsesMatch == Spec => OwnAnswers
<1> DEFINE Own == \A r \in Requests :
                    answer'[r] # answer[r] /\ answer'[r] \in Requests => answer'[r] = r \/ spoilt
<1>1. Inv /\ [Next]_vars => [Own]_vars
  <2> SUFFICES ASSUME Inv, Next PROVE Own
    OBVIOUS
  <2>1. CASE ReadPart \/ ReadAnswer \/ ReadEnd \/ TimeOut
    BY <2>1, ReadSteps
  <2>2. CASE GiveUp
    <3>1. \A r \in Requests : answer'[r] = IF r \in promised THEN GivenUp ELSE answer[r]
      BY <2>2 DEF GiveUp
    <3>2. GivenUp \notin Requests
      BY BoundsAssumption DEF GivenUp, Requests
    <3> QED
      BY <3>1, <3>2
  <2>3. ASSUME UNCHANGED answer PROVE Own
    BY <2>3
  <2>4. CASE NothingToRead \/ HandshakeInputs \/ ReadNothing \/ NothingToDo \/ HandshakeOutputs
    BY <2>3, <2>4
       DEF NothingToRead, HandshakeInputs, ReadNothing, NothingToDo, HandshakeOutputs, historyVars
  <2>5. CASE Connect \/ Close \/ Send \/ Sleep \/ Shutdown
    BY <2>3, <2>5 DEF Connect, Close, Send, Sleep, Shutdown, historyVars
  <2>6. CASE Script \/ Network
    BY <2>3, <2>6
       DEF Script, Request, Forget, SetEnabled, Network, NetAnswers, Respond, ServerDrops, historyVars
  <2> QED
    BY <2>1, <2>2, <2>4, <2>5, <2>6 DEF Next, Tick
<1> QED
  BY <1>1, Invariance, PTL DEF Spec, OwnAnswers

\* Everything under way belongs to the first request of the queue, until something is
\* left over of a response on the connection.
THEOREM NothingMixed == Spec => []OneUnderWay
BY Invariance, PTL DEF Inv

\* m_queue.front() is used only while there is a request.
THEOREM FrontIsThere == Spec => []FrontExists
BY Invariance, PTL DEF Inv

-----------------------------------------------------------------------------
(* Answers.                                                                *)

\* Requests are queued in the order of their numbers, none of them again; what is queued
\* or has a promise has no answer yet, nor has what was not asked for.
Once ==
  /\ \A i, j \in 1..Len(queue) : i < j => queue[i] < queue[j]
  /\ \A i \in 1..Len(queue) : queue[i] <= counter /\ answer[queue[i]] = NoAnswer
  /\ \A r \in promised : r <= counter /\ answer[r] = NoAnswer
  /\ \A r \in Requests : r > counter => answer[r] = NoAnswer

\* An answer goes to the first request, which leaves the queue and the promises.
LEMMA AnswerOnce ==
  ASSUME Types, Rest, Once, queue # <<>>, NEW a, Answer(a)
  PROVE  /\ Once'
         /\ \A r \in Requests : answer[r] # NoAnswer => answer'[r] = answer[r]
<1> DEFINE f == Front
<1>1. /\ queue \in Seq(Requests) /\ Len(queue) \in Nat \ {0} /\ f = queue[1] /\ f \in Requests
      /\ answer[f] = NoAnswer /\ f <= counter /\ counter \in Nat
  BY BoundsAssumption DEF Types, Front, Once
<1>2. /\ Len(queue') = Len(queue) - 1
      /\ \A i \in 1..Len(queue') : i + 1 \in 2..Len(queue) /\ i + 1 \in 1..Len(queue) /\ queue'[i] = queue[i + 1]
  <2>1. queue' = Tail(queue)
    BY DEF Answer
  <2> QED
    BY <1>1, <2>1
<1>3. \A r \in Requests : r # f => answer'[r] = answer[r]
  BY <1>1 DEF Answer, Types
<1> HIDE DEF f
<1>4. \A i \in 2..Len(queue) : f < queue[i] /\ queue[i] \in Requests
  BY <1>1 DEF Once
<1>5. \A i, j \in 1..Len(queue') : i < j => queue'[i] < queue'[j]
  BY <1>2 DEF Once
<1>6. \A i \in 1..Len(queue') : queue'[i] <= counter /\ answer'[queue'[i]] = NoAnswer
  <2> SUFFICES ASSUME NEW i \in 1..Len(queue')
               PROVE  queue'[i] <= counter /\ answer'[queue'[i]] = NoAnswer
    OBVIOUS
  <2>1. queue'[i] \in Requests /\ f < queue'[i]
    BY <1>2, <1>4
  <2>2. queue'[i] # f
    BY <1>1, <2>1 DEF Requests
  <2> QED
    BY <1>2, <1>3, <2>1, <2>2 DEF Once
<1>7. \A r \in promised' : r <= counter /\ answer'[r] = NoAnswer
  <2>1. promised' = promised \ {f} /\ promised \subseteq Requests
    BY DEF Answer, f, Rest
  <2> QED
    BY <1>3, <2>1 DEF Once
<1>8. \A r \in Requests : r > counter => answer'[r] = NoAnswer
  <2> SUFFICES ASSUME NEW r \in Requests, r > counter PROVE answer'[r] = NoAnswer
    OBVIOUS
  <2>1. r # f
    BY <1>1 DEF Requests
  <2> QED
    BY <1>3, <2>1 DEF Once
<1>9. counter' = counter
  BY DEF Answer
<1> QED
  BY <1>1, <1>3, <1>5, <1>6, <1>7, <1>8, <1>9 DEF Once

\* Every step keeps that, and the answers there are.
LEMMA OnceStep ==
  ASSUME Inv, Rest, Once, [Next]_vars
  PROVE  /\ Once'
         /\ \A r \in Requests : answer[r] # NoAnswer => answer'[r] = answer[r]
<1> USE DEF connectorVars, netVars, historyVars
<1>1. Types /\ queue \in Seq(Requests) /\ counter \in 0..MaxRequests /\ answer \in [Requests -> Answers]
  BY DEF Inv, Types
<1>2. ASSUME UNCHANGED <<queue, answer, counter>>, promised' \subseteq promised
      PROVE  /\ Once'
             /\ \A r \in Requests : answer[r] # NoAnswer => answer'[r] = answer[r]
  BY <1>2 DEF Once
<1>3. ASSUME queue' = <<>>, UNCHANGED <<answer, counter, promised>>
      PROVE  /\ Once'
             /\ \A r \in Requests : answer[r] # NoAnswer => answer'[r] = answer[r]
  BY <1>3 DEF Once
<1>4. CASE NothingToRead \/ ReadNothing \/ NothingToDo \/ UNCHANGED vars
  BY <1>2, <1>4 DEF NothingToRead, ReadNothing, NothingToDo, vars
<1>5. CASE HandshakeInputs \/ HandshakeOutputs \/ ReadPart \/ Connect
  BY <1>2, <1>5 DEF HandshakeInputs, HandshakeOutputs, ReadPart, Connect
<1>6. CASE Close \/ Send \/ Sleep
  BY <1>2, <1>6 DEF Close, Send, Sleep
<1>7. CASE Forget \/ (\E b \in BOOLEAN : SetEnabled(b)) \/ Network
  BY <1>2, <1>7 DEF Forget, SetEnabled, Network, NetAnswers, Respond, ServerDrops
<1>8. CASE Shutdown
  BY <1>3, <1>8 DEF Shutdown
<1>9. CASE ReadAnswer \/ ReadEnd \/ TimeOut
  <2>1. queue # <<>>
    BY <1>9 DEF ReadAnswer, ReadEnd, TimeOut, Reading, Inv, FrontExists
  <2>2. PICK a : Answer(a)
    BY <1>9 DEF ReadAnswer, ReadEnd, TimeOut
  <2> QED
    BY <1>1, <2>1, <2>2, AnswerOnce
<1>10. CASE GiveUp
  <2>1. queue' = <<>>
    BY <1>10 DEF GiveUp
  <2>2. \A r \in Requests : answer'[r] = IF r \in promised THEN GivenUp ELSE answer[r]
    BY <1>10 DEF GiveUp
  <2>3. \A r \in Requests : answer[r] # NoAnswer => answer'[r] = answer[r]
    BY <2>2 DEF Once
  <2>4. \A r \in Requests : r > counter => answer'[r] = NoAnswer
    <3> SUFFICES ASSUME NEW r \in Requests, r > counter PROVE answer'[r] = NoAnswer
      OBVIOUS
    <3>1. r \notin promised
      BY <1>1 DEF Once, Requests
    <3> QED
      BY <2>2, <3>1 DEF Once
  <2>5. counter \in Nat /\ counter' \in Nat /\ counter <= counter'
    BY <1>1, <1>10, BoundsAssumption DEF GiveUp
  <2>6. \A r \in promised' : r <= counter' /\ answer'[r] = NoAnswer
    <3>1. CASE promised' = {}
      BY <3>1
    <3>2. CASE promised' # {}
      <4>1. counter < MaxRequests /\ counter' = counter + 1 /\ promised' = {counter'}
        BY <1>10, <3>2 DEF GiveUp
      <4>2. counter' \in Requests /\ counter' > counter
        BY <1>1, <4>1, BoundsAssumption DEF Requests
      <4> QED
        BY <2>4, <2>5, <4>1, <4>2
    <3> QED
      BY <3>1, <3>2
  <2>7. \A r \in Requests : r > counter' => answer'[r] = NoAnswer
    BY <2>4, <2>5 DEF Requests
  <2> QED
    BY <2>1, <2>3, <2>6, <2>7 DEF Once
<1>11. CASE Request
  <2> DEFINE c == counter + 1
  <2>1. /\ counter' = c /\ c \in Requests /\ c > counter /\ counter \in Nat
        /\ promised' = promised \cup {c} /\ queue' = Append(queue, c) /\ answer' = answer
    BY <1>1, <1>11, BoundsAssumption DEF Request, Requests
  <2> HIDE DEF c
  <2>2. /\ Len(queue) \in Nat /\ Len(queue') = Len(queue) + 1 /\ queue'[Len(queue) + 1] = c
        /\ \A i \in 1..Len(queue) : queue'[i] = queue[i] /\ queue[i] \in Requests
    BY <1>1, <2>1
  <2>3. answer[c] = NoAnswer
    BY <2>1 DEF Once
  <2>4. \A i \in 1..Len(queue') : i = Len(queue) + 1 \/ i \in 1..Len(queue)
    BY <2>2
  <2>5. \A i \in 1..Len(queue) : queue[i] <= counter /\ queue[i] < c
    BY <2>1, <2>2 DEF Once, Requests
  <2>6. \A i, j \in 1..Len(queue') : i < j => queue'[i] < queue'[j]
    <3> SUFFICES ASSUME NEW i \in 1..Len(queue'), NEW j \in 1..Len(queue'), i < j
                 PROVE  queue'[i] < queue'[j]
      OBVIOUS
    <3>1. i \in 1..Len(queue)
      BY <2>2
    <3>2. CASE j = Len(queue) + 1
      BY <2>2, <2>5, <3>1, <3>2
    <3>3. CASE j \in 1..Len(queue)
      BY <2>2, <3>1, <3>3 DEF Once
    <3> QED
      BY <2>4, <3>2, <3>3
  <2>7. \A i \in 1..Len(queue') : queue'[i] <= c /\ answer[queue'[i]] = NoAnswer
    <3> SUFFICES ASSUME NEW i \in 1..Len(queue') PROVE queue'[i] <= c /\ answer[queue'[i]] = NoAnswer
      OBVIOUS
    <3>1. CASE i = Len(queue) + 1
      BY <2>1, <2>2, <2>3, <3>1 DEF Requests
    <3>2. CASE i \in 1..Len(queue)
      BY <2>1, <2>2, <2>5, <3>2 DEF Once, Requests
    <3> QED
      BY <2>4, <3>1, <3>2
  <2>8. \A r \in promised' : r <= c /\ answer[r] = NoAnswer
    BY <2>1, <2>3 DEF Once, Requests, Rest
  <2>9. \A r \in Requests : r > c => answer[r] = NoAnswer
    BY <2>1 DEF Once, Requests
  <2> QED
    BY <2>1, <2>6, <2>7, <2>8, <2>9 DEF Once
<1> QED
  BY <1>4, <1>5, <1>6, <1>7, <1>8, <1>9, <1>10, <1>11 DEF Next, Tick, Script

\* An answer stands, and what is answered is not sent again (set_response,
\* m_promise_list, m_queue.pop_front).
THEOREM AnsweredForGood == Spec => AnswersStand
<1>1. Init => Rest /\ Once
  <2>1. 0 \in 0..Longest /\ 0 \in 0..MaxAttempts /\ {TRUE, FALSE} \subseteq BOOLEAN
    BY WaitsFit, BoundsAssumption
  <2>2. Init => Rest
    BY <2>1 DEF Init, Rest
  <2>3. Init => Once
    BY DEF Init, Once
  <2> QED
    BY <2>2, <2>3
<1>2. Inv /\ Rest /\ [Next]_vars => Rest'
  BY RestStep
<1>3. Inv /\ Rest /\ Once /\ [Next]_vars => Once'
  BY OnceStep
<1>4. Inv' /\ Once' => \A r \in Requests : answer'[r] # NoAnswer => ~Queued(r)'
  BY DEF Once, Queued
<1>5. Inv /\ Rest /\ Once /\ Inv' /\ Once' /\ [Next]_vars =>
        [\A r \in Requests : answer[r] # NoAnswer => answer'[r] = answer[r] /\ ~Queued(r)']_vars
  BY <1>4, OnceStep
<1> QED
  BY <1>1, <1>2, <1>3, <1>5, Invariance, PTL DEF Spec, AnswersStand
=============================================================================
