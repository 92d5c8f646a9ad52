----------------------------- MODULE SessionProofs -----------------------------
(***************************************************************************)
(* What a session's services keep, for every value of their constants:     *)
(* the two protocols with a child process, whatever that process does      *)
(* (McpStdio, LanguageServer), the trust in the long-term memory           *)
(* (ManagedMemory), the rules and the desk of the tool gateway             *)
(* (ToolAdmission) and the code index (CodeIndex); and that a session      *)
(* (Session) is a run of each of its parts, so that what is proved of a    *)
(* part holds in it.                                                       *)
(***************************************************************************)
EXTENDS Session, LoopProofs

-----------------------------------------------------------------------------
(* McpStdio, for any number of calls, threads, unasked lines and notes     *)

Calls == [id : Nat, at : {"queued", "sending", "receiving", "ended"}, late : BOOLEAN,
          end : Ends \cup {"none"}, got : Nat]
LineKinds == {"note", "text", "request", "again", "answer", "eof"}
Lines == [kind : LineKinds, request : Nat]

\* How a call has ended that left the stream and not with its answer
NoAnswer == {"timeout", "mismatch", "not json", "no result"}

\* Requests whose answer is in the pipe
InFlight ==
    {n \in DOMAIN requests :
        \E i \in 1..Len(responses) :
            responses[i].kind = "answer" /\ responses[i].request = n}

McpShapeInv ==
    /\ requests \in Seq(Calls) /\ responses \in Seq(Lines)
    /\ asked \subseteq DOMAIN requests /\ answered \subseteq DOMAIN requests
    /\ server \in {"up", "deaf", "mute", "exited"}
    /\ notes \in 0..KeptNotes /\ strays \in 0..MaxStray

\* Ids are places; a call has an outcome when it has ended, and not before.
CallInv ==
    \A n \in DOMAIN requests :
        /\ requests[n].id = n
        /\ requests[n].end = "none" <=> requests[n].at # "ended"
        /\ requests[n].got \in {0} \cup DOMAIN requests

\* One call at a time owns the stream.
OwnerInv == \A m, n \in Holding : m = n

\* The server answers what it was sent, and each request once: only what it says
\* again comes twice.
AnswerInv ==
    /\ asked \cap answered = {}
    /\ \A n \in asked \cup answered : requests[n].at \in {"receiving", "ended"}
    /\ \A i \in 1..Len(responses) : responses[i].kind = "answer" =>
        /\ responses[i].request \in answered
        /\ \A j \in 1..Len(responses) :
            responses[j].kind = "answer" /\ responses[j].request = responses[i].request
                => j = i

\* Line i comes behind the answer to k.
BehindAnswer(i, k) ==
    \E j \in 1..Len(responses) :
        j < i /\ responses[j].kind = "answer" /\ responses[j].request = k

\* A call whose answer has left the pipe is over, so that one which is not finds
\* its answer before what the server says again.
AgainInv ==
    /\ \A n \in answered : requests[n].at = "ended" \/ n \in InFlight
    /\ \A i \in 1..Len(responses) : \A k :
        responses[i].kind = "again" /\ responses[i].request = k =>
            k \in answered /\ (requests[k].at = "ended" \/ BehindAnswer(i, k))

\* The end of the output is its last line, and the server writes no more.
EndInv ==
    \A i \in 1..Len(responses) :
        responses[i].kind = "eof" => i = Len(responses) /\ ~Writing

\* No answer is left in the pipe of a call that was served or told of the end.
ServedInv ==
    \A n \in DOMAIN requests :
        /\ requests[n].end = "answered" => n \notin asked \cup InFlight
        /\ requests[n].end = "closed" => n \notin InFlight /\ ~Writing

McpInv ==
    /\ McpShapeInv /\ CallInv /\ OwnerInv /\ AnswerInv /\ AgainInv /\ EndInv /\ ServedInv
    /\ McpOwnAnswer

-----------------------------------------------------------------------------
LEMMA McpInvInit == McpInit => McpInv
BY McpAssumption DEF McpInit, McpInv, McpShapeInv, CallInv, OwnerInv, AnswerInv, AgainInv,
   EndInv, ServedInv, McpOwnAnswer, InFlight, Holding, At

LEMMA CallType ==
    ASSUME McpShapeInv
    PROVE  /\ Len(requests) \in Nat /\ DOMAIN requests = 1..Len(requests)
           /\ \A n \in DOMAIN requests : requests[n] \in Calls
BY DEF McpShapeInv

\* What a call knows of the end of another one stays so, as long as ends are final.
LEMMA OwnAnswerStays ==
    ASSUME McpInv, DOMAIN requests \subseteq DOMAIN requests', NEW n,
           \A m \in DOMAIN requests' :
                \/ /\ m \in DOMAIN requests
                   /\ requests'[m].end = requests[m].end /\ requests'[m].got = requests[m].got
                \/ m = n,
           n \in DOMAIN requests => requests[n].end = "none",
           n \in DOMAIN requests' =>
             /\ requests'[n].end = "answered" => requests'[n].got = n
             /\ requests'[n].end = "mismatch" /\ requests'[n].got # 0 =>
                  /\ requests'[n].got \in DOMAIN requests \ {n}
                  /\ requests[requests'[n].got].end \in NoAnswer
    PROVE  McpOwnAnswer'
<1>1. \A m \in DOMAIN requests \ {n} : requests'[m].end = requests[m].end
    BY DEF McpInv
<1>2. ASSUME NEW m \in DOMAIN requests'
      PROVE  /\ requests'[m].end = "answered" => requests'[m].got = m
             /\ requests'[m].end = "mismatch" /\ requests'[m].got # 0 =>
                 requests'[requests'[m].got].end \in NoAnswer
  <2>1. CASE m = n
    <3>1. requests'[n].end = "answered" => requests'[n].got = n
        BY <1>2, <2>1
    <3>2. requests'[n].end = "mismatch" /\ requests'[n].got # 0 =>
              requests'[requests'[n].got].end \in NoAnswer
        BY <1>1, <1>2, <2>1
    <3> QED BY <2>1, <3>1, <3>2
  <2>2. CASE m # n
    <3>1. /\ m \in DOMAIN requests
          /\ requests'[m].end = requests[m].end /\ requests'[m].got = requests[m].got
        BY <1>2, <2>2
    <3>2. /\ requests[m].end = "answered" => requests[m].got = m
          /\ requests[m].end = "mismatch" /\ requests[m].got # 0 =>
                requests[requests[m].got].end \in NoAnswer
        BY <3>1 DEF McpInv, McpOwnAnswer, NoAnswer
    <3>3. requests[m].got \in {0} \cup DOMAIN requests
        BY <3>1 DEF McpInv, CallInv
    <3>4. requests[m].end = "mismatch" /\ requests[m].got # 0 => requests[m].got # n
        BY <3>2, <3>3 DEF NoAnswer
    <3> QED BY <1>1, <3>1, <3>2, <3>3, <3>4
  <2> QED BY <2>1, <2>2
<1> QED BY <1>2 DEF McpOwnAnswer, NoAnswer

\* A call that is issued disturbs none before it.
LEMMA IssueInv == McpInv /\ IssueRequest => McpInv'
<1> SUFFICES ASSUME McpInv, IssueRequest PROVE McpInv'
    OBVIOUS
<1> DEFINE new == [id |-> NextRequestId, at |-> "queued", late |-> FALSE,
                   end |-> "none", got |-> 0]
           n == Len(requests) + 1
<1>1. /\ new \in Calls /\ new.id = n /\ new.at = "queued" /\ new.end = "none" /\ new.got = 0
      /\ Len(requests) \in Nat
    BY DEF McpInv, McpShapeInv, NextRequestId, Calls
<1>2. requests' = Append(requests, new)
      /\ UNCHANGED <<asked, answered, responses, server, notes, strays>>
    BY DEF IssueRequest
<1>3. requests \in Seq(Calls) /\ DOMAIN requests = 1..Len(requests)
    BY CallType DEF McpInv, McpShapeInv
<1> HIDE DEF new
<1>4. /\ requests' \in Seq(Calls) /\ DOMAIN requests' = DOMAIN requests \cup {n}
      /\ \A m \in DOMAIN requests : requests'[m] = requests[m]
      /\ requests'[n] = new /\ n \notin DOMAIN requests
    BY <1>1, <1>2, <1>3
<1> HIDE DEF n
<1>5. InFlight' = InFlight /\ n \notin InFlight
  <2>1. \A i \in 1..Len(responses) :
            responses[i].kind = "answer" => responses[i].request \in DOMAIN requests
      BY DEF McpInv, McpShapeInv, AnswerInv
  <2> QED BY <1>2, <1>4, <2>1 DEF InFlight
<1>6. McpShapeInv' /\ EndInv'
    BY <1>2, <1>4 DEF McpInv, McpShapeInv, EndInv, Writing
<1>7. CallInv'
    BY <1>1, <1>4 DEF McpInv, CallInv
<1>8. OwnerInv'
  <2>1. Holding' = Holding
      BY <1>1, <1>4 DEF Holding, At
  <2> QED BY <2>1 DEF McpInv, OwnerInv
<1>9. AnswerInv'
    BY <1>2, <1>4 DEF McpInv, McpShapeInv, AnswerInv
<1>10. AgainInv'
  <2>1. \A m \in answered' : requests'[m].at = "ended" \/ m \in InFlight'
      BY <1>2, <1>4, <1>5 DEF McpInv, McpShapeInv, AgainInv
  <2>2. ASSUME NEW i \in 1..Len(responses'), NEW k,
               responses'[i].kind = "again", responses'[i].request = k
        PROVE  k \in answered' /\ (requests'[k].at = "ended" \/ BehindAnswer(i, k)')
    <3>1. k \in answered /\ (requests[k].at = "ended" \/ BehindAnswer(i, k))
        BY <1>2, <2>2 DEF McpInv, AgainInv
    <3>2. requests'[k] = requests[k] /\ (BehindAnswer(i, k) => BehindAnswer(i, k)')
        BY <1>2, <1>4, <3>1 DEF McpInv, McpShapeInv, BehindAnswer
    <3> QED BY <1>2, <3>1, <3>2
  <2> QED BY <2>1, <2>2 DEF AgainInv
<1>11. ServedInv'
    BY <1>1, <1>2, <1>4, <1>5 DEF McpInv, ServedInv, Writing
<1>12. McpOwnAnswer'
    BY <1>1, <1>4, OwnAnswerStays
<1> QED BY <1>6, <1>7, <1>8, <1>9, <1>10, <1>11, <1>12 DEF McpInv

\* Nor does what the server writes.
LEMMA CallsStay ==
    ASSUME McpInv, requests' = requests
    PROVE  CallInv' /\ OwnerInv' /\ McpOwnAnswer'
<1>1. CallInv'
    BY DEF McpInv, CallInv
<1>2. OwnerInv'
  <2>1. Holding' = Holding
      BY DEF Holding, At
  <2> QED BY <2>1 DEF McpInv, OwnerInv
<1>3. McpOwnAnswer'
    BY DEF McpInv, McpOwnAnswer
<1> QED BY <1>1, <1>2, <1>3

\* What a step on one call does to the others: nothing.
LEMMA CallChanges ==
    ASSUME NEW n \in DOMAIN requests, McpShapeInv, NEW entry \in Calls,
           requests' = [requests EXCEPT ![n] = entry]
    PROVE  /\ requests' \in Seq(Calls) /\ DOMAIN requests' = DOMAIN requests
           /\ Len(requests') = Len(requests)
           /\ requests'[n] = entry
           /\ \A m \in DOMAIN requests \ {n} : requests'[m] = requests[m]
BY DEF McpShapeInv

\* A call goes on, or ends without a line; only one that was not sent is closed so.
LEMMA CallStep ==
    ASSUME McpInv, NEW n \in Open, NEW entry \in Calls,
           requests' = [requests EXCEPT ![n] = entry],
           UNCHANGED <<answered, responses, server, notes, strays>>,
           entry.id = n, entry.end = "none" <=> entry.at # "ended",
           entry.end \notin {"answered", "mismatch"}, entry.got \in {0} \cup DOMAIN requests,
           entry.at \in {"sending", "receiving"} => n \in Holding \/ Holding = {},
           entry.at \in {"queued", "sending"} => requests[n].at \in {"queued", "sending"},
           entry.end = "closed" => requests[n].at \in {"queued", "sending"} /\ ~Writing,
           \/ asked' = asked
           \/ asked' = asked \cup {n} /\ requests[n].at = "sending" /\ entry.at = "receiving"
    PROVE  McpInv'
<1>1. n \in DOMAIN requests /\ requests[n].end = "none" /\ requests[n].at # "ended"
    BY DEF Open, Holding, At, McpInv, CallInv
<1>2. /\ requests' \in Seq(Calls) /\ DOMAIN requests' = DOMAIN requests
      /\ requests'[n] = entry
      /\ \A m \in DOMAIN requests \ {n} : requests'[m] = requests[m]
    BY <1>1, CallChanges DEF McpInv
<1>3. requests[n].at \in {"queued", "sending"} => n \notin asked \cup answered
    BY DEF McpInv, AnswerInv
<1>4. InFlight' = InFlight /\ InFlight \subseteq answered
    BY <1>2 DEF InFlight, McpInv, AnswerInv
<1>5. McpShapeInv' /\ EndInv'
    BY <1>1, <1>2 DEF McpInv, McpShapeInv, EndInv, Writing
<1>6. CallInv'
    BY <1>2 DEF McpInv, CallInv
<1>7. OwnerInv'
  <2>1. Holding' \subseteq Holding \cup {n}
      BY <1>2 DEF Holding, At
  <2>2. n \in Holding' => n \in Holding \/ Holding = {}
      BY <1>2 DEF Holding, At
  <2> QED BY <2>1, <2>2 DEF McpInv, OwnerInv
<1>8. AnswerInv'
  <2>1. asked' \cap answered' = {}
      BY <1>3 DEF McpInv, AnswerInv
  <2>2. ASSUME NEW m \in asked' \cup answered' PROVE requests'[m].at \in {"receiving", "ended"}
    <3>1. CASE m = n
      <4>1. entry.at \in {"queued", "sending", "receiving", "ended"}
          BY DEF Calls
      <4> QED BY <1>2, <1>3, <2>2, <3>1, <4>1
    <3>2. CASE m # n
      <4>1. m \in asked \cup answered
          BY <2>2, <3>2
      <4> QED BY <1>2, <3>2, <4>1 DEF McpInv, McpShapeInv, AnswerInv
    <3> QED BY <3>1, <3>2
  <2> QED BY <2>1, <2>2 DEF McpInv, AnswerInv
<1>9. \A m \in DOMAIN requests : requests[m].at = "ended" => requests'[m].at = "ended"
    BY <1>1, <1>2
<1>10. AgainInv'
    BY <1>4, <1>9 DEF McpInv, McpShapeInv, AgainInv, BehindAnswer
<1>11. ServedInv'
    BY <1>2, <1>3, <1>4 DEF McpInv, ServedInv, Writing
<1>12. McpOwnAnswer'
    BY <1>1, <1>2, OwnAnswerStays
<1> QED BY <1>5, <1>6, <1>7, <1>8, <1>10, <1>11, <1>12 DEF McpInv

LEMMA GoesOnInv ==
    ASSUME McpInv, NEW n \in DOMAIN requests,
           PassDeadline(n) \/ TakeStream(n) \/ SendRequest(n)
    PROVE  McpInv'
<1>1. /\ n \in Open /\ requests[n] \in Calls /\ requests[n].id = n /\ requests[n].end = "none"
      /\ requests[n].at \in {"queued", "sending", "receiving"}
      /\ requests[n].got \in {0} \cup DOMAIN requests
    BY CallType
    DEF PassDeadline, TakeStream, SendRequest, Open, Holding, At, McpInv, CallInv
<1>2. CASE PassDeadline(n)
  <2> DEFINE entry == [requests[n] EXCEPT !.late = TRUE]
  <2>1. /\ entry \in Calls /\ requests' = [requests EXCEPT ![n] = entry] /\ entry.id = n
        /\ entry.end = "none" /\ entry.at = requests[n].at /\ entry.got = requests[n].got
      BY <1>1, <1>2 DEF PassDeadline, Calls
  <2>2. UNCHANGED <<asked, answered, responses, server, notes, strays>>
      BY <1>2 DEF PassDeadline
  <2>3. entry.at \in {"sending", "receiving"} => n \in Holding
      BY <1>1, <2>1 DEF Holding, At
  <2> HIDE DEF entry
  <2> QED BY <1>1, <2>1, <2>2, <2>3, CallStep
<1>3. CASE TakeStream(n)
  <2> DEFINE entry == [requests[n] EXCEPT !.at = "sending"]
  <2>1. /\ entry \in Calls /\ requests' = [requests EXCEPT ![n] = entry] /\ entry.id = n
        /\ entry.end = "none" /\ entry.at = "sending" /\ entry.got = requests[n].got
      BY <1>1, <1>3 DEF TakeStream, Calls
  <2>2. /\ UNCHANGED <<asked, answered, responses, server, notes, strays>>
        /\ Holding = {} /\ requests[n].at = "queued"
      BY <1>3 DEF TakeStream, At
  <2> HIDE DEF entry
  <2> QED BY <1>1, <2>1, <2>2, CallStep
<1>4. CASE SendRequest(n)
  <2> DEFINE entry == [requests[n] EXCEPT !.at = "receiving"]
  <2>1. /\ entry \in Calls /\ requests' = [requests EXCEPT ![n] = entry] /\ entry.id = n
        /\ entry.end = "none" /\ entry.at = "receiving" /\ entry.got = requests[n].got
      BY <1>1, <1>4 DEF SendRequest, Calls
  <2>2. /\ UNCHANGED <<answered, responses, server, notes, strays>>
        /\ asked' = asked \/ asked' = asked \cup {n}
        /\ requests[n].at = "sending" /\ n \in Holding
      BY <1>4 DEF SendRequest, Holding, At
  <2> HIDE DEF entry
  <2> QED BY <1>1, <2>1, <2>2, CallStep
<1> QED BY <1>2, <1>3, <1>4

LEMMA GivesUpInv ==
    ASSUME McpInv, NEW n \in DOMAIN requests, SendFails(n) \/ TimeOutRequest(n)
    PROVE  McpInv'
<1>1. n \in Open /\ requests[n] \in Calls /\ requests[n].id = n
    BY CallType DEF SendFails, TimeOutRequest, Open, Holding, At, McpInv, CallInv
<1>2. PICK how \in {"timeout", "closed"} :
        /\ End(n, how, 0)
        /\ how = "closed" => requests[n].at \in {"queued", "sending"} /\ ~Writing
    BY DEF SendFails, TimeOutRequest, At, Writing
<1> DEFINE entry == [requests[n] EXCEPT !.at = "ended", !.end = how, !.got = 0]
<1>3. /\ entry \in Calls /\ requests' = [requests EXCEPT ![n] = entry] /\ entry.id = n
      /\ entry.end = how /\ entry.at = "ended" /\ entry.got = 0
  <2>1. requests' = [requests EXCEPT ![n] = entry]
      BY <1>2 DEF End
  <2> QED BY <1>1, <2>1 DEF Calls, Ends
<1>4. UNCHANGED <<asked, answered, responses, server, notes, strays>>
    BY DEF SendFails, TimeOutRequest
<1> HIDE DEF entry
<1> QED BY <1>1, <1>2, <1>3, <1>4, CallStep

-----------------------------------------------------------------------------
\* What the pipe loses with its first line
LEMMA PipeShrinks ==
    ASSUME McpInv, responses # <<>>, responses' = Tail(responses),
           DOMAIN requests' = DOMAIN requests
    PROVE  /\ Head(responses) = responses[1] /\ Head(responses) \in Lines
           /\ Len(responses) \in Nat
           /\ 1 \in 1..Len(responses) /\ Len(responses') = Len(responses) - 1
           /\ responses' \in Seq(Lines)
           /\ \A i \in 1..Len(responses') :
                responses'[i] = responses[i + 1] /\ i + 1 \in 2..Len(responses)
           /\ \A i \in 2..Len(responses) :
                i - 1 \in 1..Len(responses') /\ responses'[i - 1] = responses[i]
           /\ InFlight' \subseteq InFlight
           /\ \A k \in InFlight : k \in InFlight' \/ (Head(responses).kind = "answer"
                                                      /\ Head(responses).request = k)
           /\ Head(responses).kind = "answer" => Head(responses).request \notin InFlight'
<1>1. /\ Head(responses) = responses[1] /\ Head(responses) \in Lines
      /\ Len(responses) \in Nat /\ 1 \in 1..Len(responses)
      /\ Len(responses') = Len(responses) - 1 /\ responses' \in Seq(Lines)
      /\ \A i \in 1..Len(responses') : responses'[i] = responses[i + 1]
    BY DEF McpInv, McpShapeInv
<1>2. \A i \in 1..Len(responses') : i + 1 \in 2..Len(responses)
    BY <1>1
<1>3. \A i \in 2..Len(responses) : i - 1 \in 1..Len(responses') /\ (i - 1) + 1 = i
    BY <1>1
<1>4. \A i \in 2..Len(responses) : responses'[i - 1] = responses[i]
    BY <1>1, <1>3
<1>5. InFlight' \subseteq InFlight
  <2>1. \A i \in 2..Len(responses) : i \in 1..Len(responses)
      BY <1>1
  <2> QED BY <1>1, <1>2, <2>1 DEF InFlight
<1>6. ASSUME NEW k \in InFlight
      PROVE  k \in InFlight' \/ (Head(responses).kind = "answer" /\ Head(responses).request = k)
  <2>1. PICK i \in 1..Len(responses) : responses[i].kind = "answer" /\ responses[i].request = k
      BY DEF InFlight
  <2>2. CASE i = 1
      BY <1>1, <2>1, <2>2
  <2>3. CASE i \in 2..Len(responses)
    <3>1. k \in DOMAIN requests'
        BY DEF InFlight
    <3>2. i - 1 \in 1..Len(responses') /\ responses'[i - 1] = responses[i]
        BY <1>3, <1>4, <2>3
    <3> QED BY <2>1, <3>1, <3>2 DEF InFlight
  <2>4. i = 1 \/ i \in 2..Len(responses)
      BY <1>1, <2>1
  <2> QED BY <2>2, <2>3, <2>4
<1>7. ASSUME Head(responses).kind = "answer", Head(responses).request \in InFlight'
      PROVE  FALSE
  <2>1. PICK i \in 1..Len(responses') : responses'[i].kind = "answer"
                /\ responses'[i].request = Head(responses).request
      BY <1>7 DEF InFlight
  <2>2. i + 1 \in 1..Len(responses) /\ i + 1 # 1
      BY <1>1, <1>2
  <2> QED BY <1>1, <1>7, <2>1, <2>2 DEF McpInv, AnswerInv
<1> QED BY <1>1, <1>2, <1>3, <1>4, <1>5, <1>6, <1>7

\* The parts about the pipe hold of what is left of it.
LEMMA RestOfPipe ==
    ASSUME McpInv, responses # <<>>, responses' = Tail(responses),
           UNCHANGED <<asked, answered, server>>, DOMAIN requests' = DOMAIN requests,
           \A m \in DOMAIN requests : \/ requests'[m].at = requests[m].at
                                      \/ requests'[m].at = "ended",
           Head(responses).kind = "answer" => requests'[Head(responses).request].at = "ended"
    PROVE  AnswerInv' /\ AgainInv' /\ EndInv'
<1>1. /\ Len(responses') = Len(responses) - 1 /\ Len(responses) \in Nat
      /\ Head(responses) = responses[1]
      /\ \A i \in 1..Len(responses') :
            responses'[i] = responses[i + 1] /\ i + 1 \in 2..Len(responses)
      /\ \A i \in 2..Len(responses) :
            i - 1 \in 1..Len(responses') /\ responses'[i - 1] = responses[i]
      /\ \A k \in InFlight : k \in InFlight' \/ (Head(responses).kind = "answer"
                                                 /\ Head(responses).request = k)
    BY PipeShrinks
<1>2. \A i \in 1..Len(responses') : i + 1 \in 1..Len(responses)
    BY <1>1
<1>3. EndInv'
  <2>1. ASSUME NEW i \in 1..Len(responses'), responses'[i].kind = "eof"
        PROVE  i = Len(responses') /\ ~Writing'
    <3>1. i + 1 = Len(responses) /\ ~Writing
        BY <1>1, <1>2, <2>1 DEF McpInv, EndInv
    <3> QED BY <3>1, <1>1 DEF Writing
  <2> QED BY <2>1 DEF EndInv
<1>4. AnswerInv'
  <2>1. \A m \in asked' \cup answered' : requests'[m].at \in {"receiving", "ended"}
      BY DEF McpInv, McpShapeInv, AnswerInv
  <2>2. ASSUME NEW i \in 1..Len(responses'), responses'[i].kind = "answer"
        PROVE  responses'[i].request \in answered'
      BY <1>1, <1>2, <2>2 DEF McpInv, AnswerInv
  <2>3. ASSUME NEW i \in 1..Len(responses'), NEW j \in 1..Len(responses'),
               responses'[i].kind = "answer", responses'[j].kind = "answer",
               responses'[j].request = responses'[i].request
        PROVE  j = i
    <3>1. i + 1 = j + 1
        BY <1>1, <1>2, <2>3 DEF McpInv, AnswerInv
    <3> QED BY <3>1, <1>1
  <2> QED BY <2>1, <2>2, <2>3 DEF McpInv, AnswerInv
<1>5. AgainInv'
  <2>1. ASSUME NEW m \in answered' PROVE requests'[m].at = "ended" \/ m \in InFlight'
    <3>1. m \in DOMAIN requests /\ (requests[m].at = "ended" \/ m \in InFlight)
        BY DEF McpInv, McpShapeInv, AgainInv
    <3> QED BY <1>1, <3>1
  <2>2. ASSUME NEW i \in 1..Len(responses'), NEW k,
               responses'[i].kind = "again", responses'[i].request = k
        PROVE  k \in answered' /\ (requests'[k].at = "ended" \/ BehindAnswer(i, k)')
    <3>1. /\ k \in answered /\ k \in DOMAIN requests
          /\ requests[k].at = "ended" \/ BehindAnswer(i + 1, k)
        BY <1>1, <1>2, <2>2 DEF McpInv, McpShapeInv, AgainInv
    <3>2. CASE requests[k].at = "ended"
        BY <3>1, <3>2
    <3>3. CASE BehindAnswer(i + 1, k)
      <4>1. PICK j \in 1..Len(responses) :
                j < i + 1 /\ responses[j].kind = "answer" /\ responses[j].request = k
          BY <3>3 DEF BehindAnswer
      <4>2. CASE j = 1
          BY <1>1, <3>1, <4>1, <4>2
      <4>3. CASE j \in 2..Len(responses)
        <5>1. j - 1 \in 1..Len(responses') /\ responses'[j - 1] = responses[j] /\ j - 1 < i
            BY <1>1, <4>1, <4>3
        <5>2. BehindAnswer(i, k)'
            BY <4>1, <5>1 DEF BehindAnswer
        <5> QED BY <3>1, <5>2
      <4> QED BY <1>1, <4>1, <4>2, <4>3
    <3> QED BY <3>1, <3>2, <3>3
  <2> QED BY <2>1, <2>2 DEF AgainInv
<1> QED BY <1>3, <1>4, <1>5

\* The one reader takes a line: a foreign answer is that of a call that was sent
\* and has ended since, without it; what is said again is none of its own.
LEMMA ReceiveInv == ASSUME McpInv, NEW n \in DOMAIN requests, ReceiveLine(n) PROVE McpInv'
<1> DEFINE line == Head(responses)
<1>1. /\ requests[n].at = "receiving" /\ requests[n] \in Calls /\ requests[n].end = "none"
      /\ n \in Holding
      /\ responses # <<>> /\ responses' = Tail(responses)
      /\ asked' = asked /\ answered' = answered /\ server' = server /\ strays' = strays
      /\ requests[n].id = n
    BY CallType DEF ReceiveLine, At, Holding, McpInv, CallInv
<1>2. line = responses[1] /\ 1 \in 1..Len(responses) /\ line \in Lines
    BY <1>1 DEF McpInv, McpShapeInv
\* Another call that was answered is over.
<1>3. ASSUME NEW k \in answered, k # n
      PROVE  k \in DOMAIN requests /\ requests[k].at = "ended"
  <2>1. k \in DOMAIN requests /\ requests[k].at \in {"receiving", "ended"}
      BY DEF McpInv, McpShapeInv, AnswerInv
  <2>2. requests[k].at # "receiving"
      BY <1>1, <1>3, <2>1 DEF McpInv, OwnerInv, Holding, At
  <2> QED BY <2>1, <2>2
<1>4. line.kind = "answer" => line.request \in answered
    BY <1>2 DEF McpInv, AnswerInv
<1>5. CASE line.kind = "note"
  <2>1. UNCHANGED requests /\ notes' = IF notes < KeptNotes THEN notes + 1 ELSE notes
      BY <1>5 DEF ReceiveLine
  <2>2. AnswerInv' /\ AgainInv' /\ EndInv'
      BY <1>1, <1>5, <2>1, RestOfPipe
  <2>3. InFlight' \subseteq InFlight /\ responses' \in Seq(Lines)
      BY <1>1, <2>1, PipeShrinks
  <2>4. notes' \in 0..KeptNotes
      BY <2>1, McpAssumption DEF McpInv, McpShapeInv
  <2>5. McpShapeInv'
      BY <1>1, <2>1, <2>3, <2>4 DEF McpInv, McpShapeInv
  <2>6. CallInv' /\ OwnerInv' /\ McpOwnAnswer'
      BY <2>1, CallsStay
  <2>7. ServedInv'
      BY <1>1, <2>1, <2>3 DEF McpInv, ServedInv, Writing
  <2> QED BY <2>2, <2>5, <2>6, <2>7 DEF McpInv
<1>6. ASSUME NEW how \in Ends, NEW got \in {0} \cup DOMAIN requests, End(n, how, got),
             UNCHANGED notes,
             how = "closed" => line.kind = "eof",
             how = "answered" => got = n /\ line.kind = "answer" /\ line.request = n,
             how = "mismatch" /\ got # 0 => got # n /\ line.kind = "answer" /\ line.request = got,
             line.kind = "answer" /\ line.request # n => how = "mismatch" /\ got = line.request
      PROVE  McpInv'
  <2> DEFINE entry == [requests[n] EXCEPT !.at = "ended", !.end = how, !.got = got]
  <2>1. /\ entry \in Calls /\ requests' = [requests EXCEPT ![n] = entry]
        /\ entry.at = "ended" /\ entry.id = n /\ entry.end = how /\ entry.got = got
        /\ how # "none"
    <3>1. got \in Nat
        BY CallType DEF McpInv
    <3>2. requests' = [requests EXCEPT ![n] = entry]
        BY <1>6 DEF End
    <3> QED BY <1>1, <3>1, <3>2 DEF Calls, Ends
  <2> HIDE DEF entry
  <2>2. /\ requests' \in Seq(Calls) /\ DOMAIN requests' = DOMAIN requests
        /\ requests'[n] = entry
        /\ \A m \in DOMAIN requests \ {n} : requests'[m] = requests[m]
      BY <2>1, CallChanges DEF McpInv
  <2>3. /\ \A m \in DOMAIN requests : \/ requests'[m].at = requests[m].at
                                      \/ requests'[m].at = "ended"
        /\ line.kind = "answer" => requests'[line.request].at = "ended"
    <3>1. \A m \in DOMAIN requests : \/ requests'[m].at = requests[m].at
                                     \/ requests'[m].at = "ended"
        BY <2>1, <2>2
    <3>2. CASE line.request = n
        BY <2>1, <2>2, <3>2
    <3>3. CASE line.kind = "answer" /\ line.request # n
      <4>1. line.request \in DOMAIN requests /\ requests[line.request].at = "ended"
          BY <1>3, <1>4, <3>3
      <4> QED BY <2>2, <3>1, <3>3, <4>1
    <3> QED BY <3>1, <3>2, <3>3
  <2>4. AnswerInv' /\ AgainInv' /\ EndInv'
      BY <1>1, <2>2, <2>3, RestOfPipe
  <2>5. /\ InFlight' \subseteq InFlight /\ responses' \in Seq(Lines)
        /\ line.kind = "answer" => line.request \notin InFlight'
        /\ Len(responses') = Len(responses) - 1 /\ Len(responses) \in Nat
      BY <1>1, <2>2, PipeShrinks
  <2>6. McpShapeInv'
      BY <1>1, <1>6, <2>2, <2>5 DEF McpInv, McpShapeInv
  <2>7. ASSUME how = "mismatch", got # 0
        PROVE  got \in DOMAIN requests \ {n} /\ requests[got].end \in NoAnswer
    <3>1. got \in answered /\ got # n /\ got \in DOMAIN requests
        BY <1>4, <1>6, <2>7
    <3>2. got \in InFlight
        BY <1>2, <1>6, <2>7, <3>1 DEF InFlight
    <3>3. requests[got].at = "ended" /\ requests[got] \in Calls
        BY <1>3, <3>1, CallType DEF McpInv
    <3>4. requests[got].end \in Ends
        BY <3>1, <3>3 DEF McpInv, CallInv, Calls
    <3>5. requests[got].end \notin {"answered", "closed"}
        BY <3>1, <3>2 DEF McpInv, ServedInv
    <3> QED BY <3>1, <3>4, <3>5 DEF Ends, NoAnswer
  <2>8. CallInv'
      BY <1>6, <2>1, <2>2 DEF McpInv, CallInv
  <2>9. McpOwnAnswer'
      BY <1>1, <1>6, <2>1, <2>2, <2>7, OwnAnswerStays
  <2>10. OwnerInv'
    <3>1. Holding' \subseteq Holding
        BY <2>1, <2>2 DEF Holding, At
    <3> QED BY <3>1 DEF McpInv, OwnerInv
  <2>11. how = "answered" => n \notin asked \cup InFlight'
      BY <1>4, <1>6, <2>5 DEF McpInv, AnswerInv
  <2>12. how = "closed" => ~Writing /\ n \notin InFlight'
    <3> SUFFICES ASSUME how = "closed" PROVE ~Writing /\ n \notin InFlight'
        OBVIOUS
    <3>1. ~Writing /\ Len(responses) = 1
        BY <1>2, <1>6 DEF McpInv, EndInv
    <3>2. 1..Len(responses') = {}
        BY <2>5, <3>1
    <3> QED BY <3>1, <3>2 DEF InFlight
  <2>13. ServedInv'
      BY <1>1, <2>1, <2>2, <2>5, <2>11, <2>12 DEF McpInv, ServedInv, Writing
  <2> QED BY <2>4, <2>6, <2>8, <2>9, <2>10, <2>13 DEF McpInv
<1>7. CASE line.kind = "eof"
  <2>1. End(n, "closed", 0) /\ UNCHANGED notes
      BY <1>7 DEF ReceiveLine
  <2> QED BY <1>6, <1>7, <2>1 DEF Ends
<1>8. CASE line.kind = "text"
  <2>1. End(n, "not json", 0) /\ UNCHANGED notes
      BY <1>8 DEF ReceiveLine
  <2> QED BY <1>6, <1>8, <2>1 DEF Ends
<1>9. CASE line.kind = "answer"
  <2>1. line.request \in DOMAIN requests /\ requests[line.request].id = line.request
      BY <1>4, <1>9 DEF McpInv, McpShapeInv, CallInv
  <2>2. End(n, IF line.request = n THEN "answered" ELSE "mismatch", line.request)
            /\ UNCHANGED notes
      BY <1>1, <1>9, <2>1 DEF ReceiveLine
  <2>3. CASE line.request = n
      BY <1>6, <1>9, <2>1, <2>2, <2>3 DEF Ends
  <2>4. CASE line.request # n
      BY <1>6, <1>9, <2>1, <2>2, <2>4 DEF Ends
  <2> QED BY <2>3, <2>4
<1>10. CASE line.kind = "again"
  <2>1. /\ line.request \in answered
        /\ requests[line.request].at = "ended" \/ BehindAnswer(1, line.request)
      BY <1>2, <1>10 DEF McpInv, AgainInv
  <2>2. ~BehindAnswer(1, line.request)
      BY <1>2 DEF BehindAnswer
  <2>3. line.request \in DOMAIN requests /\ requests[line.request].id = line.request
        /\ line.request # n
      BY <1>1, <2>1, <2>2 DEF McpInv, McpShapeInv, CallInv
  <2>4. End(n, "mismatch", 0) /\ UNCHANGED notes
      BY <1>1, <1>10, <2>3 DEF ReceiveLine
  <2> QED BY <1>6, <1>10, <2>4 DEF Ends
<1>11. CASE line.kind = "request"
  <2>1. PICK how \in {"no result", "mismatch"} : End(n, how, 0) /\ UNCHANGED notes
      BY <1>11 DEF ReceiveLine
  <2> QED BY <1>6, <1>11, <2>1 DEF Ends
<1>12. line.kind \in LineKinds
    BY <1>2 DEF Lines
<1> QED BY <1>5, <1>7, <1>8, <1>9, <1>10, <1>11, <1>12 DEF LineKinds

-----------------------------------------------------------------------------
\* A line that the server adds
LEMMA PipeGrows ==
    ASSUME McpInv, NEW line \in Lines, responses' = Append(responses, line),
           Writing, requests' = requests
    PROVE  /\ responses' \in Seq(Lines) /\ Len(responses') = Len(responses) + 1
           /\ Len(responses) \in Nat
           /\ \A i \in 1..Len(responses) : responses'[i] = responses[i]
           /\ responses'[Len(responses) + 1] = line
           /\ 1..Len(responses') = 1..Len(responses) \cup {Len(responses) + 1}
           /\ InFlight' = InFlight \cup
                {n \in DOMAIN requests : line.kind = "answer" /\ line.request = n}
           /\ \A i \in 1..Len(responses) : responses[i].kind # "eof"
           /\ \A i \in 1..Len(responses) : \A k : BehindAnswer(i, k) => BehindAnswer(i, k)'
           /\ \A i : i = Len(responses) + 1 => \A k \in InFlight : BehindAnswer(i, k)'
<1>1. /\ responses' \in Seq(Lines) /\ Len(responses') = Len(responses) + 1
      /\ Len(responses) \in Nat
      /\ \A i \in 1..Len(responses) : responses'[i] = responses[i]
      /\ responses'[Len(responses) + 1] = line
    BY DEF McpInv, McpShapeInv
<1>2. 1..Len(responses') = 1..Len(responses) \cup {Len(responses) + 1}
    BY <1>1
<1>3. InFlight' = InFlight \cup
                {n \in DOMAIN requests : line.kind = "answer" /\ line.request = n}
    BY <1>1, <1>2 DEF InFlight
<1>4. \A i \in 1..Len(responses) : \A k : BehindAnswer(i, k) => BehindAnswer(i, k)'
    BY <1>1, <1>2 DEF BehindAnswer
<1>5. \A i : i = Len(responses) + 1 => \A k \in InFlight : BehindAnswer(i, k)'
  <2> SUFFICES ASSUME NEW i, i = Len(responses) + 1, NEW k \in InFlight PROVE BehindAnswer(i, k)'
      OBVIOUS
  <2>1. PICK j \in 1..Len(responses) :
            responses[j].kind = "answer" /\ responses[j].request = k
      BY DEF InFlight
  <2>2. j \in 1..Len(responses') /\ j < i
      BY <1>1, <1>2
  <2> QED BY <1>1, <2>1, <2>2 DEF BehindAnswer
<1> QED BY <1>1, <1>2, <1>3, <1>4, <1>5 DEF McpInv, EndInv

\* A line that is no first answer
LEMMA StrayInv ==
    ASSUME McpInv, NEW line \in Lines, line.kind # "answer",
           line.kind = "again" => line.request \in answered,
           responses' = Append(responses, line), Writing,
           requests' = requests, asked' = asked, answered' = answered, notes' = notes,
           server' \in {"up", "deaf", "mute", "exited"}, strays' \in 0..MaxStray,
           line.kind = "eof" => ~Writing'
    PROVE  McpInv'
<1>1. /\ responses' \in Seq(Lines) /\ Len(responses') = Len(responses) + 1
      /\ Len(responses) \in Nat
      /\ \A i \in 1..Len(responses) : responses'[i] = responses[i]
      /\ responses'[Len(responses) + 1] = line
      /\ 1..Len(responses') = 1..Len(responses) \cup {Len(responses) + 1}
      /\ InFlight' = InFlight
      /\ \A i \in 1..Len(responses) : responses[i].kind # "eof"
      /\ \A i \in 1..Len(responses) : \A k : BehindAnswer(i, k) => BehindAnswer(i, k)'
      /\ \A i : i = Len(responses) + 1 => \A k \in InFlight : BehindAnswer(i, k)'
    BY PipeGrows
<1>2. McpShapeInv'
    BY <1>1 DEF McpInv, McpShapeInv
<1>3. CallInv' /\ OwnerInv' /\ McpOwnAnswer'
    BY CallsStay
<1>4. EndInv'
    BY <1>1 DEF EndInv
<1>5. AnswerInv'
    BY <1>1 DEF McpInv, AnswerInv
<1>6. AgainInv'
  <2>1. \A n \in answered' : requests'[n].at = "ended" \/ n \in InFlight'
      BY <1>1 DEF McpInv, AgainInv
  <2>2. ASSUME NEW i \in 1..Len(responses'), NEW k,
               responses'[i].kind = "again", responses'[i].request = k
        PROVE  k \in answered' /\ (requests'[k].at = "ended" \/ BehindAnswer(i, k)')
    <3>1. CASE i = Len(responses) + 1
      <4>1. k = line.request /\ k \in answered /\ (requests[k].at = "ended" \/ k \in InFlight)
          BY <1>1, <2>2, <3>1 DEF McpInv, AgainInv
      <4> QED BY <1>1, <3>1, <4>1
    <3>2. CASE i \in 1..Len(responses)
      <4>1. k \in answered /\ (requests[k].at = "ended" \/ BehindAnswer(i, k))
          BY <1>1, <2>2, <3>2 DEF McpInv, AgainInv
      <4> QED BY <1>1, <3>2, <4>1
    <3> QED BY <1>1, <3>1, <3>2
  <2> QED BY <2>1, <2>2 DEF AgainInv
<1>7. ServedInv'
    BY <1>1 DEF McpInv, ServedInv
<1> QED BY <1>2, <1>3, <1>4, <1>5, <1>6, <1>7 DEF McpInv

LEMMA AnswersInv == ASSUME McpInv, NEW n \in DOMAIN requests, ServerAnswers(n) PROVE McpInv'
<1>1. Line("answer", n) \in Lines /\ Line("answer", n).kind = "answer"
          /\ Line("answer", n).request = n
    BY CallType DEF Line, Lines, LineKinds, McpInv
<1>2. /\ Writing /\ n \in asked /\ asked' = asked \ {n} /\ answered' = answered \cup {n}
      /\ responses' = Append(responses, Line("answer", n))
      /\ requests' = requests /\ server' = server /\ notes' = notes /\ strays' = strays
    BY DEF ServerAnswers
<1>3. /\ responses' \in Seq(Lines) /\ Len(responses') = Len(responses) + 1
      /\ Len(responses) \in Nat
      /\ \A i \in 1..Len(responses) : responses'[i] = responses[i]
      /\ responses'[Len(responses) + 1] = Line("answer", n)
      /\ 1..Len(responses') = 1..Len(responses) \cup {Len(responses) + 1}
      /\ InFlight' = InFlight \cup {n}
      /\ \A i \in 1..Len(responses) : responses[i].kind # "eof"
      /\ \A i \in 1..Len(responses) : \A k : BehindAnswer(i, k) => BehindAnswer(i, k)'
    BY <1>1, <1>2, PipeGrows
<1>4. McpShapeInv'
    BY <1>2, <1>3 DEF McpInv, McpShapeInv
<1>5. CallInv' /\ OwnerInv' /\ McpOwnAnswer'
    BY <1>2, CallsStay
<1>6. EndInv'
    BY <1>1, <1>2, <1>3 DEF EndInv
<1>7. AnswerInv'
  <2>1. /\ asked' \cap answered' = {}
        /\ \A m \in asked' \cup answered' : requests'[m].at \in {"receiving", "ended"}
      BY <1>2 DEF McpInv, AnswerInv
  <2>2. ASSUME NEW i \in 1..Len(responses'), responses'[i].kind = "answer"
        PROVE  responses'[i].request \in answered'
      BY <1>1, <1>2, <1>3, <2>2 DEF McpInv, AnswerInv
  <2>3. \A i \in 1..Len(responses) : responses[i].kind = "answer" => responses[i].request # n
      BY <1>2 DEF McpInv, AnswerInv
  <2>4. ASSUME NEW i \in 1..Len(responses'), NEW j \in 1..Len(responses'),
               responses'[i].kind = "answer", responses'[j].kind = "answer",
               responses'[j].request = responses'[i].request
        PROVE  j = i
      BY <1>1, <1>3, <2>3, <2>4 DEF McpInv, AnswerInv
  <2> QED BY <2>1, <2>2, <2>4 DEF AnswerInv
<1>8. AgainInv'
  <2>1. \A m \in answered' : requests'[m].at = "ended" \/ m \in InFlight'
      BY <1>2, <1>3 DEF McpInv, AgainInv
  <2>2. ASSUME NEW i \in 1..Len(responses'), NEW k,
               responses'[i].kind = "again", responses'[i].request = k
        PROVE  k \in answered' /\ (requests'[k].at = "ended" \/ BehindAnswer(i, k)')
    <3>1. i \in 1..Len(responses) /\ responses'[i] = responses[i]
        BY <1>1, <1>3, <2>2
    <3>2. k \in answered /\ (requests[k].at = "ended" \/ BehindAnswer(i, k))
        BY <2>2, <3>1 DEF McpInv, AgainInv
    <3> QED BY <1>2, <1>3, <3>1, <3>2
  <2> QED BY <2>1, <2>2 DEF AgainInv
<1>9. ServedInv'
    BY <1>2, <1>3 DEF McpInv, ServedInv, Writing
<1> QED BY <1>4, <1>5, <1>6, <1>7, <1>8, <1>9 DEF McpInv

LEMMA StraysInv ==
    ASSUME McpInv, NEW kind \in {"note", "text", "request", "again"}, NEW n \in 0..MaxRequests,
           ServerStrays(kind, n)
    PROVE  McpInv'
<1>1. /\ Line(kind, n) \in Lines /\ Line(kind, n).kind = kind /\ Line(kind, n).request = n
      /\ n \in Nat
    BY McpAssumption DEF Line, Lines, LineKinds
<1>2. strays' \in 0..MaxStray
    BY McpAssumption DEF ServerStrays, McpInv, McpShapeInv
<1>3. /\ kind = "again" => n \in answered
      /\ Writing /\ responses' = Append(responses, Line(kind, n))
      /\ UNCHANGED <<requests, asked, answered, server, notes>>
    BY DEF ServerStrays
<1>4. server' \in {"up", "deaf", "mute", "exited"}
    BY <1>3 DEF McpInv, McpShapeInv
<1> QED BY <1>1, <1>2, <1>3, <1>4, StrayInv

\* Of the server only that it writes on matters.
LEMMA ServerInv ==
    ASSUME McpInv, UNCHANGED <<requests, asked, answered, responses, notes, strays>>,
           server' \in {"up", "deaf", "mute", "exited"}, Writing' => Writing
    PROVE  McpInv'
<1>1. InFlight' = InFlight
    BY DEF InFlight
<1>2. McpShapeInv' /\ CallInv' /\ OwnerInv' /\ McpOwnAnswer'
    BY CallsStay DEF McpInv, McpShapeInv
<1>3. AnswerInv' /\ AgainInv'
    BY <1>1 DEF McpInv, AnswerInv, AgainInv, BehindAnswer
<1>4. EndInv' /\ ServedInv'
    BY <1>1 DEF McpInv, EndInv, ServedInv
<1> QED BY <1>2, <1>3, <1>4 DEF McpInv

LEMMA StopsInv ==
    ASSUME McpInv, NEW how \in {"mute", "exited"}, ServerStops(how) PROVE McpInv'
<1>1. EndOfOutput \in Lines /\ EndOfOutput.kind = "eof"
    BY DEF EndOfOutput, Line, Lines, LineKinds
<1>2. /\ server' \in {"up", "deaf", "mute", "exited"} /\ ~Writing' /\ strays' \in 0..MaxStray
      /\ UNCHANGED <<requests, asked, answered, notes, strays>>
    BY DEF ServerStops, Writing, McpInv, McpShapeInv
<1>3. CASE Writing /\ responses' = Append(responses, EndOfOutput)
    BY <1>1, <1>2, <1>3, StrayInv
<1>4. CASE UNCHANGED responses
    BY <1>2, <1>4, ServerInv
<1> QED BY <1>3, <1>4 DEF ServerStops

LEMMA McpInvStep == McpInv /\ [McpNext]_mcp => McpInv'
<1> SUFFICES ASSUME McpInv, [McpNext]_mcp PROVE McpInv'
    OBVIOUS
<1>1. CASE IssueRequest
    BY <1>1, IssueInv
<1>2. ASSUME NEW n \in DOMAIN requests, PassDeadline(n) \/ TakeStream(n) \/ SendRequest(n)
      PROVE  McpInv'
    BY <1>2, GoesOnInv
<1>3. ASSUME NEW n \in DOMAIN requests, SendFails(n) \/ TimeOutRequest(n) PROVE McpInv'
    BY <1>3, GivesUpInv
<1>4. ASSUME NEW n \in DOMAIN requests, ReceiveLine(n) PROVE McpInv'
    BY <1>4, ReceiveInv
<1>5. ASSUME NEW n \in DOMAIN requests, ServerAnswers(n) PROVE McpInv'
    BY <1>5, AnswersInv
<1>6. ASSUME NEW kind \in {"note", "text", "request", "again"}, NEW n \in 0..MaxRequests,
             ServerStrays(kind, n)
      PROVE  McpInv'
    BY <1>6, StraysInv
<1>7. CASE ServerDeaf
    BY <1>7, ServerInv DEF ServerDeaf, Writing
<1>8. ASSUME NEW how \in {"mute", "exited"}, ServerStops(how) PROVE McpInv'
    BY <1>8, StopsInv
<1>9. CASE UNCHANGED mcp
  <2>1. server \in {"up", "deaf", "mute", "exited"}
      BY DEF McpInv, McpShapeInv
  <2> QED BY <1>9, <2>1, ServerInv DEF mcp, Writing
<1> QED BY <1>1, <1>2, <1>3, <1>4, <1>5, <1>6, <1>7, <1>8, <1>9 DEF McpNext

LEMMA McpInvariance == McpSpec => []McpInv
BY McpInvInit, McpInvStep, PTL DEF McpSpec

\* Whatever the server writes in whatever order, answers late, twice or never, lines
\* that are no JSON, requests of its own under any id, a call returns the answer to
\* itself or fails; and where it fails by another call's first answer, that call had
\* left the stream without it (StdioTransport.request).
THEOREM OwnAnswers == McpSpec => []McpOwnAnswer
BY McpInvariance, PTL DEF McpInv

-----------------------------------------------------------------------------
(* LanguageServer, for any texts, diagnoses, changes and messages          *)

LspPlaces == {"none", "starting", "greeting", "initializing", "opening", "waiting",
           "closing", "parsing", "done"}
Serving == {"greeting", "initializing", "opening", "waiting", "closing"}
FileTexts == Texts \cup {"absent"}

Diagnoses == [at : LspPlaces, read : FileTexts, late : BOOLEAN,
              from : {"nobody", "server", "parser"}, about : FileTexts]
Kinds == {"answer", "error", "other", "garbage", "publish", "end"}
Messages == [kind : Kinds, about : FileTexts]
Servers == [at : {"none", "up", "gone"}, reads : BOOLEAN, opened : BOOLEAN]

LspShapeInv ==
    /\ text \in FileTexts /\ diagnosis \in Diagnoses
    /\ inbox \in Seq(Messages) /\ langServer \in Servers
    /\ messages \in 0..MaxMessages /\ rewritten \in BOOLEAN

\* A text is about what was read, or the file has changed since.
AsRead(about) == about = diagnosis.read \/ rewritten

\* While the file is as it was read, the text is known.
TextInv == UnderWay => AsRead(text)

\* Each diagnosis has a queue of its own: what is published there is about its
\* text, or about the file as it is by then.
QueueInv ==
    diagnosis.at \in Serving =>
        \A i \in 1..Len(inbox) : inbox[i].kind = "publish" => AsRead(inbox[i].about)

\* A server lives between its start and its stop.
LifeInv == langServer.at = "up" => diagnosis.at \in Serving

\* What the server has said ends the wait for it.
FoundInv ==
    /\ diagnosis.from = "server" => diagnosis.at \in {"closing", "done"}
    /\ diagnosis.at = "closing" /\ diagnosis.from = "server" => AsRead(diagnosis.about)
    /\ diagnosis.at = "done" => AsRead(diagnosis.about)

LspInv == LspShapeInv /\ TextInv /\ QueueInv /\ LifeInv /\ FoundInv

-----------------------------------------------------------------------------
LEMMA LspInvInit == LspInit => LspInv
<1> SUFFICES ASSUME LspInit PROVE LspInv
    OBVIOUS
<1>1. /\ diagnosis = NoDiagnosis /\ langServer = NoServer /\ inbox = <<>>
      /\ text \in Texts /\ messages = 0 /\ rewritten = FALSE
    BY DEF LspInit
<1>2. NoDiagnosis \in Diagnoses /\ NoServer \in Servers
    BY DEF NoDiagnosis, NoServer, Diagnoses, Servers, LspPlaces, FileTexts
<1>3. LspShapeInv
  <2>1. inbox \in Seq(Messages)
      BY <1>1
  <2>2. messages \in 0..MaxMessages
      BY <1>1, DiagnosisAssumption
  <2>3. text \in FileTexts /\ rewritten \in BOOLEAN
      BY <1>1 DEF FileTexts
  <2> QED BY <1>1, <1>2, <2>1, <2>2, <2>3 DEF LspShapeInv
<1>4. TextInv /\ QueueInv /\ LifeInv /\ FoundInv
    BY <1>1 DEF TextInv, QueueInv, LifeInv, FoundInv, UnderWay, Serving, NoDiagnosis, NoServer
<1> QED BY <1>3, <1>4 DEF LspInv

\* A step between places that reads no message, and leaves file and server alone
LEMMA GoInv ==
    ASSUME LspInv, NEW place \in {"parsing", "initializing", "waiting", "closing", "done"},
           diagnosis.at \in {"starting", "greeting", "opening", "initializing", "waiting"},
           Go(place), UNCHANGED <<text, inbox, messages, rewritten>>,
           diagnosis.at = "starting" => place = "parsing",
           diagnosis.at # "starting" => place \in {"initializing", "waiting", "closing"},
           langServer' \in Servers, langServer'.at = langServer.at
    PROVE  LspInv'
<1>1. /\ diagnosis' \in Diagnoses /\ diagnosis'.at = place
      /\ diagnosis'.read = diagnosis.read /\ diagnosis'.from = diagnosis.from
      /\ diagnosis'.about = diagnosis.about
    BY DEF Go, LspInv, LspShapeInv, Diagnoses, LspPlaces
<1>2. LspShapeInv'
    BY <1>1 DEF LspInv, LspShapeInv
<1>3. TextInv'
    BY <1>1 DEF LspInv, TextInv, AsRead, UnderWay
<1>4. QueueInv'
    BY <1>1 DEF LspInv, QueueInv, Serving, AsRead
<1>5. LifeInv'
    BY <1>1 DEF LspInv, LifeInv, Serving
<1>6. FoundInv'
    BY <1>1 DEF LspInv, FoundInv
<1> QED BY <1>2, <1>3, <1>4, <1>5, <1>6 DEF LspInv

\* The next message is taken; the wait goes on, ends or has its answer.
LEMMA TakeInv ==
    ASSUME LspInv, inbox # <<>>, inbox' = Tail(inbox),
           text' = text, langServer' = langServer, messages' = messages,
           rewritten' = rewritten, diagnosis.at \in {"initializing", "waiting"},
           diagnosis' \in Diagnoses, diagnosis'.read = diagnosis.read,
           diagnosis'.at \in {"initializing", "opening", "waiting", "closing"},
           \/ diagnosis'.from = diagnosis.from
           \/ /\ Head(inbox).kind = "publish" /\ diagnosis'.at = "closing"
              /\ diagnosis'.about = Head(inbox).about
    PROVE  LspInv'
<1>1. /\ Head(inbox) = inbox[1] /\ 1 \in 1..Len(inbox)
      /\ inbox' \in Seq(Messages) /\ Len(inbox') = Len(inbox) - 1
      /\ \A i \in 1..Len(inbox') : inbox'[i] = inbox[i + 1] /\ i + 1 \in 1..Len(inbox)
    BY DEF LspInv, LspShapeInv
<1>2. LspShapeInv'
    BY <1>1 DEF LspInv, LspShapeInv
<1>3. TextInv' /\ LifeInv'
    BY DEF LspInv, TextInv, LifeInv, AsRead, UnderWay, Serving
<1>4. QueueInv'
    BY <1>1 DEF LspInv, QueueInv, Serving, AsRead
<1>5. Head(inbox).kind = "publish" => AsRead(Head(inbox).about)
    BY <1>1 DEF LspInv, QueueInv, Serving
<1>6. diagnosis.from # "server"
    BY DEF LspInv, FoundInv
<1>7. FoundInv'
    BY <1>5, <1>6 DEF FoundInv, AsRead
<1> QED BY <1>2, <1>3, <1>4, <1>7 DEF LspInv

LEMMA DiagnoseInv == ASSUME LspInv, Diagnose PROVE LspInv'
<1>1. /\ diagnosis' \in Diagnoses /\ diagnosis'.read = text /\ diagnosis'.about = "absent"
      /\ diagnosis'.from = "nobody"
      /\ diagnosis'.at = IF text = "absent" THEN "done" ELSE "starting"
    BY DEF Diagnose, Diagnoses, NoDiagnosis, LspPlaces, FileTexts, LspInv, LspShapeInv
<1>2. /\ text' = text /\ inbox' = inbox /\ langServer' = langServer /\ messages' = messages
      /\ rewritten' = FALSE
    BY DEF Diagnose
<1>3. langServer.at # "up"
    BY DEF Diagnose, LspInv, LifeInv, UnderWay, Serving
<1>4. LspShapeInv'
    BY <1>1, <1>2 DEF LspInv, LspShapeInv
<1>5. TextInv' /\ QueueInv' /\ LifeInv' /\ FoundInv'
    BY <1>1, <1>2, <1>3 DEF TextInv, QueueInv, LifeInv, FoundInv, Serving, AsRead
<1> QED BY <1>4, <1>5 DEF LspInv

LEMMA StartInv == ASSUME LspInv, StartServer PROVE LspInv'
<1>1. /\ diagnosis.at = "starting" /\ diagnosis' \in Diagnoses /\ diagnosis'.at = "greeting"
      /\ diagnosis'.read = diagnosis.read /\ diagnosis'.from = diagnosis.from
    BY DEF StartServer, Go, Diagnoses, LspPlaces, LspInv, LspShapeInv
<1>2. /\ langServer' \in Servers /\ inbox' = <<>> /\ messages' = 0
      /\ text' = text /\ rewritten' = rewritten
    BY DEF StartServer, NewQueue, NoServer, Servers
<1>3. LspShapeInv'
  <2>1. inbox' \in Seq(Messages) /\ messages' \in 0..MaxMessages
      BY <1>2, DiagnosisAssumption
  <2> QED BY <1>1, <1>2, <2>1 DEF LspInv, LspShapeInv
<1>4. TextInv' /\ QueueInv' /\ LifeInv' /\ FoundInv'
    BY <1>1, <1>2 DEF LspInv, TextInv, QueueInv, LifeInv, FoundInv, Serving, AsRead, UnderWay
<1> QED BY <1>3, <1>4 DEF LspInv

LEMMA PassLspDeadlineInv == ASSUME LspInv, PassLspDeadline PROVE LspInv'
<1>1. /\ diagnosis' \in Diagnoses /\ diagnosis'.at = diagnosis.at
      /\ diagnosis'.read = diagnosis.read /\ diagnosis'.from = diagnosis.from
      /\ diagnosis'.about = diagnosis.about
      /\ text' = text /\ inbox' = inbox /\ langServer' = langServer /\ messages' = messages
      /\ rewritten' = rewritten
    BY DEF PassLspDeadline, lspBounds, Diagnoses, LspInv, LspShapeInv
<1> QED BY <1>1 DEF LspInv, LspShapeInv, TextInv, QueueInv, LifeInv, FoundInv, AsRead, UnderWay

\* What the server said stands; otherwise the parser is asked.
LEMMA StopInv == ASSUME LspInv, StopServer PROVE LspInv'
<1>1. /\ diagnosis.at = "closing" /\ diagnosis' \in Diagnoses
      /\ diagnosis'.at = IF diagnosis.from = "server" THEN "done" ELSE "parsing"
      /\ diagnosis'.read = diagnosis.read /\ diagnosis'.from = diagnosis.from
      /\ diagnosis'.about = diagnosis.about
    BY DEF StopServer, Go, Diagnoses, LspPlaces, LspInv, LspShapeInv
<1>2. /\ langServer' \in Servers /\ langServer'.at = "gone"
      /\ text' = text /\ inbox' = inbox /\ messages' = messages /\ rewritten' = rewritten
    BY DEF StopServer, Servers, lspBounds, LspInv, LspShapeInv
<1>3. LspShapeInv'
    BY <1>1, <1>2 DEF LspInv, LspShapeInv
<1>4. TextInv' /\ QueueInv' /\ LifeInv' /\ FoundInv'
    BY <1>1, <1>2 DEF LspInv, TextInv, QueueInv, LifeInv, FoundInv, Serving, AsRead, UnderWay
<1> QED BY <1>3, <1>4 DEF LspInv

LEMMA ParseInv == ASSUME LspInv, Parse PROVE LspInv'
<1>1. /\ diagnosis.at = "parsing" /\ diagnosis' \in Diagnoses /\ diagnosis'.at = "done"
      /\ diagnosis'.read = diagnosis.read /\ diagnosis'.about = diagnosis.read
      /\ diagnosis'.from = "parser"
      /\ text' = text /\ inbox' = inbox /\ langServer' = langServer /\ messages' = messages
      /\ rewritten' = rewritten
    BY DEF Parse, lspBounds, Diagnoses, LspPlaces, LspInv, LspShapeInv
<1>2. LspShapeInv'
    BY <1>1 DEF LspInv, LspShapeInv
<1>3. TextInv' /\ QueueInv' /\ LifeInv' /\ FoundInv'
    BY <1>1 DEF LspInv, TextInv, QueueInv, LifeInv, FoundInv, Serving, AsRead, UnderWay
<1> QED BY <1>2, <1>3 DEF LspInv

\* The client goes on.
LEMMA AdvanceInv == ASSUME LspInv, LspAdvance PROVE LspInv'
<1>1. CASE StartFails
    BY <1>1, GoInv DEF StartFails, lspBounds, LspInv, LspShapeInv
<1>2. CASE Greet
    BY <1>2, GoInv DEF Greet, lspBounds, LspInv, LspShapeInv
<1>3. CASE OpenText
  <2>1. /\ langServer' \in Servers /\ langServer'.at = langServer.at
        /\ UNCHANGED <<text, inbox, messages, rewritten>>
      BY <1>3 DEF OpenText, lspBounds, Servers, LspInv, LspShapeInv
  <2> QED BY <1>3, <2>1, GoInv DEF OpenText
<1>4. CASE TimeOut
    BY <1>4, GoInv DEF TimeOut, lspBounds, LspInv, LspShapeInv
<1>5. CASE AwaitAnswer
  <2>1. /\ inbox # <<>> /\ inbox' = Tail(inbox) /\ diagnosis.at = "initializing"
        /\ text' = text /\ langServer' = langServer /\ messages' = messages
        /\ rewritten' = rewritten
      BY <1>5 DEF AwaitAnswer, NextMessage, lspBounds
  <2>2. /\ diagnosis' \in Diagnoses /\ diagnosis'.read = diagnosis.read
        /\ diagnosis'.at \in {"initializing", "opening", "closing"}
        /\ diagnosis'.from = diagnosis.from
      BY <1>5 DEF AwaitAnswer, Go, Diagnoses, LspPlaces, LspInv, LspShapeInv
  <2> QED BY <2>1, <2>2, TakeInv
<1>6. CASE AwaitDiagnostics
  <2>1. /\ inbox # <<>> /\ inbox' = Tail(inbox) /\ diagnosis.at = "waiting"
        /\ text' = text /\ langServer' = langServer /\ messages' = messages
        /\ rewritten' = rewritten
      BY <1>6 DEF AwaitDiagnostics, NextMessage, lspBounds
  <2>2. Head(inbox) \in Messages
      BY <2>1 DEF LspInv, LspShapeInv
  <2>3. Head(inbox).about \in FileTexts
      BY <2>2 DEF Messages
  <2>4. /\ diagnosis' \in Diagnoses /\ diagnosis'.read = diagnosis.read
        /\ diagnosis'.at \in {"waiting", "closing"}
        /\ \/ diagnosis'.from = diagnosis.from
           \/ /\ Head(inbox).kind = "publish" /\ diagnosis'.at = "closing"
              /\ diagnosis'.about = Head(inbox).about
      BY <1>6, <2>1, <2>3 DEF AwaitDiagnostics, Diagnoses, LspPlaces, LspInv, LspShapeInv
  <2> QED BY <2>1, <2>4, TakeInv
<1> QED BY <1>1, <1>2, <1>3, <1>4, <1>5, <1>6, StartInv, PassLspDeadlineInv, StopInv, ParseInv
        DEF LspAdvance

-----------------------------------------------------------------------------
LEMMA SaysInv ==
    ASSUME LspInv, NEW message \in Messages, langServer.at = "up",
           inbox' = Append(inbox, message), messages' \in 0..MaxMessages,
           message.kind = "publish" => AsRead(message.about),
           langServer' \in Servers, text' = text, diagnosis' = diagnosis,
           rewritten' = rewritten
    PROVE  LspInv'
<1>1. /\ inbox' \in Seq(Messages) /\ Len(inbox') = Len(inbox) + 1
      /\ Len(inbox) \in Nat
      /\ \A i \in 1..Len(inbox) : inbox'[i] = inbox[i]
      /\ inbox'[Len(inbox) + 1] = message
    BY DEF LspInv, LspShapeInv
<1>2. \A i \in 1..Len(inbox') : i \in 1..Len(inbox) \/ i = Len(inbox) + 1
    BY <1>1
<1>3. QueueInv'
    BY <1>1, <1>2 DEF LspInv, QueueInv, AsRead
<1>4. LifeInv' /\ LspShapeInv'
    BY <1>1 DEF LspInv, LspShapeInv, LifeInv
<1>5. TextInv' /\ FoundInv'
    BY DEF LspInv, TextInv, FoundInv, AsRead, UnderWay
<1> QED BY <1>3, <1>4, <1>5 DEF LspInv

LEMMA OtherMessageInv ==
    ASSUME LspInv, NEW kind \in {"answer", "error", "other", "garbage"},
           LangServerSays(Message(kind, "absent"))
    PROVE  LspInv'
<1>1. Message(kind, "absent") \in Messages /\ Message(kind, "absent").kind = kind
    BY DEF Message, Messages, Kinds, FileTexts
<1>2. messages' \in 0..MaxMessages /\ langServer' \in Servers
    BY DiagnosisAssumption DEF LangServerSays, LspInv, LspShapeInv
<1> QED BY <1>1, <1>2, SaysInv DEF LangServerSays

\* While the server is up a diagnosis is under way: the file is what was read, or
\* has changed since.
LEMMA PublishInv == ASSUME LspInv, LangServerPublishes PROVE LspInv'
<1>1. PICK about \in {text} \cup (IF langServer.opened THEN {diagnosis.read} ELSE {}) :
          LangServerSays(Message("publish", about))
    BY DEF LangServerPublishes
<1>2. about \in {text, diagnosis.read} /\ about \in FileTexts
    BY <1>1 DEF LspInv, LspShapeInv, Diagnoses
<1>3. Message("publish", about) \in Messages /\ Message("publish", about).about = about
    BY <1>2 DEF Message, Messages, Kinds
<1>4. UnderWay
    BY <1>1 DEF LangServerSays, LspInv, LifeInv, UnderWay, Serving
<1>5. AsRead(about)
    BY <1>2, <1>4 DEF LspInv, TextInv, AsRead
<1>6. messages' \in 0..MaxMessages /\ langServer' \in Servers
    BY <1>1, DiagnosisAssumption DEF LangServerSays, LspInv, LspShapeInv
<1> QED BY <1>1, <1>3, <1>5, <1>6, SaysInv DEF LangServerSays

LEMMA EndsInv == ASSUME LspInv, LangServerEnds PROVE LspInv'
<1>1. Message("end", "absent") \in Messages /\ Message("end", "absent").kind = "end"
    BY DEF Message, Messages, Kinds, FileTexts
<1>2. langServer' \in Servers /\ messages' \in 0..MaxMessages
    BY DEF LangServerEnds, lspBounds, Servers, LspInv, LspShapeInv
<1> QED BY <1>1, <1>2, SaysInv DEF LangServerEnds

LEMMA DeafInv == ASSUME LspInv, LangServerStopsReading PROVE LspInv'
<1>1. /\ langServer' \in Servers /\ langServer'.at = langServer.at
      /\ text' = text /\ diagnosis' = diagnosis /\ inbox' = inbox /\ messages' = messages
      /\ rewritten' = rewritten
    BY DEF LangServerStopsReading, lspBounds, Servers, LspInv, LspShapeInv
<1> QED BY <1>1 DEF LspInv, LspShapeInv, TextInv, QueueInv, LifeInv, FoundInv, AsRead, UnderWay

LEMMA ChangeInv ==
    ASSUME LspInv, NEW content \in Texts \cup {"absent"}, ChangeText(content)
    PROVE  LspInv'
<1>1. /\ text' = content /\ content \in FileTexts
      /\ diagnosis' = diagnosis /\ inbox' = inbox /\ langServer' = langServer
      /\ messages' = messages
      /\ rewritten' \in BOOLEAN /\ (rewritten => rewritten') /\ (UnderWay => rewritten')
    BY DEF ChangeText, LspInv, LspShapeInv, UnderWay, FileTexts
<1>2. LspShapeInv'
    BY <1>1 DEF LspInv, LspShapeInv
<1>3. TextInv' /\ QueueInv' /\ LifeInv' /\ FoundInv'
    BY <1>1 DEF LspInv, TextInv, QueueInv, LifeInv, FoundInv, AsRead, UnderWay
<1> QED BY <1>2, <1>3 DEF LspInv

LEMMA LspInvStep == LspInv /\ [LspNext]_lsp => LspInv'
<1> SUFFICES ASSUME LspInv, [LspNext]_lsp PROVE LspInv'
    OBVIOUS
<1>1. CASE UNCHANGED lsp
    BY <1>1 DEF lsp, LspInv, LspShapeInv, TextInv, QueueInv, LifeInv, FoundInv, AsRead, UnderWay
<1>2. CASE LspNext
    BY <1>2, DiagnoseInv, AdvanceInv, OtherMessageInv, PublishInv, EndsInv, DeafInv, ChangeInv
       DEF LspNext
<1> QED BY <1>1, <1>2

\* What the loop is told of an edited file is about the text read for it, and no
\* server outlives its question (StdioLanguageServerDiagnosticProvider.diagnostics).
THEOREM DiagnosesWhatWasRead == LspSpec => []DiagnosisOfRead
<1>1. ASSUME LspInv PROVE DiagnosisOfRead
    BY <1>1 DEF LspInv, LifeInv, FoundInv, AsRead, DiagnosisOfRead, UnderWay, Serving
<1> QED BY <1>1, LspInvInit, LspInvStep, PTL DEF LspSpec

-----------------------------------------------------------------------------
(* ManagedMemory, for any programs, facts, attributions, supersessions and  *)
(* any table to begin with                                                 *)

Tables == [Facts -> Rows]
Ops == [at : {"idle", "mark", "read", "write", "supersede"}, by : {"user", "model"},
        fact : Facts \cup {"none"}, source : Sources \cup {"none"},
        version : Versions \cup {"none"},
        losers : SUBSET Facts, seen : Rows, overlap : BOOLEAN]
Grounds == [how : {"no", "user", "raced", "moved"}, source : Sources \cup {"none"},
            version : Versions \cup {"none"}]

MemShapeInv ==
    /\ rows \in Tables /\ ops \in [Stores -> Ops]
    /\ begun \in 0..MaxOps
    /\ backing \in [Facts -> Grounds]

\* What a trusted row may rest on
Grounded(ground, row) == ground.how \in {"raced", "moved"} \/ ground = Backed("user", row)

\* What an operation may rely on: a save that no other program overlapped finds
\* the row as it read it, and its older versions marked.
Sound(op, table) ==
    /\ op.at # "idle" => op.fact \in Facts
    /\ op.at = "write" /\ ~op.overlap => op.seen = table[op.fact]
    /\ op.at \in {"read", "write"} /\ ~op.overlap /\ Marks(op.by, op.source, op.version) =>
        (table[op.fact].status \in Trusted /\ table[op.fact].source = op.source
            => table[op.fact].version = op.version)

SaveInv == \A s \in Stores : Sound(ops[s], rows)

MemInv == MemShapeInv /\ SaveInv /\ TrustIsVouched

-----------------------------------------------------------------------------
LEMMA IdleOp == IdleStore \in Ops /\ IdleStore.at = "idle" /\ NoRow \in Rows
BY DEF IdleStore, Ops, NoRow, Rows, Statuses, Trusted

LEMMA Grounding ==
    ASSUME NEW row \in Rows
    PROVE  /\ \A how \in {"no", "user", "raced", "moved"} : Backed(how, row) \in Grounds
           /\ \A how \in {"user", "raced", "moved"} : Grounded(Backed(how, row), row)
           /\ NotBacked \in Grounds
BY IdleOp DEF Rows, Grounds, Grounded, Backed, NotBacked

LEMMA MemInvInit == MemoryInit => MemInv
<1> SUFFICES ASSUME MemoryInit PROVE MemInv
    OBVIOUS
<1>1. rows \in Tables /\ ops \in [Stores -> Ops]
    BY IdleOp, MemoryAssumption DEF MemoryInit, Tables
<1>2. begun \in 0..MaxOps
    BY MemoryAssumption DEF MemoryInit
<1>3. SaveInv
    BY IdleOp DEF MemoryInit, SaveInv, Sound
<1>4. backing \in [Facts -> Grounds]
    BY <1>1, Grounding DEF MemoryInit, Tables
<1>5. TrustIsVouched
    BY DEF MemoryInit, TrustIsVouched, Retrieved
<1> QED BY <1>1, <1>2, <1>3, <1>4, <1>5 DEF MemInv, MemShapeInv

\* A transaction of one store leaves the other stores' operations sound: those
\* whose row it changes are overlapped.
LEMMA TransactSound ==
    ASSUME MemInv, NEW s \in Stores, NEW op \in Ops, NEW table \in Tables,
           Transact(s, op, table), Sound(op, table)
    PROVE  /\ rows' = table /\ rows' \in Tables
           /\ ops' \in [Stores -> Ops] /\ SaveInv'
<1>1. ops \in [Stores -> Ops] /\ rows' = table
    BY DEF MemInv, MemShapeInv, Transact
<1> DEFINE other(t) == IF ops[t].at \in {"read", "write"}
                       THEN [ops[t] EXCEPT !.overlap = @ \/ table[ops[t].fact] # rows[ops[t].fact]]
                       ELSE ops[t]
<1>2. ASSUME NEW t \in Stores
      PROVE  other(t) \in Ops /\ Sound(other(t), table)
  <2>1. ops[t] \in Ops /\ Sound(ops[t], rows)
      BY <1>1 DEF MemInv, SaveInv
  <2>2. CASE ops[t].at \notin {"read", "write"}
      BY <2>1, <2>2 DEF Sound
  <2>3. CASE ops[t].at \in {"read", "write"}
    <3> DEFINE met == table[ops[t].fact] # rows[ops[t].fact]
    <3>1. other(t) = [ops[t] EXCEPT !.overlap = @ \/ met]
        BY <2>3
    <3>2. ops[t].overlap \in BOOLEAN /\ met \in BOOLEAN
        BY <2>1 DEF Ops
    <3>3. /\ other(t) \in Ops /\ other(t).at = ops[t].at /\ other(t).fact = ops[t].fact
          /\ other(t).version = ops[t].version /\ other(t).source = ops[t].source
          /\ other(t).by = ops[t].by /\ other(t).seen = ops[t].seen
          /\ other(t).overlap <=> (ops[t].overlap \/ met)
        BY <2>1, <3>1, <3>2, ZenonT(60) DEF Ops
    <3> QED BY <2>1, <2>3, <3>3 DEF Sound, Marks
  <2> QED BY <2>2, <2>3
<1>3. ops' = [t \in Stores |-> IF t = s THEN op ELSE other(t)]
    BY DEF Transact
<1>4. ops' \in [Stores -> Ops]
    BY <1>2, <1>3
<1>5. ASSUME NEW t \in Stores PROVE Sound(ops'[t], rows')
    BY <1>1, <1>2, <1>3
<1> QED BY <1>1, <1>4, <1>5 DEF SaveInv

\* A step of one store's operation, the table as it is
LEMMA OwnStep ==
    ASSUME MemInv, NEW s \in Stores, NEW op \in Ops, Sound(op, rows),
           ops' = [ops EXCEPT ![s] = op], UNCHANGED <<rows, backing>>,
           begun' \in 0..MaxOps
    PROVE  MemInv'
<1>1. ops' \in [Stores -> Ops]
    BY DEF MemInv, MemShapeInv
<1>2. SaveInv'
    BY DEF MemInv, MemShapeInv, SaveInv
<1> QED BY <1>1, <1>2 DEF MemInv, MemShapeInv, TrustIsVouched, Retrieved

\* A transaction after which each trusted fact is as it was, or is backed anew
LEMMA TransactInv ==
    ASSUME MemInv, NEW s \in Stores, NEW op \in Ops, NEW table \in Tables,
           Transact(s, op, table), Sound(op, table), begun' \in 0..MaxOps,
           backing' \in [Facts -> Grounds],
           \A f \in Facts : table[f].status \in Trusted => Grounded(backing'[f], table[f])
    PROVE  MemInv'
<1>1. rows' = table /\ rows' \in Tables /\ ops' \in [Stores -> Ops] /\ SaveInv'
    BY TransactSound
<1>2. TrustIsVouched'
    BY <1>1 DEF TrustIsVouched, Retrieved, Grounded
<1> QED BY <1>1, <1>2 DEF MemInv, MemShapeInv

LEMMA BackingKept ==
    ASSUME MemInv, NEW table \in Tables
    PROVE  /\ Backing(table) \in [Facts -> Grounds]
           /\ \A f \in Facts : table[f] = rows[f] /\ table[f].status \in Trusted =>
                Grounded(Backing(table)[f], table[f])
BY IdleOp, Grounding DEF Backing, MemInv, MemShapeInv, TrustIsVouched, Retrieved, Grounded

-----------------------------------------------------------------------------
LEMMA BeginSaveInv ==
    ASSUME MemInv, NEW s \in Stores, NEW by \in {"user", "model"}, NEW f \in Facts,
           NEW source \in Sources \cup {"none"}, NEW version \in Versions \cup {"none"},
           NEW losers \in Losers, BeginSave(s, by, f, source, version, losers)
    PROVE  MemInv'
<1> DEFINE op == [at |-> IF Marks(by, source, version) THEN "mark" ELSE "read", by |-> by,
                  fact |-> f, source |-> source, version |-> version, losers |-> losers,
                  seen |-> NoRow, overlap |-> FALSE]
<1>1. op \in Ops
    BY IdleOp, MemoryAssumption DEF Ops
<1>2. Sound(op, rows)
    BY DEF Sound, Marks
<1>3. begun' \in 0..MaxOps
    BY MemoryAssumption DEF BeginSave, Begin, MemInv, MemShapeInv
<1> QED BY <1>1, <1>2, <1>3, OwnStep DEF BeginSave

\* Trusted rows of another version are trusted no longer.
LEMMA MarkInv == ASSUME MemInv, NEW s \in Stores, MarkStale(s) PROVE MemInv'
<1> DEFINE Outdated(r) == /\ r.source = ops[s].source /\ r.version # ops[s].version
                          /\ r.status \notin {"absent", "deleted", "superseded"}
           table == [f \in Facts |-> IF Outdated(rows[f])
                                     THEN [rows[f] EXCEPT !.status = "stale"] ELSE rows[f]]
           op == [ops[s] EXCEPT !.at = "read"]
<1>1. ops[s] \in Ops /\ ops[s].at = "mark" /\ ops[s].fact \in Facts
    BY DEF MarkStale, MemInv, MemShapeInv, SaveInv, Sound
<1>2. ASSUME NEW f \in Facts
      PROVE  /\ table[f] \in Rows
             /\ table[f].status \in Trusted =>
                  /\ table[f] = rows[f]
                  /\ table[f].source = ops[s].source => table[f].version = ops[s].version
  <2>1. rows[f] \in Rows
      BY DEF MemInv, MemShapeInv, Tables
  <2>2. CASE Outdated(rows[f])
    <3>1. table[f] = [rows[f] EXCEPT !.status = "stale"]
        BY <2>2
    <3> QED BY <2>1, <3>1 DEF Rows, Statuses, Trusted
  <2>3. CASE ~Outdated(rows[f])
    <3>1. table[f] = rows[f]
        BY <2>3
    <3> QED BY <2>1, <2>3, <3>1 DEF Trusted
  <2> QED BY <2>2, <2>3
<1>3. table \in Tables
    BY <1>2 DEF Tables
<1>4. op \in Ops /\ op.at = "read" /\ op.fact = ops[s].fact /\ op.version = ops[s].version
          /\ op.source = ops[s].source
    BY <1>1 DEF Ops
<1>5. Sound(op, table)
    BY <1>1, <1>2, <1>4 DEF Sound
<1>6. Transact(s, op, table) /\ backing' = Backing(table) /\ UNCHANGED begun
    BY DEF MarkStale
<1>7. \A f \in Facts : table[f].status \in Trusted => Grounded(Backing(table)[f], table[f])
    BY <1>2, <1>3, BackingKept
<1>8. begun' \in 0..MaxOps
    BY <1>6 DEF MemInv, MemShapeInv
<1>9. Backing(table) \in [Facts -> Grounds]
    BY <1>3, BackingKept
<1> HIDE DEF table, op
<1> QED BY <1>3, <1>4, <1>5, <1>6, <1>7, <1>8, <1>9, TransactInv

LEMMA ReadInv == ASSUME MemInv, NEW s \in Stores, ReadRow(s) PROVE MemInv'
<1> DEFINE op == [ops[s] EXCEPT !.at = "write", !.seen = rows[ops[s].fact]]
<1>1. /\ ops[s] \in Ops /\ ops[s].at = "read" /\ ops[s].fact \in Facts /\ Sound(ops[s], rows)
      /\ rows[ops[s].fact] \in Rows
    BY DEF ReadRow, MemInv, MemShapeInv, SaveInv, Sound, Tables
<1>2. /\ op \in Ops /\ op.at = "write" /\ op.fact = ops[s].fact /\ op.version = ops[s].version
      /\ op.source = ops[s].source /\ op.by = ops[s].by
      /\ op.seen = rows[ops[s].fact] /\ op.overlap = ops[s].overlap
    BY <1>1 DEF Ops
<1>3. Sound(op, rows)
    BY <1>1, <1>2 DEF Sound
<1>4. ops' = [ops EXCEPT ![s] = op] /\ UNCHANGED <<rows, backing, begun>>
    BY DEF ReadRow, MemInv, MemShapeInv
<1> QED BY <1>2, <1>3, <1>4, OwnStep DEF MemInv, MemShapeInv

\* A save of the user vouches for the row it writes.  One of the model leaves a
\* row trusted only when it found it verified: unless it was overlapped, the row
\* is still that one, and unless the save moves it, what it writes has the same
\* attribution, for marking has left that source no version but the one written.
LEMMA CarriedInv ==
    ASSUME MemInv, NEW op \in Ops, NEW row \in Rows, Sound(op, rows),
           op.at = "write", op.fact \in Facts, ~op.overlap, ~Moves(op, row),
           op.seen.status \in Trusted, op.seen.status # "absent",
           row.source = Kept(op.seen.source, op.source),
           row.version = Kept(op.seen.version, op.version)
    PROVE  op.seen = rows[op.fact] /\ Backed("user", row) = Backed("user", rows[op.fact])
<1>1. op.seen = rows[op.fact]
    BY DEF Sound
<1>2. CASE Backed("user", row) = Backed("user", op.seen)
    BY <1>1, <1>2
<1>3. CASE op.source # "none" /\ op.version # "none" /\ op.source = op.seen.source
  <2>1. op.seen.version = op.version
      BY <1>1, <1>3 DEF Sound, Marks
  <2>2. row.source = op.seen.source /\ row.version = op.seen.version
      BY <1>3, <2>1 DEF Kept
  <2> QED BY <1>1, <2>2 DEF Backed
<1> QED BY <1>2, <1>3 DEF Moves

LEMMA WriteInv == ASSUME MemInv, NEW s \in Stores, WriteRow(s) PROVE MemInv'
<1> DEFINE op == ops[s]
           row == [status |-> IF op.seen.status = "absent" THEN Given(op.by)
                              ELSE Effective(op.seen.status, Given(op.by)),
                   source |-> Kept(op.seen.source, op.source),
                   version |-> Kept(op.seen.version, op.version)]
           table == [rows EXCEPT ![op.fact] = row]
           carried == row.status \in Trusted
           ground == IF op.by = "user" THEN Backed("user", row)
                     ELSE IF carried /\ op.overlap THEN Backed("raced", row)
                     ELSE IF carried /\ Moves(op, row) THEN Backed("moved", row)
                     ELSE Backing(table)[op.fact]
<1>1. /\ op \in Ops /\ op.at = "write" /\ op.fact \in Facts /\ Sound(op, rows)
      /\ op.seen \in Rows /\ op.version \in Versions \cup {"none"}
      /\ op.source \in Sources \cup {"none"} /\ op.by \in {"user", "model"}
    BY DEF WriteRow, MemInv, MemShapeInv, SaveInv, Sound, Ops
<1>2. /\ row \in Rows
      /\ row.source = Kept(op.seen.source, op.source)
      /\ row.version = Kept(op.seen.version, op.version)
      /\ row.status \in Trusted /\ op.by # "user" => op.seen.status = "verified"
    BY <1>1 DEF Rows, Given, Effective, Statuses, Trusted, Kept
<1>3. table \in Tables /\ table[op.fact] = row /\ \A f \in Facts \ {op.fact} : table[f] = rows[f]
    BY <1>1, <1>2 DEF MemInv, MemShapeInv, Tables
<1>4. AfterWrite(op) \in Ops /\ AfterWrite(op).at \in {"idle", "supersede"}
      /\ (AfterWrite(op).at # "idle" => AfterWrite(op).fact \in Facts)
  <2>1. CASE op.losers \subseteq {op.fact}
      BY <2>1, IdleOp DEF AfterWrite
  <2>2. CASE ~(op.losers \subseteq {op.fact})
    <3>1. AfterWrite(op) = [op EXCEPT !.at = "supersede", !.losers = op.losers \ {op.fact}]
        BY <1>1, <2>2 DEF AfterWrite, Ops
    <3> QED BY <1>1, <3>1 DEF Ops
  <2> QED BY <2>1, <2>2
<1>5. Sound(AfterWrite(op), table)
    BY <1>4 DEF Sound
<1>6. /\ Backing(table) \in [Facts -> Grounds] /\ Backing(table)[op.fact] \in Grounds
      /\ \A f \in Facts : table[f] = rows[f] /\ table[f].status \in Trusted =>
            Grounded(Backing(table)[f], table[f])
      /\ carried => Backing(table)[op.fact] = backing[op.fact]
    BY <1>1, <1>3, BackingKept DEF Backing
<1>7. /\ Transact(s, AfterWrite(op), table) /\ UNCHANGED begun
      /\ backing' = [Backing(table) EXCEPT ![op.fact] = ground]
    BY <1>1, <1>6 DEF WriteRow
<1>8. ground \in Grounds
    BY <1>2, <1>6, Grounding
<1>9. ASSUME carried PROVE Grounded(ground, row)
  <2>1. CASE op.by = "user" \/ op.overlap \/ Moves(op, row)
      BY <1>2, <1>9, <2>1, Grounding
  <2>2. CASE ~(op.by = "user" \/ op.overlap \/ Moves(op, row))
    <3>1. op.seen = rows[op.fact] /\ Backed("user", row) = Backed("user", rows[op.fact])
          /\ op.seen.status \in Trusted
      <4>1. op.seen.status = "verified"
          BY <1>2, <1>9, <2>2
      <4>2. op.seen.status \in Trusted /\ op.seen.status # "absent"
          BY <4>1 DEF Trusted
      <4> HIDE DEF row, op
      <4> QED BY <1>1, <1>2, <2>2, <4>2, CarriedInv
    <3>2. Grounded(backing[op.fact], rows[op.fact])
        BY <1>1, <3>1 DEF MemInv, TrustIsVouched, Retrieved, Grounded
    <3>3. ground = backing[op.fact]
        BY <1>6, <1>9, <2>2
    <3> HIDE DEF row, ground
    <3> QED BY <3>1, <3>2, <3>3 DEF Grounded
  <2> QED BY <2>1, <2>2
<1> HIDE DEF ground
<1>10. /\ backing' \in [Facts -> Grounds] /\ backing'[op.fact] = ground
       /\ \A f \in Facts \ {op.fact} : backing'[f] = Backing(table)[f]
  <2> HIDE DEF table
  <2> QED BY <1>1, <1>6, <1>7, <1>8
<1>11. ASSUME NEW f \in Facts, table[f].status \in Trusted
       PROVE  Grounded(backing'[f], table[f])
  <2>1. CASE f = op.fact
      BY <1>3, <1>9, <1>10, <1>11, <2>1
  <2>2. CASE f # op.fact
      BY <1>3, <1>6, <1>10, <1>11, <2>2
  <2> QED BY <2>1, <2>2
<1>12. begun' \in 0..MaxOps
    BY <1>7 DEF MemInv, MemShapeInv
<1> HIDE DEF table, row
<1> QED BY <1>3, <1>4, <1>5, <1>7, <1>10, <1>11, <1>12, TransactInv

LEMMA SupersedeInv ==
    ASSUME MemInv, NEW s \in Stores, NEW f \in Facts, SupersedeOne(s, f) PROVE MemInv'
<1> DEFINE op == ops[s]
           left == op.losers \ {f}
           table == [rows EXCEPT ![f].status = "superseded"]
           next == IF left = {} THEN IdleStore ELSE [op EXCEPT !.losers = left]
<1>1. /\ op \in Ops /\ op.at = "supersede" /\ op.fact \in Facts
      /\ begun' \in 0..MaxOps
    BY DEF SupersedeOne, MemInv, MemShapeInv, SaveInv, Sound
<1>2. CASE rows[f].status # "absent"
  <2>1. Transact(s, next, table) /\ backing' = Backing(table)
      BY <1>2 DEF SupersedeOne
  <2>2. next \in Ops /\ next.at \in {"idle", "supersede"}
            /\ (next.at # "idle" => next.fact \in Facts)
    <3>1. CASE left = {}
        BY <3>1, IdleOp
    <3>2. CASE left # {}
      <4>1. next = [op EXCEPT !.losers = left]
          BY <3>2
      <4> QED BY <1>1, <4>1 DEF Ops
    <3> QED BY <3>1, <3>2
  <2>3. Sound(next, table)
      BY <2>2 DEF Sound
  <2>4. /\ table \in Tables /\ table[f].status \notin Trusted
        /\ \A g \in Facts \ {f} : table[g] = rows[g]
      BY DEF MemInv, MemShapeInv, Tables, Rows, Statuses, Trusted
  <2>5. \A g \in Facts : table[g].status \in Trusted => Grounded(Backing(table)[g], table[g])
      BY <2>4, BackingKept
  <2>6. Backing(table) \in [Facts -> Grounds]
      BY <2>4, BackingKept
  <2> HIDE DEF table, next
  <2> QED BY <1>1, <2>1, <2>2, <2>3, <2>4, <2>5, <2>6, TransactInv
<1>3. CASE rows[f].status = "absent"
    BY <1>1, <1>3, IdleOp, OwnStep DEF SupersedeOne, Sound
<1> QED BY <1>2, <1>3

\* The user's operations: what they make trusted they vouch for.
LEMMA StatusInv ==
    ASSUME MemInv, NEW s \in Stores, NEW f \in Facts, NEW op \in Ops,
           NEW status \in {"active", "verified", "deleted"}, SetStatus(s, f, status, op),
           op.at \in {"idle", "supersede"}, op.at # "idle" => op.fact \in Facts
    PROVE  MemInv'
<1> DEFINE table == [rows EXCEPT ![f].status = status]
<1>1. /\ Transact(s, op, table) /\ begun' = begun + 1 /\ begun < MaxOps
      /\ backing' = [Backing(table) EXCEPT ![f] =
                       IF status \in Trusted THEN Backed("user", rows[f]) ELSE @]
    BY DEF SetStatus, Begin
<1>2. /\ table \in Tables /\ table[f].status = status
      /\ \A g \in Facts \ {f} : table[g] = rows[g]
      /\ rows[f] \in Rows /\ table[f] \in Rows /\ Backed("user", table[f]) = Backed("user", rows[f])
    BY DEF Backed, MemInv, MemShapeInv, Tables, Rows, Statuses, Trusted
<1>3. Sound(op, table)
    BY DEF Sound
<1>4. Backing(table) \in [Facts -> Grounds]
    BY <1>2, BackingKept
<1>5. /\ backing' \in [Facts -> Grounds]
      /\ \A g \in Facts \ {f} : backing'[g] = Backing(table)[g]
      /\ status \in Trusted => backing'[f] = Backed("user", rows[f])
  <2> HIDE DEF table
  <2> QED BY <1>1, <1>2, <1>4, Grounding
<1>6. \A g \in Facts : table[g].status \in Trusted => Grounded(backing'[g], table[g])
    BY <1>2, <1>5, BackingKept, Grounding
<1>7. begun' \in 0..MaxOps
    BY <1>1, MemoryAssumption DEF MemInv, MemShapeInv
<1> HIDE DEF table
<1> QED BY <1>1, <1>2, <1>3, <1>5, <1>6, <1>7, TransactInv

-----------------------------------------------------------------------------
LEMMA MemInvStep == MemInv /\ [MemoryNext]_memory => MemInv'
<1> SUFFICES ASSUME MemInv, [MemoryNext]_memory PROVE MemInv'
    OBVIOUS
<1>1. CASE UNCHANGED memory
    BY <1>1 DEF memory, MemInv, MemShapeInv, SaveInv, TrustIsVouched, Retrieved
<1>2. ASSUME NEW s \in Stores, InsertFails(s) \/ Interrupt(s) PROVE MemInv'
  <2>1. begun' \in 0..MaxOps /\ UNCHANGED <<rows, backing>> /\ ops' = [ops EXCEPT ![s] = IdleStore]
      BY <1>2 DEF InsertFails, Interrupt, MemInv, MemShapeInv
  <2> QED BY <2>1, IdleOp, OwnStep DEF Sound
<1>3. ASSUME NEW s \in Stores, NEW f \in Facts, Verify(s, f) \/ Delete(s, f) PROVE MemInv'
    BY <1>3, IdleOp, StatusInv DEF Verify, Delete
<1>4. ASSUME NEW s \in Stores, NEW f \in Facts, NEW losers \in Losers,
             ResolveConflict(s, f, losers)
      PROVE  MemInv'
  <2> DEFINE op == IF losers \subseteq {f} THEN IdleStore
                   ELSE [IdleStore EXCEPT !.at = "supersede", !.fact = f,
                                          !.losers = losers \ {f}]
  <2>1. losers \subseteq Facts
      BY MemoryAssumption
  <2>2. /\ op \in Ops /\ op.at \in {"idle", "supersede"}
        /\ op.at # "idle" => op.fact \in Facts
    <3>1. CASE losers \subseteq {f}
        BY <3>1, IdleOp
    <3>2. CASE ~(losers \subseteq {f})
      <4>1. op = [IdleStore EXCEPT !.at = "supersede", !.fact = f, !.losers = losers \ {f}]
          BY <3>2
      <4> QED BY <2>1, <4>1, IdleOp DEF Ops
    <3> QED BY <3>1, <3>2
  <2>3. SetStatus(s, f, "active", op)
      BY <1>4 DEF ResolveConflict
  <2> HIDE DEF op
  <2> QED BY <2>2, <2>3, StatusInv
<1>5. CASE MemoryNext
    BY <1>2, <1>3, <1>4, <1>5, BeginSaveInv, MarkInv, ReadInv, WriteInv, SupersedeInv
       DEF MemoryNext
<1> QED BY <1>1, <1>5

\* Whatever programs save, mark, resolve and end side by side, later sessions are
\* told of a fact what the user vouched for under its present source and version,
\* unless another program came between the transactions of a save, or the save
\* replaced an attribution without naming both the fact's source and a version
\* (ManagedLongTermMemory.search, save_record, _upsert).
THEOREM OnlyVouchedIsTrusted == MemorySpec => []TrustIsVouched
BY MemInvInit, MemInvStep, PTL DEF MemInv, MemorySpec

-----------------------------------------------------------------------------
(* ToolAdmission, for any sessions, batches of calls, rules and policy     *)

AllCalls == UNION {{calls[i] : i \in DOMAIN calls} : calls \in CallBatches}
RuleTools == {c.tool : c \in AllCalls} \cup {r.tool : r \in HandRules}
RuleNeeds == {{}} \cup {c.args : c \in AllCalls} \cup {r.needs : r \in HandRules}
RuleSet == [id : Nat, tool : RuleTools, needs : RuleNeeds,
            action : {"allow"} \cup {r.action : r \in HandRules}]
RuleLists == Seq(RuleSet)
Verdicts == Seq({"admitted", "refused"})
Decisions == {"admitted", "refused"} \X AllCalls
Desks == [at : {"off", "idle", "authorizing", "asking", "saving", "replacing"},
          calls : Seq(AllCalls), verdicts : Verdicts, positions : Seq(Nat),
          delegated : Seq(AllCalls), results : Seq(Decisions)]

MadeIds == 1..(nextRule - 1)

AdmShapeInv ==
    /\ ruleFile \in RuleLists /\ temporary \in RuleLists \cup {NoFile}
    /\ known \in [Sessions -> RuleLists]
    /\ desk \in [Sessions -> Desks]
    /\ batches \in 0..MaxBatches /\ handEdits \in 0..MaxHandEdits
    /\ ioErrors \in 0..MaxIoErrors
    /\ nextRule \in Nat \ {0}
    /\ granted \in [Sessions -> SUBSET AllCalls]
    /\ missed \in [Sessions -> SUBSET MadeIds]
    /\ wanted \in SUBSET MadeIds /\ excused \in SUBSET MadeIds

\* No list names a rule twice, or one that has not been made.
Numbered(list, next) ==
    /\ RuleIds(list) \subseteq 1..(next - 1)
    /\ \A i, j \in DOMAIN list : list[i].id = list[j].id => i = j

NumberInv ==
    /\ Numbered(ruleFile, nextRule)
    /\ temporary # NoFile => Numbered(temporary, nextRule)
    /\ \A s \in Sessions : Numbered(known[s], nextRule)

\* What is delegated are the admitted calls, one by one, and positions says whose.
Sorted(d) ==
    /\ Len(d.verdicts) <= Len(d.calls)
    /\ d.at \in {"asking", "saving", "replacing"} => Len(d.verdicts) < Len(d.calls)
    /\ Len(d.positions) = Len(d.delegated)
    /\ \A k \in DOMAIN d.positions :
        /\ d.positions[k] \in DOMAIN d.verdicts
        /\ d.verdicts[d.positions[k]] = "admitted"
        /\ d.delegated[k] = d.calls[d.positions[k]]
    /\ d.at \notin {"idle", "off"} => d.results = <<>>
    /\ \A i \in DOMAIN d.results :
        /\ i \in DOMAIN d.calls /\ i \in DOMAIN d.verdicts
        /\ d.results[i] = <<d.verdicts[i], d.calls[i]>>

DeskInv == \A s \in Sessions : Sorted(desk[s])

\* From a rule for this call on, nothing but permission.
Allows(rules, c) ==
    \E k \in DOMAIN rules :
        /\ Matches(rules[k], c)
        /\ \A j \in DOMAIN rules : j >= k => rules[j].action = "allow"

GrantInv == \A s \in Sessions : \A c \in granted[s] : Allows(known[s], c)

Saving(s) == desk[s].at \in {"saving", "replacing"}
Unsaved(s) == IF Saving(s) THEN RuleIds(known[s]) \ RuleIds(ruleFile) ELSE {}

\* A running session's list is the file but for what it missed, what is
\* excused, and a rule on its way to the file.
ListInv ==
    \A s \in Sessions : desk[s].at # "off" =>
        \A id \in Differ(known[s], ruleFile) :
            \/ id \in missed[s] \cup excused
            \/ id \in Unsaved(s) \cap wanted

AdmInv == AdmShapeInv /\ NumberInv /\ DeskInv /\ GrantInv /\ ListInv /\ RulesKept

LEMMA AdmUses ==
    /\ MaxBatches \in Nat /\ MaxHandEdits \in Nat /\ MaxIoErrors \in Nat
    /\ \A calls \in CallBatches : calls \in Seq(AllCalls)
<1>1. ASSUME NEW calls \in CallBatches PROVE calls \in Seq(AllCalls)
  <2>1. calls \in Seq({calls[i] : i \in DOMAIN calls})
    BY AdmissionAssumption
  <2>2. {calls[i] : i \in DOMAIN calls} \subseteq AllCalls
    BY DEF AllCalls
  <2>. QED BY <2>1, <2>2
<1>. QED BY <1>1, AdmissionAssumption

LEMMA AppendRule ==
    ASSUME NEW list \in RuleLists, NEW r \in RuleSet, NEW n \in Nat \ {0},
           Numbered(list, n), r.id = n
    PROVE  /\ Append(list, r) \in RuleLists
           /\ RuleIds(Append(list, r)) = RuleIds(list) \cup {n}
           /\ Numbered(Append(list, r), n + 1)
<1>. DEFINE new == Append(list, r)
<1>1. new \in RuleLists /\ Len(new) = Len(list) + 1
  BY DEF RuleLists
<1>2. DOMAIN new = 1..(Len(list) + 1) /\ DOMAIN list = 1..Len(list) /\ Len(list) \in Nat
  BY <1>1 DEF RuleLists
<1>3. new[Len(list) + 1] = r /\ \A k \in DOMAIN list : new[k] = list[k]
  BY <1>2 DEF RuleLists
<1>. HIDE DEF new
<1>4. RuleIds(new) = RuleIds(list) \cup {n}
  <2>1. ASSUME NEW k \in DOMAIN new PROVE new[k].id \in RuleIds(list) \cup {n}
    <3>1. CASE k = Len(list) + 1 BY <3>1, <1>3
    <3>2. CASE k # Len(list) + 1
      <4>1. k \in DOMAIN list BY <1>2, <3>2
      <4>. QED BY <4>1, <1>3 DEF RuleIds
    <3>. QED BY <3>1, <3>2
  <2>2. ASSUME NEW k \in DOMAIN list PROVE list[k].id \in RuleIds(new)
    <3>1. k \in DOMAIN new /\ new[k] = list[k] BY <1>2, <1>3
    <3>. QED BY <3>1 DEF RuleIds
  <2>3. n \in RuleIds(new)
    <3>1. Len(list) + 1 \in DOMAIN new BY <1>2
    <3>. QED BY <3>1, <1>3 DEF RuleIds
  <2>. QED BY <2>1, <2>2, <2>3 DEF RuleIds
<1>5. Numbered(new, n + 1)
  <2>1. RuleIds(new) \subseteq 1..((n + 1) - 1)
    BY <1>4 DEF Numbered
  <2>2. ASSUME NEW k \in DOMAIN list PROVE list[k].id # n
    <3>1. list[k].id \in 1..(n - 1) BY DEF Numbered, RuleIds
    <3>. QED BY <3>1
  <2>3. ASSUME NEW i \in DOMAIN new, NEW j \in DOMAIN new, new[i].id = new[j].id PROVE i = j
    <3>1. CASE i \in DOMAIN list /\ j \in DOMAIN list
      BY <3>1, <2>3, <1>3 DEF Numbered
    <3>2. CASE i \notin DOMAIN list /\ j \notin DOMAIN list
      BY <3>2, <1>2
    <3>3. CASE i \in DOMAIN list /\ j \notin DOMAIN list
      <4>1. j = Len(list) + 1 BY <3>3, <1>2
      <4>. QED BY <4>1, <3>3, <2>2, <2>3, <1>3
    <3>4. CASE i \notin DOMAIN list /\ j \in DOMAIN list
      <4>1. i = Len(list) + 1 BY <3>4, <1>2
      <4>. QED BY <4>1, <3>4, <2>2, <2>3, <1>3
    <3>. QED BY <3>1, <3>2, <3>3, <3>4
  <2>. QED BY <2>1, <2>3 DEF Numbered
<1>. QED BY <1>1, <1>4, <1>5 DEF new

LEMMA NumberedMore ==
    ASSUME NEW list, NEW n \in Nat, Numbered(list, n)
    PROVE  Numbered(list, n + 1)
<1>1. 1..(n - 1) \subseteq 1..((n + 1) - 1)
  OBVIOUS
<1>. QED BY <1>1 DEF Numbered

LEMMA WithoutRule ==
    ASSUME NEW list \in RuleLists, NEW i \in DOMAIN list, NEW n \in Nat, Numbered(list, n)
    PROVE  /\ Without(list, i) \in RuleLists
           /\ RuleIds(Without(list, i)) = RuleIds(list) \ {list[i].id}
           /\ Numbered(Without(list, i), n)
<1>. DEFINE new == Without(list, i)
            old(k) == IF k < i THEN k ELSE k + 1
<1>1. Len(list) \in Nat /\ DOMAIN list = 1..Len(list) /\ i \in 1..Len(list)
  BY DEF RuleLists
<1>2. DOMAIN new = 1..(Len(list) - 1) /\ Len(list) - 1 \in Nat
  BY <1>1 DEF Without
<1>3. ASSUME NEW k \in DOMAIN new
      PROVE  old(k) \in DOMAIN list /\ old(k) # i /\ new[k] = list[old(k)]
  <2>1. k \in 1..(Len(list) - 1) BY <1>2
  <2>2. old(k) \in 1..Len(list) /\ old(k) # i BY <2>1, <1>1
  <2>3. new[k] = list[old(k)] BY <2>1 DEF Without
  <2>. QED BY <2>2, <2>3, <1>1
<1>4. ASSUME NEW k \in DOMAIN new, NEW l \in DOMAIN new, old(k) = old(l) PROVE k = l
  BY <1>4, <1>1, <1>2
<1>5. ASSUME NEW m \in DOMAIN list, m # i PROVE \E k \in DOMAIN new : old(k) = m
  <2>1. CASE m < i
    <3>1. m \in 1..(Len(list) - 1) /\ old(m) = m BY <2>1, <1>1
    <3>. QED BY <3>1, <1>2
  <2>2. CASE m > i
    <3>1. m - 1 \in 1..(Len(list) - 1) /\ old(m - 1) = m BY <2>2, <1>1
    <3>. QED BY <3>1, <1>2
  <2>. QED BY <2>1, <2>2, <1>1, <1>5
<1>. HIDE DEF old
<1>6. new \in RuleLists
  <2>1. \A k \in 1..(Len(list) - 1) : new[k] \in RuleSet
    BY <1>2, <1>3 DEF RuleLists
  <2>2. new = [k \in 1..(Len(list) - 1) |-> new[k]]
    BY <1>2 DEF Without
  <2>. HIDE DEF new
  <2>3. new \in [1..(Len(list) - 1) -> RuleSet]
    BY <2>1, <2>2
  <2>. QED BY <2>3, <1>2 DEF RuleLists
<1>. HIDE DEF new
<1>7. RuleIds(new) = RuleIds(list) \ {list[i].id}
  <2>1. ASSUME NEW k \in DOMAIN new
        PROVE  new[k].id \in RuleIds(list) /\ new[k].id # list[i].id
    <3>1. old(k) \in DOMAIN list /\ old(k) # i /\ new[k] = list[old(k)] BY <1>3
    <3>2. new[k].id # list[i].id BY <3>1 DEF Numbered
    <3>. QED BY <3>1, <3>2 DEF RuleIds
  <2>2. ASSUME NEW m \in DOMAIN list, list[m].id # list[i].id PROVE list[m].id \in RuleIds(new)
    <3>1. PICK k \in DOMAIN new : old(k) = m BY <2>2, <1>5
    <3>2. new[k] = list[m] BY <3>1, <1>3
    <3>. QED BY <3>1, <3>2 DEF RuleIds
  <2>. QED BY <2>1, <2>2 DEF RuleIds
<1>8. Numbered(new, n)
  <2>1. RuleIds(new) \subseteq 1..(n - 1) BY <1>7 DEF Numbered
  <2>2. ASSUME NEW k \in DOMAIN new, NEW l \in DOMAIN new, new[k].id = new[l].id PROVE k = l
    <3>1. old(k) \in DOMAIN list /\ new[k] = list[old(k)] BY <1>3
    <3>2. old(l) \in DOMAIN list /\ new[l] = list[old(l)] BY <1>3
    <3>3. old(k) = old(l) BY <3>1, <3>2, <2>2 DEF Numbered
    <3>. QED BY <3>3, <1>4
  <2>. QED BY <2>1, <2>2 DEF Numbered
<1>. QED BY <1>6, <1>7, <1>8 DEF new

-----------------------------------------------------------------------------
(* What the desk of a session holds *)

LEMMA DeskFields ==
    ASSUME AdmShapeInv, NEW s \in Sessions
    PROVE  /\ desk[s] \in Desks /\ known[s] \in RuleLists
           /\ desk[s].calls \in Seq(AllCalls) /\ desk[s].verdicts \in Verdicts
           /\ desk[s].positions \in Seq(Nat) /\ desk[s].delegated \in Seq(AllCalls)
           /\ desk[s].results \in Seq(Decisions)
           /\ Len(desk[s].verdicts) \in Nat /\ Len(desk[s].calls) \in Nat
           /\ DOMAIN desk[s].calls = 1..Len(desk[s].calls)
           /\ DOMAIN desk[s].verdicts = 1..Len(desk[s].verdicts)
           /\ missed[s] \in SUBSET MadeIds
<1>1. desk[s] \in Desks /\ known[s] \in RuleLists /\ missed[s] \in SUBSET MadeIds
    BY DEF AdmShapeInv
<1>2. /\ desk[s].calls \in Seq(AllCalls) /\ desk[s].verdicts \in Verdicts
      /\ desk[s].positions \in Seq(Nat) /\ desk[s].delegated \in Seq(AllCalls)
      /\ desk[s].results \in Seq(Decisions)
    BY <1>1 DEF Desks
<1> QED BY <1>1, <1>2 DEF Verdicts

LEMMA EmptyDesk ==
    ASSUME NEW at \in {"off", "idle", "authorizing"}, NEW calls \in Seq(AllCalls)
    PROVE  Desk(at, calls) \in Desks /\ Sorted(Desk(at, calls))
<1>1. /\ Desk(at, calls).calls = calls /\ Desk(at, calls).verdicts = <<>>
      /\ Desk(at, calls).positions = <<>> /\ Desk(at, calls).delegated = <<>>
      /\ Desk(at, calls).results = <<>> /\ Desk(at, calls).at = at
    BY DEF Desk
<1>2. Desk(at, calls) \in Desks
    BY DEF Desk, Desks, Verdicts
<1>3. Len(<<>>) = 0 /\ Len(calls) \in Nat /\ DOMAIN <<>> = {}
    OBVIOUS
<1> QED BY <1>1, <1>2, <1>3 DEF Sorted

LEMMA MovedDesk ==
    ASSUME NEW d \in Desks, Sorted(d), d.at \notin {"idle", "off"},
           Len(d.verdicts) < Len(d.calls),
           NEW at \in {"asking", "saving", "replacing"}
    PROVE  [d EXCEPT !.at = at] \in Desks /\ Sorted([d EXCEPT !.at = at])
<1> DEFINE e == [d EXCEPT !.at = at]
<1>1. e \in Desks
    BY DEF Desks
<1>2. /\ e.at = at /\ e.calls = d.calls /\ e.verdicts = d.verdicts
      /\ e.positions = d.positions /\ e.delegated = d.delegated /\ e.results = d.results
    BY DEF Desks
<1> HIDE DEF e
<1>3. Sorted(e)
    BY <1>2 DEF Sorted
<1> QED BY <1>1, <1>3 DEF e

LEMMA DeskUpdate ==
    ASSUME NEW d \in Desks, NEW verdicts \in Verdicts, NEW positions \in Seq(Nat),
           NEW delegated \in Seq(AllCalls)
    PROVE  [d EXCEPT !.at = "authorizing", !.verdicts = verdicts,
                     !.positions = positions, !.delegated = delegated] \in Desks
BY DEF Desks

LEMMA SettledDesk ==
    ASSUME NEW d \in Desks, Sorted(d), d.at \notin {"idle", "off"},
           Len(d.verdicts) < Len(d.calls),
           NEW v \in {"admitted", "refused"}
    PROVE  /\ Settled(d, v) \in Desks /\ Sorted(Settled(d, v))
           /\ Settled(d, v).at = "authorizing" /\ Settled(d, v).calls = d.calls
<1> DEFINE e == Settled(d, v)
           n == Len(d.verdicts) + 1
<1>1. /\ d.calls \in Seq(AllCalls) /\ d.verdicts \in Verdicts /\ d.positions \in Seq(Nat)
      /\ d.delegated \in Seq(AllCalls) /\ d.results \in Seq(Decisions)
    BY DEF Desks
<1>2. /\ Len(d.verdicts) \in Nat /\ Len(d.calls) \in Nat /\ n \in 1..Len(d.calls)
      /\ DOMAIN d.calls = 1..Len(d.calls) /\ d.calls[n] \in AllCalls
      /\ DOMAIN d.verdicts = 1..Len(d.verdicts) /\ DOMAIN d.positions = 1..Len(d.positions)
      /\ Len(d.positions) \in Nat
    BY <1>1 DEF Verdicts
<1>3. /\ e.at = "authorizing" /\ e.calls = d.calls /\ e.verdicts = Append(d.verdicts, v)
      /\ e.positions = IF v = "admitted" THEN Append(d.positions, n) ELSE d.positions
      /\ e.delegated = IF v = "admitted" THEN Append(d.delegated, d.calls[n]) ELSE d.delegated
      /\ e.results = d.results
    BY DEF Desks, Settled
<1>4. /\ e.verdicts \in Verdicts /\ Len(e.verdicts) = n
      /\ DOMAIN e.verdicts = 1..n /\ e.verdicts[n] = v
      /\ \A i \in DOMAIN d.verdicts : e.verdicts[i] = d.verdicts[i]
    BY <1>1, <1>2, <1>3 DEF Verdicts
<1>5. e.positions \in Seq(Nat) /\ e.delegated \in Seq(AllCalls)
    BY <1>1, <1>2, <1>3
<1>6. e \in Desks
  <2> DEFINE ver == Append(d.verdicts, v)
             pos == IF v = "admitted" THEN Append(d.positions, n) ELSE d.positions
             del == IF v = "admitted" THEN Append(d.delegated, d.calls[n]) ELSE d.delegated
  <2>1. e = [d EXCEPT !.at = "authorizing", !.verdicts = ver, !.positions = pos,
                      !.delegated = del]
      BY DEF Settled
  <2>2. ver \in Verdicts /\ pos \in Seq(Nat) /\ del \in Seq(AllCalls)
      BY <1>3, <1>4, <1>5
  <2> HIDE DEF e, ver, pos, del
  <2> QED BY <2>1, <2>2, DeskUpdate
<1> HIDE DEF e
<1>7. d.results = <<>>
    BY DEF Sorted
<1>8. Len(e.positions) = Len(e.delegated)
  <2>1. Len(d.positions) = Len(d.delegated)
      BY DEF Sorted
  <2> QED BY <1>1, <1>2, <1>3, <2>1
<1>9. ASSUME NEW k \in DOMAIN e.positions
      PROVE  /\ e.positions[k] \in DOMAIN e.verdicts
             /\ e.verdicts[e.positions[k]] = "admitted"
             /\ e.delegated[k] = e.calls[e.positions[k]]
  <2>1. CASE k \in DOMAIN d.positions
    <3>1. /\ d.positions[k] \in DOMAIN d.verdicts /\ d.verdicts[d.positions[k]] = "admitted"
          /\ d.delegated[k] = d.calls[d.positions[k]]
        BY <2>1 DEF Sorted
    <3>2. k \in DOMAIN d.delegated
        BY <1>1, <2>1 DEF Sorted
    <3>3. e.positions[k] = d.positions[k] /\ e.delegated[k] = d.delegated[k]
        BY <1>1, <1>2, <1>3, <2>1, <3>2
    <3>4. d.positions[k] \in DOMAIN e.verdicts /\ e.verdicts[d.positions[k]] = "admitted"
        BY <1>2, <1>4, <3>1
    <3>5. e.delegated[k] = e.calls[d.positions[k]]
        BY <1>3, <3>1, <3>3
    <3> QED BY <3>3, <3>4, <3>5
  <2>2. CASE k \notin DOMAIN d.positions
    <3>1. v = "admitted" /\ k = Len(d.positions) + 1
        BY <1>1, <1>2, <1>3, <2>2
    <3>2. e.positions[k] = n
        BY <1>1, <1>2, <1>3, <3>1
    <3>3. e.delegated[k] = d.calls[n]
      <4>1. k = Len(d.delegated) + 1
          BY <3>1 DEF Sorted
      <4> QED BY <1>1, <1>2, <1>3, <3>1, <4>1
    <3>4. n \in DOMAIN e.verdicts /\ e.verdicts[n] = "admitted"
        BY <1>2, <1>4, <3>1
    <3>5. e.delegated[k] = e.calls[n]
        BY <1>3, <3>3
    <3> QED BY <3>2, <3>4, <3>5
  <2> QED BY <2>1, <2>2
<1>10. Sorted(e)
  <2>1. Len(e.verdicts) <= Len(e.calls)
      BY <1>2, <1>3, <1>4
  <2>2. e.results = <<>> /\ e.at = "authorizing"
      BY <1>3, <1>7
  <2> QED BY <1>8, <1>9, <2>1, <2>2 DEF Sorted
<1> QED BY <1>3, <1>6, <1>10 DEF e

LEMMA ResultsOfDesk ==
    ASSUME NEW d \in Desks, Sorted(d), d.at = "authorizing",
           Len(d.verdicts) = Len(d.calls)
    PROVE  /\ [d EXCEPT !.at = "idle", !.results = BatchResults(d)] \in Desks
           /\ Sorted([d EXCEPT !.at = "idle", !.results = BatchResults(d)])
<1> DEFINE e == [d EXCEPT !.at = "idle", !.results = BatchResults(d)]
           PlacesOf(i) == {k \in DOMAIN d.positions : d.positions[k] = i}
<1>1. /\ d.calls \in Seq(AllCalls) /\ d.verdicts \in Verdicts
      /\ Len(d.calls) \in Nat /\ DOMAIN d.calls = 1..Len(d.calls)
      /\ DOMAIN d.verdicts = 1..Len(d.calls)
    BY DEF Desks, Verdicts
<1>2. DOMAIN BatchResults(d) = 1..Len(d.calls)
    BY <1>1 DEF BatchResults
<1>3. ASSUME NEW i \in DOMAIN d.calls
      PROVE  BatchResults(d)[i] = <<d.verdicts[i], d.calls[i]>>
  <2>1. CASE PlacesOf(i) = {}
      BY <2>1 DEF BatchResults
  <2>2. CASE PlacesOf(i) # {}
    <3> DEFINE k == CHOOSE k \in PlacesOf(i) : TRUE
    <3>1. k \in PlacesOf(i)
        BY <2>2
    <3>2. BatchResults(d)[i] = <<"admitted", d.delegated[k]>>
        BY <2>2 DEF BatchResults
    <3> HIDE DEF k
    <3>3. d.verdicts[i] = "admitted" /\ d.delegated[k] = d.calls[i]
        BY <3>1 DEF Sorted
    <3> QED BY <3>2, <3>3
  <2> QED BY <2>1, <2>2
<1>4. BatchResults(d) \in Seq(Decisions)
  <2>1. ASSUME NEW i \in 1..Len(d.calls) PROVE BatchResults(d)[i] \in Decisions
    <3>1. d.verdicts[i] \in {"admitted", "refused"}
        BY <1>1 DEF Verdicts
    <3>2. d.calls[i] \in AllCalls
        BY <1>1
    <3>3. BatchResults(d)[i] = <<d.verdicts[i], d.calls[i]>>
        BY <1>1, <1>3
    <3> QED BY <3>1, <3>2, <3>3 DEF Decisions
  <2>2. BatchResults(d) = [i \in 1..Len(d.calls) |-> BatchResults(d)[i]]
      BY <1>1 DEF BatchResults
  <2> QED BY <1>1, <2>1, <2>2
<1>5. e \in Desks
    BY <1>4 DEF Desks
<1>6. /\ e.at = "idle" /\ e.calls = d.calls /\ e.verdicts = d.verdicts
      /\ e.positions = d.positions /\ e.delegated = d.delegated
      /\ e.results = BatchResults(d)
    BY DEF Desks
<1> HIDE DEF e
<1>7. Sorted(e)
    BY <1>1, <1>2, <1>3, <1>6 DEF Sorted
<1> QED BY <1>5, <1>7 DEF e

-----------------------------------------------------------------------------
(* Types and desks *)

LEMMA DeskReplaced ==
    ASSUME AdmShapeInv, DeskInv, NEW s \in Sessions, NEW e \in Desks, Sorted(e),
           desk' = [desk EXCEPT ![s] = e]
    PROVE  desk' \in [Sessions -> Desks] /\ DeskInv'
<1>1. desk' \in [Sessions -> Desks]
    BY DEF AdmShapeInv
<1>2. ASSUME NEW t \in Sessions PROVE Sorted(desk'[t])
  <2>1. CASE t = s
    <3>1. desk'[t] = e
        BY <2>1 DEF AdmShapeInv
    <3> QED BY <3>1
  <2>2. CASE t # s
    <3>1. desk'[t] = desk[t]
        BY <2>2 DEF AdmShapeInv
    <3> QED BY <3>1 DEF DeskInv
  <2> QED BY <2>1, <2>2
<1> QED BY <1>1, <1>2 DEF DeskInv

LEMMA AskedDesk ==
    ASSUME AdmShapeInv, DeskInv, NEW s \in Sessions
    PROVE  /\ desk[s] \in Desks /\ Sorted(desk[s])
           /\ desk[s].at \in {"asking", "saving", "replacing"} =>
                Len(desk[s].verdicts) < Len(desk[s].calls) /\ Current(s) \in AllCalls
<1>1. desk[s] \in Desks /\ Sorted(desk[s])
    BY DEF AdmShapeInv, DeskInv
<1>2. desk[s].at \in {"asking", "saving", "replacing"} =>
          Len(desk[s].verdicts) < Len(desk[s].calls)
    BY <1>1 DEF Sorted
<1>3. Len(desk[s].verdicts) < Len(desk[s].calls) => Current(s) \in AllCalls
    BY DeskFields DEF Current
<1> QED BY <1>1, <1>2, <1>3

LEMMA DeskStep == AdmShapeInv /\ DeskInv /\ AdmissionNext => desk' \in [Sessions -> Desks] /\ DeskInv'
<1> SUFFICES ASSUME AdmShapeInv, DeskInv, AdmissionNext
             PROVE  desk' \in [Sessions -> Desks] /\ DeskInv'
    OBVIOUS
<1>1. ASSUME NEW s \in Sessions, StartSession(s) PROVE desk' \in [Sessions -> Desks] /\ DeskInv'
  <2> DEFINE e == [desk[s] EXCEPT !.at = "idle"]
  <2>1. desk' = [desk EXCEPT ![s] = e]
      BY <1>1 DEF StartSession
  <2>2. desk[s] \in Desks /\ Sorted(desk[s]) /\ desk[s].at = "off"
      BY <1>1, AskedDesk DEF StartSession
  <2>3. e \in Desks
      BY <2>2 DEF Desks
  <2>4. /\ e.at = "idle" /\ e.calls = desk[s].calls /\ e.verdicts = desk[s].verdicts
        /\ e.positions = desk[s].positions /\ e.delegated = desk[s].delegated
        /\ e.results = desk[s].results
      BY <2>2 DEF Desks
  <2> HIDE DEF e
  <2>5. Sorted(e)
      BY <2>2, <2>4 DEF Sorted
  <2> QED BY <2>1, <2>3, <2>5, DeskReplaced
<1>2. ASSUME NEW s \in Sessions, StopSession(s) PROVE desk' \in [Sessions -> Desks] /\ DeskInv'
  <2>1. Off \in Desks /\ Sorted(Off)
    <3>1. <<>> \in Seq(AllCalls)
        OBVIOUS
    <3> QED BY <3>1, EmptyDesk DEF Off
  <2>2. desk' = [desk EXCEPT ![s] = Off]
      BY <1>2 DEF StopSession
  <2> QED BY <2>1, <2>2, DeskReplaced
<1>3. ASSUME NEW s \in Sessions, NEW calls \in CallBatches, BeginBatch(s, calls)
      PROVE desk' \in [Sessions -> Desks] /\ DeskInv'
  <2>1. Desk("authorizing", calls) \in Desks /\ Sorted(Desk("authorizing", calls))
      BY EmptyDesk, AdmUses
  <2>2. desk' = [desk EXCEPT ![s] = Desk("authorizing", calls)]
      BY <1>3 DEF BeginBatch
  <2> QED BY <2>1, <2>2, DeskReplaced
<1>4. ASSUME NEW s \in Sessions, desk[s].at \in {"authorizing", "asking", "saving", "replacing"},
             Len(desk[s].verdicts) < Len(desk[s].calls),
             NEW at \in {"asking", "saving", "replacing"}, desk' = [desk EXCEPT ![s].at = at]
      PROVE desk' \in [Sessions -> Desks] /\ DeskInv'
  <2> DEFINE e == [desk[s] EXCEPT !.at = at]
  <2>1. e \in Desks /\ Sorted(e)
    <3>1. desk[s] \in Desks /\ Sorted(desk[s])
        BY AskedDesk
    <3> QED BY <1>4, <3>1, MovedDesk
  <2>2. desk' = [desk EXCEPT ![s] = e]
      BY <1>4
  <2> HIDE DEF e
  <2> QED BY <2>1, <2>2, DeskReplaced
<1>5. ASSUME NEW s \in Sessions, desk[s].at \in {"authorizing", "asking", "saving", "replacing"},
             Len(desk[s].verdicts) < Len(desk[s].calls),
             NEW v \in {"admitted", "refused"}, Settle(s, v)
      PROVE desk' \in [Sessions -> Desks] /\ DeskInv'
  <2>1. desk[s] \in Desks /\ Sorted(desk[s])
      BY AskedDesk
  <2>2. Settled(desk[s], v) \in Desks /\ Sorted(Settled(desk[s], v))
      BY <1>5, <2>1, SettledDesk
  <2>3. desk' = [desk EXCEPT ![s] = Settled(desk[s], v)]
      BY <1>5 DEF Settle
  <2> QED BY <2>2, <2>3, DeskReplaced
<1>6. ASSUME NEW s \in Sessions, Authorize(s) PROVE desk' \in [Sessions -> Desks] /\ DeskInv'
  <2> DEFINE v == Verdict(known[s], Current(s))
  <2>1. v \in {"admitted", "refused", "ask"}
      BY DEF Verdict
  <2>2. /\ v = "ask" => desk' = [desk EXCEPT ![s].at = "asking"]
        /\ v # "ask" => Settle(s, v)
        /\ desk[s].at = "authorizing" /\ Len(desk[s].verdicts) < Len(desk[s].calls)
      BY <1>6 DEF Authorize
  <2> HIDE DEF v
  <2>3. CASE v = "ask"
      BY <1>4, <2>2, <2>3
  <2>4. CASE v # "ask"
      BY <1>5, <2>1, <2>2, <2>4
  <2> QED BY <2>3, <2>4
<1>7. ASSUME NEW s \in Sessions, NEW v \in {"admitted", "refused"}, AnswerOnce(s, v)
      PROVE desk' \in [Sessions -> Desks] /\ DeskInv'
  <2>1. desk[s].at = "asking" /\ Settle(s, v)
      BY <1>7 DEF AnswerOnce
  <2> QED BY <1>5, <2>1, AskedDesk
<1>8. ASSUME NEW s \in Sessions, NEW needs, AnswerAlways(s, needs)
      PROVE desk' \in [Sessions -> Desks] /\ DeskInv'
  <2>1. desk[s].at = "asking" /\ desk' = [desk EXCEPT ![s].at = "saving"]
      BY <1>8 DEF AnswerAlways
  <2> QED BY <1>4, <2>1, AskedDesk
<1>9. ASSUME NEW s \in Sessions, WriteTemporary(s)
      PROVE desk' \in [Sessions -> Desks] /\ DeskInv'
  <2>1. desk[s].at = "saving" /\ desk' = [desk EXCEPT ![s].at = "replacing"]
      BY <1>9 DEF WriteTemporary
  <2> QED BY <1>4, <2>1, AskedDesk
<1>10. ASSUME NEW s \in Sessions, ReplaceFile(s)
       PROVE desk' \in [Sessions -> Desks] /\ DeskInv'
  <2>1. desk[s].at = "replacing" /\ Settle(s, "admitted")
      BY <1>10 DEF ReplaceFile
  <2> QED BY <1>5, <2>1, AskedDesk
<1>11. ASSUME NEW s \in Sessions, SaveFails(s)
       PROVE desk' \in [Sessions -> Desks] /\ DeskInv'
  <2>1. Desk("idle", <<>>) \in Desks /\ Sorted(Desk("idle", <<>>))
    <3>1. <<>> \in Seq(AllCalls)
        OBVIOUS
    <3> QED BY <3>1, EmptyDesk
  <2>2. desk' = [desk EXCEPT ![s] = Desk("idle", <<>>)]
      BY <1>11 DEF SaveFails
  <2> QED BY <2>1, <2>2, DeskReplaced
<1>12. ASSUME NEW s \in Sessions, RunAdmitted(s)
       PROVE desk' \in [Sessions -> Desks] /\ DeskInv'
  <2> DEFINE e == [desk[s] EXCEPT !.at = "idle", !.results = BatchResults(desk[s])]
  <2>1. desk' = [desk EXCEPT ![s] = e] /\ desk[s].at = "authorizing"
        /\ Len(desk[s].verdicts) = Len(desk[s].calls)
      BY <1>12 DEF RunAdmitted
  <2>2. desk[s] \in Desks /\ Sorted(desk[s])
      BY AskedDesk
  <2>3. e \in Desks /\ Sorted(e)
      BY <2>1, <2>2, ResultsOfDesk
  <2> HIDE DEF e
  <2> QED BY <2>1, <2>3, DeskReplaced
<1>13. ASSUME UNCHANGED desk PROVE desk' \in [Sessions -> Desks] /\ DeskInv'
    BY <1>13 DEF AdmShapeInv, DeskInv
<1>14. CASE (\E r \in HandRules : AddByHand(r)) \/ (\E i \in DOMAIN ruleFile : RemoveByHand(i))
    BY <1>13, <1>14 DEF AddByHand, RemoveByHand, EditByHand
<1> QED BY <1>1, <1>2, <1>3, <1>6, <1>7, <1>8, <1>9, <1>10, <1>11, <1>12, <1>14
        DEF AdmissionNext

-----------------------------------------------------------------------------
(* Types and numbers *)

\* A step of a batch that touches no rule
Quiet == UNCHANGED <<ruleFile, temporary, known, nextRule, wanted, granted, missed, excused>>

LEMMA AdmCases ==
    ASSUME AdmissionNext, NEW P,
           ASSUME Quiet PROVE P,
           \A s \in Sessions : StartSession(s) => P,
           \A s \in Sessions : StopSession(s) => P,
           \A s \in Sessions : \A needs : AnswerAlways(s, needs) => P,
           \A s \in Sessions : WriteTemporary(s) => P,
           \A s \in Sessions : ReplaceFile(s) => P,
           \A s \in Sessions : SaveFails(s) => P,
           \A r \in HandRules : AddByHand(r) => P,
           \A i \in DOMAIN ruleFile : RemoveByHand(i) => P
    PROVE  P
<1>1. ASSUME NEW s \in Sessions, NEW calls, BeginBatch(s, calls) PROVE Quiet
    BY <1>1 DEF BeginBatch, Quiet, files, bounds
<1>2. ASSUME NEW s \in Sessions, Authorize(s) PROVE Quiet
    BY <1>2 DEF Authorize, Quiet, files, bounds
<1>3. ASSUME NEW s \in Sessions, NEW v, AnswerOnce(s, v) PROVE Quiet
    BY <1>3 DEF AnswerOnce, Quiet, files, bounds
<1>4. ASSUME NEW s \in Sessions, RunAdmitted(s) PROVE Quiet
    BY <1>4 DEF RunAdmitted, Quiet, files, bounds
<1> QED BY <1>1, <1>2, <1>3, <1>4 DEF AdmissionNext

LEMMA AdmBounds ==
    ASSUME AdmShapeInv, AdmissionNext
    PROVE  /\ batches' \in 0..MaxBatches /\ handEdits' \in 0..MaxHandEdits
           /\ ioErrors' \in 0..MaxIoErrors
<1> USE AdmUses DEF AdmShapeInv
<1>1. ASSUME UNCHANGED bounds
      PROVE  /\ batches' \in 0..MaxBatches /\ handEdits' \in 0..MaxHandEdits
             /\ ioErrors' \in 0..MaxIoErrors
    BY <1>1 DEF bounds
<1>2. ASSUME NEW s \in Sessions, NEW calls, BeginBatch(s, calls)
      PROVE  /\ batches' \in 0..MaxBatches /\ handEdits' \in 0..MaxHandEdits
             /\ ioErrors' \in 0..MaxIoErrors
    BY <1>2 DEF BeginBatch
<1>3. ASSUME NEW s \in Sessions, SaveFails(s)
      PROVE  /\ batches' \in 0..MaxBatches /\ handEdits' \in 0..MaxHandEdits
             /\ ioErrors' \in 0..MaxIoErrors
    BY <1>3 DEF SaveFails
<1>4. ASSUME NEW list, EditByHand(list)
      PROVE  /\ batches' \in 0..MaxBatches /\ handEdits' \in 0..MaxHandEdits
             /\ ioErrors' \in 0..MaxIoErrors
    BY <1>4 DEF EditByHand
<1>5. CASE (\E r \in HandRules : AddByHand(r)) \/ (\E i \in DOMAIN ruleFile : RemoveByHand(i))
    BY <1>4, <1>5 DEF AddByHand, RemoveByHand
<1>6. CASE UNCHANGED bounds
    BY <1>1, <1>6
<1>7. ASSUME NEW s \in Sessions, StartSession(s) \/ StopSession(s) \/ Authorize(s)
                \/ WriteTemporary(s) \/ ReplaceFile(s) \/ RunAdmitted(s)
      PROVE  UNCHANGED bounds
    BY <1>7 DEF StartSession, StopSession, Authorize, WriteTemporary, ReplaceFile, RunAdmitted
<1>8. ASSUME NEW s \in Sessions, NEW x, AnswerOnce(s, x) \/ AnswerAlways(s, x)
      PROVE  UNCHANGED bounds
    BY <1>8 DEF AnswerOnce, AnswerAlways
<1> HIDE AdmUses DEF AdmShapeInv
<1> QED BY <1>2, <1>3, <1>5, <1>6, <1>7, <1>8 DEF AdmissionNext

LEMMA NewRule ==
    /\ \A id \in Nat, c \in AllCalls : \A needs \in {c.args, {}} :
        Rule(id, c.tool, needs, "allow") \in RuleSet
    /\ \A id \in Nat, r \in HandRules : Rule(id, r.tool, r.needs, r.action) \in RuleSet
<1>1. ASSUME NEW id \in Nat, NEW c \in AllCalls, NEW needs \in {c.args, {}}
      PROVE  Rule(id, c.tool, needs, "allow") \in RuleSet
  <2>1. c.tool \in RuleTools /\ needs \in RuleNeeds
      BY DEF RuleTools, RuleNeeds
  <2> QED BY <2>1 DEF Rule, RuleSet
<1>2. ASSUME NEW id \in Nat, NEW r \in HandRules
      PROVE  Rule(id, r.tool, r.needs, r.action) \in RuleSet
  <2>1. r.tool \in RuleTools /\ r.needs \in RuleNeeds
      BY DEF RuleTools, RuleNeeds
  <2> QED BY <2>1 DEF Rule, RuleSet
<1> QED BY <1>1, <1>2

\* What a step may do to the lists, the history and the counter
ListTypes ==
    /\ ruleFile \in RuleLists /\ temporary \in RuleLists \cup {NoFile}
    /\ known \in [Sessions -> RuleLists]
    /\ nextRule \in Nat \ {0}
    /\ granted \in [Sessions -> SUBSET AllCalls]
    /\ missed \in [Sessions -> SUBSET MadeIds]
    /\ wanted \in SUBSET MadeIds /\ excused \in SUBSET MadeIds

LEMMA ListFacts ==
    ASSUME AdmShapeInv, NumberInv
    PROVE  /\ ListTypes
           /\ RuleIds(ruleFile) \subseteq MadeIds
           /\ temporary # NoFile => RuleIds(temporary) \subseteq MadeIds
           /\ \A s \in Sessions : RuleIds(known[s]) \subseteq MadeIds
           /\ nextRule \in Nat /\ nextRule + 1 \in Nat \ {0}
           /\ nextRule \notin MadeIds
           /\ MadeIds \cup {nextRule} = 1..((nextRule + 1) - 1)
BY DEF AdmShapeInv, NumberInv, Numbered, ListTypes, MadeIds

LEMMA MissTypes ==
    ASSUME AdmShapeInv, NumberInv, NEW list, Miss(list), NEW Numbers, MadeIds \subseteq Numbers,
           RuleIds(list) \subseteq Numbers
    PROVE  missed' \in [Sessions -> SUBSET Numbers]
<1>1. Differ(ruleFile, list) \subseteq Numbers
    BY ListFacts DEF Differ
<1>2. \A s \in Sessions : missed[s] \subseteq Numbers
    BY ListFacts DEF ListTypes
<1> QED BY <1>1, <1>2 DEF Miss

LEMMA ListStep ==
    AdmShapeInv /\ NumberInv /\ DeskInv /\ AdmissionNext => ListTypes' /\ NumberInv'
<1> SUFFICES ASSUME AdmShapeInv, NumberInv, DeskInv, AdmissionNext
             PROVE  ListTypes' /\ NumberInv'
    OBVIOUS
<1> DEFINE G == ListTypes' /\ NumberInv'
<1> USE DEF MadeIds
<1>0. ListTypes
    BY ListFacts
<1>1. ASSUME Quiet PROVE G
    BY <1>1, <1>0 DEF Quiet, ListTypes, NumberInv
<1>2. ASSUME NEW s \in Sessions, StartSession(s) PROVE G
  <2>1. /\ known' = [known EXCEPT ![s] = ruleFile] /\ missed' = [missed EXCEPT ![s] = {}]
        /\ granted' = [granted EXCEPT ![s] = {}]
        /\ UNCHANGED <<ruleFile, temporary, nextRule, wanted, excused>>
      BY <1>2 DEF StartSession, files
  <2>2. ListTypes'
      BY <1>0, <2>1 DEF ListTypes
  <2>3. \A t \in Sessions : known'[t] = known[t] \/ known'[t] = ruleFile
      BY <1>0, <2>1 DEF ListTypes
  <2>4. NumberInv'
      BY <2>1, <2>3 DEF NumberInv
  <2> QED BY <2>2, <2>4
<1>3. ASSUME NEW s \in Sessions, StopSession(s) PROVE G
  <2>1. /\ UNCHANGED <<ruleFile, temporary, known, nextRule, wanted, granted, missed>>
        /\ excused' \subseteq excused \cup Differ(known[s], ruleFile)
      BY <1>3 DEF StopSession, files
  <2>2. excused' \subseteq 1..(nextRule - 1)
      BY <1>0, <2>1, ListFacts DEF ListTypes, Differ
  <2> QED BY <1>0, <2>1, <2>2 DEF ListTypes, NumberInv
<1>4. ASSUME NEW s \in Sessions, NEW needs, AnswerAlways(s, needs) PROVE G
  <2> DEFINE c == Current(s)
             rule == Rule(nextRule, c.tool, needs, "allow")
  <2>1. /\ desk[s].at = "asking" /\ needs \in {c.args, {}}
        /\ known' = [known EXCEPT ![s] = RememberRule(@, rule)]
        /\ nextRule' = nextRule + 1
        /\ wanted' = wanted \cup {nextRule}
        /\ granted' = [granted EXCEPT ![s] = @ \cup {c}]
        /\ UNCHANGED <<ruleFile, temporary, missed, excused>>
      BY <1>4 DEF AnswerAlways, files
  <2>2. c \in AllCalls
      BY <2>1, AskedDesk
  <2>3. rule \in RuleSet /\ rule.id = nextRule /\ rule.tool = c.tool
    <3>1. rule \in RuleSet
        BY <2>1, <2>2, NewRule, ListFacts
    <3> QED BY <3>1 DEF Rule
  <2> HIDE DEF rule, c
  <2>4. /\ known[s] \in RuleLists /\ Numbered(known[s], nextRule) /\ nextRule \in Nat \ {0}
      BY <1>0 DEF ListTypes, NumberInv
  <2>5. /\ Append(known[s], rule) \in RuleLists
        /\ Numbered(Append(known[s], rule), nextRule + 1)
      BY <2>3, <2>4, AppendRule
  <2>6. known' = [known EXCEPT ![s] = Append(known[s], rule)]
      BY <2>1 DEF RememberRule
  <2>7. c.tool \in RuleTools /\ needs \in RuleNeeds
      BY <2>1, <2>2 DEF RuleTools, RuleNeeds
  <2>8. 1..(nextRule - 1) \subseteq 1..(nextRule' - 1) /\ nextRule \in 1..(nextRule' - 1)
        /\ nextRule' \in Nat \ {0}
      BY <2>1, <2>4
  <2>9. ListTypes'
    <3>1. granted' \in [Sessions -> SUBSET AllCalls]
        BY <1>0, <2>1, <2>2 DEF ListTypes
    <3>2. known' \in [Sessions -> RuleLists]
        BY <1>0, <2>5, <2>6 DEF ListTypes
    <3>3. ruleFile' \in RuleLists /\ temporary' \in RuleLists \cup {NoFile}
        BY <1>0, <2>1 DEF ListTypes
    <3>4. /\ missed' \in [Sessions -> SUBSET (1..(nextRule' - 1))]
          /\ wanted' \subseteq 1..(nextRule' - 1) /\ excused' \subseteq 1..(nextRule' - 1)
        BY <1>0, <2>1, <2>8 DEF ListTypes
    <3> QED BY <2>8, <3>1, <3>2, <3>3, <3>4 DEF ListTypes
  <2>10. NumberInv'
    <3>1. \A list : Numbered(list, nextRule) => Numbered(list, nextRule')
        BY <2>1, <2>4, NumberedMore
    <3>2. \A t \in Sessions : known'[t] = known[t] \/ known'[t] = Append(known[s], rule)
        BY <1>0, <2>6 DEF ListTypes
    <3>3. \A t \in Sessions : Numbered(known'[t], nextRule')
        BY <2>1, <2>5, <3>1, <3>2 DEF NumberInv
    <3> QED BY <2>1, <3>1, <3>3 DEF NumberInv
  <2> QED BY <2>9, <2>10
<1>5. ASSUME NEW s \in Sessions, WriteTemporary(s) PROVE G
  <2>1. /\ UNCHANGED <<ruleFile, known, nextRule, wanted, granted, missed, excused>>
        /\ temporary' = known[s]
      BY <1>5 DEF WriteTemporary
  <2>2. ListTypes'
      BY <1>0, <2>1 DEF ListTypes
  <2>3. NumberInv'
      BY <2>1 DEF NumberInv
  <2> QED BY <2>2, <2>3
<1>6. ASSUME NEW s \in Sessions, ReplaceFile(s) PROVE G
  <2>1. /\ UNCHANGED <<known, nextRule, wanted, granted>>
        /\ temporary # NoFile /\ ruleFile' = temporary /\ temporary' = NoFile
        /\ Miss(temporary)
        /\ excused' \subseteq excused \cup missed[s] \cup Differ(known[s], temporary)
                              \cup UNION {missed[t] : t \in Sessions}
      BY <1>6 DEF ReplaceFile
  <2>2. missed' \in [Sessions -> SUBSET (1..(nextRule - 1))]
    <3>1. RuleIds(temporary) \subseteq 1..(nextRule - 1)
        BY <2>1, ListFacts
    <3> QED BY <2>1, <3>1, MissTypes
  <2>3. excused' \subseteq 1..(nextRule - 1)
    <3>1. Differ(known[s], temporary) \subseteq 1..(nextRule - 1)
        BY <2>1, ListFacts DEF Differ
    <3>2. \A t \in Sessions : missed[t] \subseteq 1..(nextRule - 1)
        BY <1>0 DEF ListTypes
    <3>3. UNION {missed[t] : t \in Sessions} \subseteq 1..(nextRule - 1)
        BY <3>2
    <3>4. excused \subseteq 1..(nextRule - 1)
        BY <1>0 DEF ListTypes
    <3> HIDE DEF MadeIds
    <3> QED BY <2>1, <3>1, <3>2, <3>3, <3>4
  <2>4. ListTypes'
      BY <1>0, <2>1, <2>2, <2>3 DEF ListTypes
  <2>5. NumberInv'
      BY <2>1 DEF NumberInv
  <2> QED BY <2>4, <2>5
<1>7. ASSUME NEW s \in Sessions, SaveFails(s) PROVE G
  <2>1. /\ UNCHANGED <<ruleFile, temporary, known, nextRule, wanted, granted, missed>>
        /\ excused' \subseteq excused \cup Differ(known[s], ruleFile)
      BY <1>7 DEF SaveFails, files
  <2>2. excused' \subseteq 1..(nextRule - 1)
      BY <1>0, <2>1, ListFacts DEF ListTypes, Differ
  <2> QED BY <1>0, <2>1, <2>2 DEF ListTypes, NumberInv
<1>8. ASSUME NEW r \in HandRules, AddByHand(r) PROVE G
  <2> DEFINE rule == Rule(nextRule, r.tool, r.needs, r.action)
  <2>1. /\ UNCHANGED <<temporary, known, granted, excused>>
        /\ ruleFile' = Append(ruleFile, rule) /\ Miss(Append(ruleFile, rule))
        /\ wanted' = wanted \cup {nextRule}
        /\ nextRule' = nextRule + 1
      BY <1>8 DEF AddByHand, EditByHand
  <2>2. rule \in RuleSet /\ rule.id = nextRule
    <3>1. rule \in RuleSet
        BY NewRule, ListFacts
    <3> QED BY <3>1 DEF Rule
  <2> HIDE DEF rule
  <2>3. /\ ruleFile \in RuleLists /\ Numbered(ruleFile, nextRule) /\ nextRule \in Nat \ {0}
      BY <1>0 DEF ListTypes, NumberInv
  <2>4. /\ Append(ruleFile, rule) \in RuleLists
        /\ RuleIds(Append(ruleFile, rule)) = RuleIds(ruleFile) \cup {nextRule}
        /\ Numbered(Append(ruleFile, rule), nextRule + 1)
      BY <2>2, <2>3, AppendRule
  <2>5. 1..(nextRule - 1) \subseteq 1..(nextRule' - 1) /\ nextRule \in 1..(nextRule' - 1)
        /\ nextRule' \in Nat \ {0}
      BY <2>1, <2>3
  <2>6. missed' \in [Sessions -> SUBSET (1..(nextRule' - 1))]
    <3>1. RuleIds(Append(ruleFile, rule)) \subseteq 1..(nextRule' - 1)
        BY <2>4, <2>5, ListFacts
    <3> QED BY <2>1, <2>5, <3>1, MissTypes
  <2>7. ListTypes'
    <3>1. /\ wanted' \subseteq 1..(nextRule' - 1) /\ excused' \subseteq 1..(nextRule' - 1)
        BY <1>0, <2>1, <2>5 DEF ListTypes
    <3> QED BY <1>0, <2>1, <2>4, <2>5, <2>6, <3>1 DEF ListTypes
  <2>8. NumberInv'
    <3>1. \A list : Numbered(list, nextRule) => Numbered(list, nextRule')
        BY <2>1, <2>3, NumberedMore
    <3> QED BY <2>1, <2>4, <3>1 DEF NumberInv
  <2> QED BY <2>7, <2>8
<1>9. ASSUME NEW i \in DOMAIN ruleFile, RemoveByHand(i) PROVE G
  <2>1. /\ UNCHANGED <<temporary, known, granted, excused, nextRule>>
        /\ ruleFile' = Without(ruleFile, i) /\ Miss(Without(ruleFile, i))
        /\ wanted' = wanted \ {ruleFile[i].id}
      BY <1>9 DEF RemoveByHand, EditByHand
  <2>2. /\ ruleFile \in RuleLists /\ Numbered(ruleFile, nextRule) /\ nextRule \in Nat
      BY <1>0 DEF ListTypes, NumberInv
  <2>3. /\ Without(ruleFile, i) \in RuleLists
        /\ RuleIds(Without(ruleFile, i)) = RuleIds(ruleFile) \ {ruleFile[i].id}
        /\ Numbered(Without(ruleFile, i), nextRule)
      BY <2>2, WithoutRule
  <2>4. missed' \in [Sessions -> SUBSET (1..(nextRule - 1))]
      BY <2>1, <2>3, ListFacts, MissTypes
  <2>5. ListTypes'
      BY <1>0, <2>1, <2>3, <2>4 DEF ListTypes
  <2>6. NumberInv'
      BY <2>1, <2>3 DEF NumberInv
  <2> QED BY <2>5, <2>6
<1> HIDE DEF G, MadeIds
<1>10. G
    BY <1>1, <1>2, <1>3, <1>4, <1>5, <1>6, <1>7, <1>8, <1>9, AdmCases
<1> QED BY <1>10 DEF G

-----------------------------------------------------------------------------
(* "Always" is never asked about again *)

LEMMA GrantStep == AdmShapeInv /\ GrantInv /\ AdmissionNext => GrantInv'
<1> SUFFICES ASSUME AdmShapeInv, GrantInv, AdmissionNext PROVE GrantInv'
    OBVIOUS
<1>0. known \in [Sessions -> RuleLists] /\ DOMAIN granted = Sessions
    BY DEF AdmShapeInv
<1>1. ASSUME UNCHANGED <<known, granted>> PROVE GrantInv'
    BY <1>1 DEF GrantInv
<1>2. ASSUME NEW s \in Sessions, StartSession(s) PROVE GrantInv'
  <2>1. /\ known' = [known EXCEPT ![s] = ruleFile] /\ granted' = [granted EXCEPT ![s] = {}]
      BY <1>2 DEF StartSession
  <2>2. \A t \in Sessions : granted'[t] = {} \/ (granted'[t] = granted[t] /\ known'[t] = known[t])
      BY <1>0, <2>1
  <2> QED BY <2>2 DEF GrantInv
<1>3. ASSUME NEW s \in Sessions, NEW needs, AnswerAlways(s, needs) PROVE GrantInv'
  <2> DEFINE rule == Rule(nextRule, Current(s).tool, needs, "allow")
             given == Current(s)
             new == Append(known[s], rule)
  <2>1. /\ known' = [known EXCEPT ![s] = new]
        /\ granted' = [granted EXCEPT ![s] = @ \cup {given}]
      BY <1>3 DEF AnswerAlways, RememberRule
  <2>2. Matches(rule, given) /\ rule.action = "allow"
      BY <1>3 DEF AnswerAlways, Rule, Matches
  <2> HIDE DEF rule, given
  <2>3. /\ Len(known[s]) \in Nat /\ DOMAIN known[s] = 1..Len(known[s])
        /\ DOMAIN new = 1..(Len(known[s]) + 1) /\ new[Len(known[s]) + 1] = rule
        /\ \A k \in DOMAIN known[s] : new[k] = known[s][k]
      BY <1>0 DEF RuleLists
  <2> HIDE DEF new
  <2>4. ASSUME NEW g, Allows(known[s], g) PROVE Allows(new, g)
    <3>1. PICK k \in DOMAIN known[s] :
             /\ Matches(known[s][k], g)
             /\ \A j \in DOMAIN known[s] : j >= k => known[s][j].action = "allow"
        BY <2>4 DEF Allows
    <3>2. k \in DOMAIN new /\ new[k] = known[s][k]
        BY <2>3
    <3>3. ASSUME NEW j \in DOMAIN new, j >= k PROVE new[j].action = "allow"
      <4>1. CASE j \in DOMAIN known[s]
          BY <2>3, <3>1, <3>3, <4>1
      <4>2. CASE j \notin DOMAIN known[s]
        <5>1. j = Len(known[s]) + 1
            BY <2>3, <4>2
        <5> QED BY <2>2, <2>3, <5>1
      <4> QED BY <4>1, <4>2
    <3> QED BY <3>1, <3>2, <3>3 DEF Allows
  <2>5. Allows(new, given)
    <3>1. Len(known[s]) + 1 \in DOMAIN new
        BY <2>3
    <3>2. \A j \in DOMAIN new : j >= Len(known[s]) + 1 => j = Len(known[s]) + 1
        BY <2>3
    <3> QED BY <2>2, <2>3, <3>1, <3>2 DEF Allows
  <2>6. ASSUME NEW t \in Sessions, NEW g \in granted'[t] PROVE Allows(known'[t], g)
    <3>1. CASE t = s
      <4>1. known'[t] = new /\ granted'[t] = granted[s] \cup {given}
          BY <1>0, <2>1, <3>1
      <4>2. g \in granted[s] \/ g = given
          BY <2>6, <4>1
      <4> QED BY <2>4, <2>5, <4>1, <4>2 DEF GrantInv
    <3>2. CASE t # s
      <4>1. known'[t] = known[t] /\ granted'[t] = granted[t]
          BY <1>0, <2>1, <3>2
      <4> QED BY <2>6, <4>1 DEF GrantInv
    <3> QED BY <3>1, <3>2
  <2> QED BY <2>6 DEF GrantInv
<1>4. ASSUME Quiet PROVE GrantInv'
    BY <1>1, <1>4 DEF Quiet
<1>5. ASSUME NEW s \in Sessions,
             StopSession(s) \/ WriteTemporary(s) \/ ReplaceFile(s) \/ SaveFails(s)
      PROVE  GrantInv'
    BY <1>1, <1>5 DEF StopSession, WriteTemporary, ReplaceFile, SaveFails
<1>6. ASSUME NEW r, AddByHand(r) \/ RemoveByHand(r) PROVE GrantInv'
    BY <1>1, <1>6 DEF AddByHand, RemoveByHand, EditByHand
<1> QED BY <1>2, <1>3, <1>4, <1>5, <1>6, AdmCases

LEMMA Admits ==
    ASSUME NEW rules \in RuleLists, NEW c, Allows(rules, c),
           c \notin Invalid \cup Blocked
    PROVE  Verdict(rules, c) = "admitted"
<1> DEFINE hits == {i \in DOMAIN rules : Matches(rules[i], c)}
<1>1. PICK k \in DOMAIN rules :
         /\ Matches(rules[k], c)
         /\ \A j \in DOMAIN rules : j >= k => rules[j].action = "allow"
    BY DEF Allows
<1>2. k \in hits
    BY <1>1
<1>3. Len(rules) \in Nat /\ DOMAIN rules = 1..Len(rules)
    BY DEF RuleLists
<1>4. hits \in SUBSET (0..Len(rules)) /\ hits # {}
    BY <1>2, <1>3
<1>5. \E i \in hits : \A j \in hits : i >= j
  <2>1. PICK i \in hits : \A j \in hits : j <= i
    <3> HIDE DEF hits
    <3> QED BY <1>3, <1>4, GreatestNatural
  <2> QED BY <1>4, <2>1
<1> DEFINE last == CHOOSE i \in hits : \A j \in hits : i >= j
<1>6. last \in hits /\ \A j \in hits : last >= j
    BY <1>5
<1>7. Resolve(rules, c) = rules[last].action
    BY <1>4 DEF Resolve
<1> HIDE DEF last
<1>8. rules[last].action = "allow"
    BY <1>1, <1>2, <1>6
<1> QED BY <1>7, <1>8 DEF Verdict

-----------------------------------------------------------------------------
(* No rule is lost *)

\* An id that RulesKept speaks of
AsWanted(id) ==
    \/ id \in excused \/ \E s \in Sessions : id \in Unsaved(s)
    \/ (id \in RuleIds(ruleFile) <=> id \in wanted)

LEMMA KeptRules ==
    /\ RulesKept <=> \A id \in MadeIds : AsWanted(id)
    /\ RulesKept' <=> \A id \in MadeIds' : AsWanted(id)'
BY DEF RulesKept, AsWanted, Unsaved, Saving, MadeIds

\* The rules a list and the file do not share are accounted for.
Listed(s) ==
    \A id \in Differ(known[s], ruleFile) :
        id \in missed[s] \cup excused \/ id \in Unsaved(s) \cap wanted

LEMMA SavingStep ==
    ASSUME AdmShapeInv, NEW s \in Sessions, NEW d \in Desks, desk' = [desk EXCEPT ![s] = d]
    PROVE  /\ desk'[s] = d /\ \A t \in Sessions \ {s} : desk'[t] = desk[t]
BY DEF AdmShapeInv

KeepInv == ListInv /\ RulesKept

LEMMA KeepSame ==
    ASSUME KeepInv, UNCHANGED <<ruleFile, known, nextRule, wanted, missed, excused>>,
           \A s \in Sessions : desk'[s].at # "off" => desk[s].at # "off",
           \A s \in Sessions : Saving(s)' <=> Saving(s)
    PROVE  KeepInv'
<1>1. \A s \in Sessions : Unsaved(s)' = Unsaved(s)
    BY DEF Unsaved
<1>2. ListInv'
    BY <1>1 DEF KeepInv, ListInv
<1>3. RulesKept'
  <2>1. MadeIds' = MadeIds /\ \A id \in MadeIds : AsWanted(id)
      BY KeptRules DEF KeepInv, MadeIds
  <2>2. \A id \in MadeIds : AsWanted(id)'
      BY <1>1, <2>1 DEF AsWanted
  <2>3. \A id \in MadeIds' : AsWanted(id)'
      BY <2>1, <2>2
  <2> QED BY <2>3, KeptRules
<1> QED BY <1>2, <1>3 DEF KeepInv

\* A session stops saving: what its list has over the file is excused.
LEMMA KeepEnds ==
    ASSUME KeepInv, NEW s \in Sessions,
           UNCHANGED <<ruleFile, known, nextRule, wanted, missed>>,
           excused \subseteq excused', Unsaved(s) \subseteq excused', ~Saving(s)',
           desk'[s].at # "off" => Differ(known[s], ruleFile) \subseteq excused',
           \A t \in Sessions \ {s} : desk'[t] = desk[t]
    PROVE  KeepInv'
<1>1. Unsaved(s)' = {} /\ \A t \in Sessions \ {s} : Unsaved(t)' = Unsaved(t)
    BY DEF Unsaved, Saving
<1>2. ASSUME NEW t \in Sessions, desk'[t].at # "off", NEW id \in Differ(known[t], ruleFile)
      PROVE  id \in missed[t] \cup excused' \/ id \in Unsaved(t)' \cap wanted
  <2>1. CASE t = s
      BY <1>2, <2>1
  <2>2. CASE t # s
    <3>1. id \in missed[t] \cup excused \/ id \in Unsaved(t) \cap wanted
        BY <1>2, <2>2 DEF KeepInv, ListInv
    <3> QED BY <1>1, <2>2, <3>1
  <2> QED BY <2>1, <2>2
<1>3. ListInv'
    BY <1>2 DEF ListInv
<1>4. ASSUME NEW id \in MadeIds PROVE AsWanted(id)'
  <2>1. AsWanted(id)
      BY KeptRules DEF KeepInv
  <2>2. CASE id \in excused
      BY <2>2 DEF AsWanted
  <2>3. CASE \E t \in Sessions : id \in Unsaved(t)
    <3>1. PICK t \in Sessions : id \in Unsaved(t)
        BY <2>3
    <3>2. id \in excused' \/ id \in Unsaved(t)'
        BY <1>1, <3>1
    <3> QED BY <3>2 DEF AsWanted
  <2>4. CASE id \in RuleIds(ruleFile) <=> id \in wanted
      BY <2>4 DEF AsWanted
  <2> QED BY <2>1, <2>2, <2>3, <2>4 DEF AsWanted
<1>5. MadeIds' = MadeIds
    BY DEF MadeIds
<1> QED BY <1>3, <1>4, <1>5, KeptRules DEF KeepInv

LEMMA KeepStart ==
    ASSUME AdmShapeInv, KeepInv, NEW s \in Sessions, StartSession(s)
    PROVE  KeepInv'
<1>1. /\ desk[s].at = "off" /\ desk' = [desk EXCEPT ![s].at = "idle"]
      /\ known' = [known EXCEPT ![s] = ruleFile]
      /\ missed' = [missed EXCEPT ![s] = {}]
      /\ UNCHANGED <<ruleFile, nextRule, wanted, excused>>
    BY DEF StartSession, files
<1>2. /\ DOMAIN desk = Sessions /\ DOMAIN known = Sessions /\ DOMAIN missed = Sessions
      /\ desk[s] \in Desks
    BY DEF AdmShapeInv
<1>3. /\ known'[s] = ruleFile /\ desk'[s].at = "idle"
      /\ \A t \in Sessions \ {s} :
            known'[t] = known[t] /\ desk'[t] = desk[t] /\ missed'[t] = missed[t]
    BY <1>1, <1>2 DEF Desks
<1>4. /\ Unsaved(s) = {} /\ Unsaved(s)' = {}
      /\ \A t \in Sessions \ {s} : Unsaved(t)' = Unsaved(t)
    BY <1>1, <1>3 DEF Unsaved, Saving
<1>5. ASSUME NEW t \in Sessions, desk'[t].at # "off", NEW id \in Differ(known'[t], ruleFile)
      PROVE  id \in missed'[t] \cup excused \/ id \in Unsaved(t)' \cap wanted
  <2>1. CASE t = s
    <3>1. Differ(known'[t], ruleFile) = {}
        BY <1>3, <2>1 DEF Differ
    <3> QED BY <1>5, <3>1
  <2>2. CASE t # s
    <3>1. desk[t].at # "off" /\ id \in Differ(known[t], ruleFile)
        BY <1>3, <1>5, <2>2
    <3>2. id \in missed[t] \cup excused \/ id \in Unsaved(t) \cap wanted
        BY <3>1 DEF KeepInv, ListInv
    <3> QED BY <1>3, <1>4, <2>2, <3>2
  <2> QED BY <2>1, <2>2
<1>6. ListInv'
    BY <1>1, <1>5 DEF ListInv
<1>7. ASSUME NEW id \in MadeIds PROVE AsWanted(id)'
  <2>1. AsWanted(id)
      BY KeptRules DEF KeepInv
  <2>2. CASE \E t \in Sessions : id \in Unsaved(t)
    <3>1. PICK t \in Sessions : id \in Unsaved(t)
        BY <2>2
    <3>2. id \in Unsaved(t)'
        BY <1>4, <3>1
    <3> QED BY <3>2 DEF AsWanted
  <2>3. CASE id \in excused \/ (id \in RuleIds(ruleFile) <=> id \in wanted)
      BY <1>1, <2>3 DEF AsWanted
  <2> QED BY <2>1, <2>2, <2>3 DEF AsWanted
<1>8. MadeIds' = MadeIds
    BY <1>1 DEF MadeIds
<1> QED BY <1>6, <1>7, <1>8, KeptRules DEF KeepInv

LEMMA KeepAnswer ==
    ASSUME AdmShapeInv, NumberInv, DeskInv, KeepInv,
           NEW s \in Sessions, NEW needs, AnswerAlways(s, needs)
    PROVE  KeepInv'
<1> DEFINE rule == Rule(nextRule, Current(s).tool, needs, "allow")
           n == nextRule
<1>1. /\ desk[s].at = "asking" /\ desk' = [desk EXCEPT ![s].at = "saving"]
      /\ needs \in {Current(s).args, {}}
      /\ known' = [known EXCEPT ![s] = Append(known[s], rule)]
      /\ nextRule' = n + 1 /\ wanted' = wanted \cup {n}
      /\ UNCHANGED <<ruleFile, missed, excused>>
    BY DEF AnswerAlways, RememberRule, files
<1>2. /\ DOMAIN desk = Sessions /\ DOMAIN known = Sessions /\ desk[s] \in Desks
    BY DEF AdmShapeInv
<1>3. RuleIds(Append(known[s], rule)) = RuleIds(known[s]) \cup {n}
  <2>1. Current(s) \in AllCalls
      BY <1>1, AskedDesk
  <2>2. rule \in RuleSet
      BY <1>1, <2>1, NewRule, ListFacts
  <2>3. rule.id = n
      BY DEF Rule
  <2>4. known[s] \in RuleLists /\ Numbered(known[s], n) /\ n \in Nat \ {0}
      BY ListFacts DEF ListTypes, NumberInv
  <2> HIDE DEF rule
  <2> QED BY <2>2, <2>3, <2>4, AppendRule
<1> HIDE DEF rule
<1>4. /\ desk'[s].at = "saving" /\ RuleIds(known'[s]) = RuleIds(known[s]) \cup {n}
      /\ \A t \in Sessions \ {s} : known'[t] = known[t] /\ desk'[t] = desk[t]
    BY <1>1, <1>2, <1>3 DEF Desks
<1>5. n \notin RuleIds(ruleFile) /\ n \notin MadeIds
    BY ListFacts
<1>6. /\ Unsaved(s) = {} /\ Unsaved(s)' = RuleIds(known'[s]) \ RuleIds(ruleFile)
      /\ \A t \in Sessions \ {s} : Unsaved(t)' = Unsaved(t)
    BY <1>1, <1>4 DEF Unsaved, Saving
<1>7. n \in Unsaved(s)'
    BY <1>4, <1>5, <1>6
<1>8. ASSUME NEW t \in Sessions, desk'[t].at # "off", NEW id \in Differ(known'[t], ruleFile)
      PROVE  id \in missed[t] \cup excused \/ id \in Unsaved(t)' \cap wanted'
  <2>1. CASE t = s /\ id = n
      BY <1>1, <1>7, <2>1
  <2>2. CASE t = s /\ id # n
    <3>1. id \in Differ(known[s], ruleFile)
        BY <1>4, <1>8, <2>2 DEF Differ
    <3>2. id \in missed[s] \cup excused
        BY <1>1, <1>6, <3>1 DEF KeepInv, ListInv
    <3> QED BY <2>2, <3>2
  <2>3. CASE t # s
    <3>1. desk[t].at # "off" /\ id \in Differ(known[t], ruleFile)
        BY <1>4, <1>8, <2>3
    <3>2. id \in missed[t] \cup excused \/ id \in Unsaved(t) \cap wanted
        BY <3>1 DEF KeepInv, ListInv
    <3> QED BY <1>1, <1>6, <2>3, <3>2
  <2> QED BY <2>1, <2>2, <2>3
<1>9. ListInv'
    BY <1>1, <1>8 DEF ListInv
<1>10. ASSUME NEW id \in MadeIds PROVE AsWanted(id)'
  <2>1. AsWanted(id) /\ id # n
      BY <1>5, KeptRules DEF KeepInv
  <2>2. CASE \E t \in Sessions : id \in Unsaved(t)
    <3>1. PICK t \in Sessions : id \in Unsaved(t)
        BY <2>2
    <3>2. id \in Unsaved(t)'
        BY <1>6, <3>1
    <3> QED BY <3>2 DEF AsWanted
  <2>3. CASE id \in excused \/ (id \in RuleIds(ruleFile) <=> id \in wanted)
      BY <1>1, <2>1, <2>3 DEF AsWanted
  <2> QED BY <2>1, <2>2, <2>3 DEF AsWanted
<1>11. ASSUME NEW id \in {n} PROVE AsWanted(id)'
    BY <1>7 DEF AsWanted
<1>12. MadeIds' = MadeIds \cup {n}
    BY <1>1, ListFacts DEF MadeIds
<1> HIDE DEF n
<1> QED BY <1>9, <1>10, <1>11, <1>12, KeptRules DEF KeepInv

\* What reaches the file: the sessions with another list miss what it changes.
LEMMA MissedChange ==
    ASSUME AdmShapeInv, NEW list, Miss(list), NEW t \in Sessions
    PROVE  /\ missed[t] \subseteq missed'[t]
           /\ known[t] = list \/ missed'[t] = missed[t] \cup Differ(ruleFile, list)
BY DEF AdmShapeInv, Miss

LEMMA KeepReplace ==
    ASSUME AdmShapeInv, DeskInv, KeepInv, NEW s \in Sessions, ReplaceFile(s)
    PROVE  KeepInv'
<1> DEFINE F == RuleIds(ruleFile)
           T == RuleIds(temporary)
           K == RuleIds(known[s])
<1>1. /\ desk[s].at = "replacing" /\ Settle(s, "admitted")
      /\ ruleFile' = temporary /\ Miss(temporary)
      /\ UNCHANGED <<known, nextRule, wanted>>
      /\ excused' = excused \cup
           (IF temporary = known[s] THEN missed[s]
            ELSE Differ(known[s], temporary) \cup UNION {missed[t] : t \in Sessions})
    BY DEF ReplaceFile
<1>2. /\ DOMAIN desk = Sessions /\ desk[s] \in Desks
    BY DEF AdmShapeInv
<1>3. desk'[s].at = "authorizing" /\ \A t \in Sessions \ {s} : desk'[t] = desk[t]
  <2>1. Settled(desk[s], "admitted").at = "authorizing"
      BY <1>1, AskedDesk, SettledDesk
  <2> QED BY <1>1, <1>2, <2>1 DEF Settle
<1>4. missed[s] \cup excused \cup Differ(known[s], temporary) \subseteq excused'
  <2>1. temporary = known[s] => Differ(known[s], temporary) = {}
      BY DEF Differ
  <2>2. missed[s] \subseteq UNION {missed[t] : t \in Sessions}
      OBVIOUS
  <2> QED BY <1>1, <2>1, <2>2
<1>5. /\ Unsaved(s) = K \ F /\ Unsaved(s)' = {}
      /\ \A t \in Sessions \ {s} : Unsaved(t) \ T \subseteq Unsaved(t)'
  <2>1. Unsaved(s) = K \ F /\ Unsaved(s)' = {}
      BY <1>1, <1>3 DEF Unsaved, Saving
  <2>2. ASSUME NEW t \in Sessions \ {s} PROVE Unsaved(t) \ T \subseteq Unsaved(t)'
    <3>1. desk'[t] = desk[t] /\ known'[t] = known[t] /\ RuleIds(ruleFile)' = T
        BY <1>1, <1>3
    <3> QED BY <3>1 DEF Unsaved, Saving
  <2> QED BY <2>1, <2>2
<1>6. ASSUME NEW id \in K \ F, id \notin excused' PROVE id \in T /\ id \in wanted
  <2>1. id \in Differ(known[s], ruleFile) /\ desk[s].at # "off"
      BY <1>1, <1>6 DEF Differ
  <2>2. id \in missed[s] \cup excused \/ id \in Unsaved(s) \cap wanted
      BY <2>1 DEF KeepInv, ListInv
  <2> QED BY <1>4, <1>6, <2>2 DEF Differ
<1>7. ASSUME NEW id \in F \ K PROVE id \in excused'
  <2>1. id \in Differ(known[s], ruleFile) /\ desk[s].at # "off"
      BY <1>1, <1>7 DEF Differ
  <2>2. id \in missed[s] \cup excused \/ id \in Unsaved(s) \cap wanted
      BY <2>1 DEF KeepInv, ListInv
  <2> QED BY <1>4, <1>5, <1>7, <2>2
<1>8. ASSUME NEW id \in MadeIds PROVE AsWanted(id)'
  <2> SUFFICES ASSUME id \notin excused' PROVE AsWanted(id)'
      BY DEF AsWanted
  <2>1. id \in K <=> id \in T
      BY <1>4 DEF Differ
  <2>2. RuleIds(ruleFile)' = T /\ wanted' = wanted
      BY <1>1
  <2>3. CASE id \in K \ F
      BY <1>6, <2>2, <2>3 DEF AsWanted
  <2>4. CASE id \in F <=> id \in K
    <3>1. AsWanted(id) /\ id \notin excused
        BY <1>4, KeptRules DEF KeepInv
    <3>2. CASE \E t \in Sessions : id \in Unsaved(t)
      <4>1. PICK t \in Sessions : id \in Unsaved(t)
          BY <3>2
      <4>2. id \notin F
          BY <4>1 DEF Unsaved
      <4>3. id \notin T /\ t # s
          BY <1>5, <2>1, <2>4, <4>1, <4>2
      <4>4. id \in Unsaved(t)'
          BY <1>5, <4>1, <4>3
      <4> QED BY <4>4 DEF AsWanted
    <3>3. CASE id \in RuleIds(ruleFile) <=> id \in wanted
        BY <2>1, <2>2, <2>4, <3>3 DEF AsWanted
    <3> QED BY <3>1, <3>2, <3>3 DEF AsWanted
  <2> QED BY <1>7, <2>3, <2>4
<1>9. ASSUME NEW t \in Sessions, desk'[t].at # "off", NEW id \in Differ(known[t], temporary)
      PROVE  id \in missed'[t] \cup excused' \/ id \in Unsaved(t)' \cap wanted
  <2>1. CASE t = s
      BY <1>4, <1>9, <2>1
  <2>2. CASE t # s
    <3>1. known[t] # temporary
        BY <1>9 DEF Differ
    <3>2. missed'[t] = missed[t] \cup Differ(ruleFile, temporary)
        BY <1>1, <3>1, MissedChange
    <3>3. CASE id \in Differ(ruleFile, temporary)
        BY <3>2, <3>3
    <3>4. CASE id \notin Differ(ruleFile, temporary)
      <4>1. id \in Differ(known[t], ruleFile) /\ (id \in F <=> id \in T)
          BY <1>9, <3>4 DEF Differ
      <4>2. desk[t].at # "off"
          BY <1>3, <1>9, <2>2
      <4>3. id \in missed[t] \cup excused \/ id \in Unsaved(t) \cap wanted
          BY <4>1, <4>2 DEF KeepInv, ListInv
      <4>4. id \in Unsaved(t) => id \in Unsaved(t)'
          BY <1>5, <2>2, <4>1 DEF Unsaved
      <4> QED BY <1>4, <3>2, <4>3, <4>4
    <3> QED BY <3>3, <3>4
  <2> QED BY <2>1, <2>2
<1>10. ListInv'
    BY <1>1, <1>9 DEF ListInv
<1>11. MadeIds' = MadeIds
    BY <1>1 DEF MadeIds
<1> HIDE DEF F, T, K
<1> QED BY <1>8, <1>10, <1>11, KeptRules DEF KeepInv

\* The user's editor adds or removes one rule, and wants what it did.
LEMMA KeepEdit ==
    ASSUME AdmShapeInv, NumberInv, KeepInv, NEW list, EditByHand(list),
           NEW x, Differ(ruleFile, list) = {x},
           x \in RuleIds(list) <=> x \in wanted',
           \A id \in MadeIds : id # x => (id \in wanted' <=> id \in wanted),
           MadeIds \subseteq MadeIds', MadeIds' \subseteq MadeIds \cup {x}
    PROVE  KeepInv'
<1>1. /\ ruleFile' = list /\ Miss(list) /\ UNCHANGED <<known, desk, excused>>
    BY DEF EditByHand
<1>2. \A id : id # x => (id \in RuleIds(ruleFile)' <=> id \in RuleIds(ruleFile))
    BY <1>1 DEF Differ
<1>3. \A t \in Sessions : \A id \in Unsaved(t) : id # x => id \in Unsaved(t)'
    BY <1>1, <1>2 DEF Unsaved, Saving
<1>4. ASSUME NEW id \in MadeIds' PROVE AsWanted(id)'
  <2>1. CASE id = x
      BY <1>1, <2>1 DEF AsWanted
  <2>2. CASE id # x
    <3>1. id \in MadeIds /\ AsWanted(id)
        BY <2>2, KeptRules DEF KeepInv
    <3>2. CASE \E t \in Sessions : id \in Unsaved(t)
        BY <1>3, <2>2, <3>2 DEF AsWanted
    <3>3. CASE id \in excused
        BY <1>1, <3>3 DEF AsWanted
    <3>4. CASE id \in RuleIds(ruleFile) <=> id \in wanted
      <4>1. id \in RuleIds(ruleFile)' <=> id \in wanted'
          BY <1>2, <2>2, <3>1, <3>4
      <4> QED BY <4>1 DEF AsWanted
    <3> QED BY <3>1, <3>2, <3>3, <3>4 DEF AsWanted
  <2> QED BY <2>1, <2>2
<1>5. ASSUME NEW t \in Sessions, desk[t].at # "off", NEW id \in Differ(known[t], list)
      PROVE  id \in missed'[t] \cup excused \/ id \in Unsaved(t)' \cap wanted'
  <2>1. known[t] # list
      BY <1>5 DEF Differ
  <2>2. missed'[t] = missed[t] \cup {x}
      BY <1>1, <2>1, MissedChange
  <2>3. CASE id = x
      BY <2>2, <2>3
  <2>4. CASE id # x
    <3>1. id \in Differ(known[t], ruleFile)
        BY <1>1, <1>2, <1>5, <2>4 DEF Differ
    <3>2. id \in missed[t] \cup excused \/ id \in Unsaved(t) \cap wanted
        BY <1>5, <3>1 DEF KeepInv, ListInv
    <3>3. id \in Unsaved(t) => id \in MadeIds
        BY ListFacts DEF Unsaved
    <3> QED BY <1>3, <2>2, <2>4, <3>2, <3>3
  <2> QED BY <2>3, <2>4
<1>6. ListInv'
    BY <1>1, <1>5 DEF ListInv
<1> QED BY <1>4, <1>6, KeptRules DEF KeepInv

LEMMA KeepStep ==
    AdmShapeInv /\ NumberInv /\ DeskInv /\ KeepInv /\ AdmissionNext => KeepInv'
<1> SUFFICES ASSUME AdmShapeInv, NumberInv, DeskInv, KeepInv, AdmissionNext PROVE KeepInv'
    OBVIOUS
<1>0. \A s \in Sessions : DOMAIN desk = Sessions /\ desk[s] \in Desks
    BY DEF AdmShapeInv
<1>1. ASSUME NEW s \in Sessions, NEW calls, BeginBatch(s, calls) PROVE KeepInv'
  <2>1. /\ UNCHANGED <<ruleFile, known, nextRule, wanted, missed, excused>>
        /\ desk[s].at = "idle" /\ desk' = [desk EXCEPT ![s] = Desk("authorizing", calls)]
      BY <1>1 DEF BeginBatch, files
  <2>2. /\ \A t \in Sessions : t # s => desk'[t] = desk[t]
        /\ desk'[s].at = "authorizing"
      BY <1>0, <2>1 DEF Desk
  <2> QED BY <2>1, <2>2, KeepSame DEF Saving
<1>2. ASSUME NEW s \in Sessions, NEW at \in {"authorizing", "asking"},
             desk[s].at \in {"authorizing", "asking"},
             UNCHANGED <<ruleFile, known, nextRule, wanted, missed, excused>>,
             desk'[s].at = at, \A t \in Sessions : t # s => desk'[t] = desk[t]
      PROVE  KeepInv'
    BY <1>2, KeepSame DEF Saving
<1>3. ASSUME NEW s \in Sessions, desk[s].at \in {"authorizing", "asking"},
             Len(desk[s].verdicts) < Len(desk[s].calls),
             NEW v \in {"admitted", "refused"}, Settle(s, v)
      PROVE  desk'[s].at = "authorizing" /\ \A t \in Sessions : t # s => desk'[t] = desk[t]
  <2>1. Settled(desk[s], v).at = "authorizing"
      BY <1>3, AskedDesk, SettledDesk
  <2> QED BY <1>0, <1>3, <2>1 DEF Settle
<1>4. ASSUME NEW s \in Sessions, Authorize(s) PROVE KeepInv'
  <2> DEFINE v == Verdict(known[s], Current(s))
  <2>1. v \in {"admitted", "refused", "ask"}
      BY DEF Verdict
  <2>2. /\ v = "ask" => desk' = [desk EXCEPT ![s].at = "asking"]
        /\ v # "ask" => Settle(s, v)
        /\ desk[s].at = "authorizing" /\ Len(desk[s].verdicts) < Len(desk[s].calls)
        /\ UNCHANGED <<ruleFile, known, nextRule, wanted, missed, excused>>
      BY <1>4 DEF Authorize, files
  <2> HIDE DEF v
  <2>3. CASE v = "ask"
    <3>1. desk'[s].at = "asking" /\ \A t \in Sessions : t # s => desk'[t] = desk[t]
        BY <1>0, <2>2, <2>3 DEF Desks
    <3> QED BY <1>2, <2>2, <3>1
  <2>4. CASE v # "ask"
    <3>1. desk'[s].at = "authorizing" /\ \A t \in Sessions : t # s => desk'[t] = desk[t]
        BY <1>3, <2>1, <2>2, <2>4
    <3> QED BY <1>2, <2>2, <3>1
  <2> QED BY <2>3, <2>4
<1>5. ASSUME NEW s \in Sessions, NEW v \in {"admitted", "refused"}, AnswerOnce(s, v)
      PROVE  KeepInv'
  <2>1. /\ desk[s].at = "asking" /\ Settle(s, v)
        /\ UNCHANGED <<ruleFile, known, nextRule, wanted, missed, excused>>
      BY <1>5 DEF AnswerOnce, files
  <2>2. Len(desk[s].verdicts) < Len(desk[s].calls)
      BY <2>1, AskedDesk
  <2> QED BY <1>2, <1>3, <2>1, <2>2
<1>6. ASSUME NEW s \in Sessions, RunAdmitted(s) PROVE KeepInv'
  <2>1. /\ UNCHANGED <<ruleFile, known, nextRule, wanted, missed, excused>>
        /\ desk[s].at = "authorizing"
        /\ desk' = [desk EXCEPT ![s].at = "idle", ![s].results = BatchResults(desk[s])]
      BY <1>6 DEF RunAdmitted, files
  <2>2. /\ \A t \in Sessions : t # s => desk'[t] = desk[t]
        /\ desk'[s].at = "idle"
      BY <1>0, <2>1 DEF Desks
  <2> QED BY <2>1, <2>2, KeepSame DEF Saving
<1>7. ASSUME NEW s \in Sessions, WriteTemporary(s) PROVE KeepInv'
  <2>1. /\ UNCHANGED <<ruleFile, known, nextRule, wanted, missed, excused>>
        /\ desk[s].at = "saving" /\ desk' = [desk EXCEPT ![s].at = "replacing"]
      BY <1>7 DEF WriteTemporary
  <2>2. /\ \A t \in Sessions : t # s => desk'[t] = desk[t]
        /\ desk'[s].at = "replacing"
      BY <1>0, <2>1 DEF Desks
  <2> QED BY <2>1, <2>2, KeepSame DEF Saving
<1>8. ASSUME NEW s \in Sessions, StopSession(s) PROVE KeepInv'
  <2>1. /\ UNCHANGED <<ruleFile, known, nextRule, wanted, missed>>
        /\ desk' = [desk EXCEPT ![s] = Off]
        /\ excused' = IF desk[s].at \in {"saving", "replacing"}
                      THEN excused \cup Differ(known[s], ruleFile) ELSE excused
      BY <1>8 DEF StopSession, files
  <2>2. /\ \A t \in Sessions \ {s} : desk'[t] = desk[t]
        /\ desk'[s].at = "off"
      BY <1>0, <2>1 DEF Off, Desk
  <2>3. Unsaved(s) \subseteq excused' /\ ~Saving(s)'
      BY <2>1, <2>2 DEF Unsaved, Saving, Differ
  <2> QED BY <2>1, <2>2, <2>3, KeepEnds
<1>9. ASSUME NEW s \in Sessions, SaveFails(s) PROVE KeepInv'
  <2>1. /\ UNCHANGED <<ruleFile, known, nextRule, wanted, missed>>
        /\ desk' = [desk EXCEPT ![s] = Desk("idle", <<>>)]
        /\ excused' = excused \cup Differ(known[s], ruleFile)
      BY <1>9 DEF SaveFails, files
  <2>2. /\ \A t \in Sessions \ {s} : desk'[t] = desk[t]
        /\ desk'[s].at = "idle"
      BY <1>0, <2>1 DEF Desk
  <2>3. Unsaved(s) \subseteq excused' /\ ~Saving(s)'
      BY <2>1, <2>2 DEF Unsaved, Saving, Differ
  <2> QED BY <2>1, <2>2, <2>3, KeepEnds
<1>10. ASSUME NEW r \in HandRules, AddByHand(r) PROVE KeepInv'
  <2> DEFINE rule == Rule(nextRule, r.tool, r.needs, r.action)
             list == Append(ruleFile, rule)
             x == nextRule
  <2>1. EditByHand(list) /\ wanted' = wanted \cup {nextRule} /\ nextRule' = nextRule + 1
      BY <1>10 DEF AddByHand
  <2>2. RuleIds(list) = RuleIds(ruleFile) \cup {x}
    <3>1. rule \in RuleSet
        BY NewRule, ListFacts
    <3>2. rule.id = nextRule
        BY DEF Rule
    <3>3. ruleFile \in RuleLists /\ Numbered(ruleFile, nextRule) /\ nextRule \in Nat \ {0}
        BY ListFacts DEF ListTypes, NumberInv
    <3> HIDE DEF rule
    <3> QED BY <3>1, <3>2, <3>3, AppendRule
  <2>3. x \notin MadeIds /\ x \notin RuleIds(ruleFile) /\ MadeIds' = MadeIds \cup {x}
    <3>1. x \notin MadeIds /\ x \notin RuleIds(ruleFile)
        BY ListFacts
    <3>2. MadeIds' = MadeIds \cup {x}
        BY <2>1, ListFacts DEF MadeIds
    <3> QED BY <3>1, <3>2
  <2> HIDE DEF list
  <2>4. Differ(ruleFile, list) = {x}
      BY <2>2, <2>3 DEF Differ
  <2>5. PICK y : y = x
      OBVIOUS
  <2>6. /\ Differ(ruleFile, list) = {y} /\ y \in RuleIds(list) /\ y \in wanted'
        /\ \A id \in MadeIds : id # y => (id \in wanted' <=> id \in wanted)
        /\ MadeIds \subseteq MadeIds' /\ MadeIds' \subseteq MadeIds \cup {y}
      BY <2>1, <2>2, <2>3, <2>4, <2>5
  <2> QED BY <2>1, <2>6, KeepEdit
<1>11. ASSUME NEW i \in DOMAIN ruleFile, RemoveByHand(i) PROVE KeepInv'
  <2> DEFINE list == Without(ruleFile, i)
  <2>1. EditByHand(list) /\ wanted' = wanted \ {ruleFile[i].id} /\ nextRule' = nextRule
      BY <1>11 DEF RemoveByHand
  <2>2. RuleIds(list) = RuleIds(ruleFile) \ {ruleFile[i].id}
    <3>1. ruleFile \in RuleLists /\ Numbered(ruleFile, nextRule) /\ nextRule \in Nat
        BY ListFacts DEF ListTypes, NumberInv
    <3> QED BY <3>1, WithoutRule
  <2>3. PICK y : y = ruleFile[i].id
      OBVIOUS
  <2>4. y \in RuleIds(ruleFile) /\ MadeIds' = MadeIds
      BY <2>1, <2>3 DEF RuleIds, MadeIds
  <2> HIDE DEF list
  <2>5. /\ Differ(ruleFile, list) = {y} /\ y \notin RuleIds(list) /\ y \notin wanted'
        /\ \A id \in MadeIds : id # y => (id \in wanted' <=> id \in wanted)
      BY <2>1, <2>2, <2>3, <2>4 DEF Differ
  <2> QED BY <2>1, <2>4, <2>5, KeepEdit
<1> QED BY <1>1, <1>4, <1>5, <1>6, <1>7, <1>8, <1>9, <1>10, <1>11,
           KeepStart, KeepAnswer, KeepReplace DEF AdmissionNext

-----------------------------------------------------------------------------
(* The theorems of ToolAdmission *)

LEMMA AdmInit == AdmissionInit => AdmInv
<1> SUFFICES ASSUME AdmissionInit PROVE AdmInv
    OBVIOUS
<1> USE DEF AdmissionInit
<1>1. /\ <<>> \in RuleLists /\ <<>> \in Seq(AllCalls) /\ RuleIds(<<>>) = {}
      /\ MadeIds = {}
  <2>1. 1..(nextRule - 1) = {}
      OBVIOUS
  <2> QED BY <2>1 DEF RuleLists, RuleIds, MadeIds
<1>2. Off \in Desks /\ Sorted(Off) /\ Off.at = "off" /\ Off.calls = <<>> /\ Off.results = <<>>
    BY <1>1, EmptyDesk DEF Off, Desk
<1>3. AdmShapeInv
    BY <1>1, <1>2, AdmUses DEF AdmShapeInv
<1>4. NumberInv
    BY <1>1 DEF NumberInv, Numbered
<1>5. DeskInv /\ GrantInv /\ ListInv
  <2>1. \A s \in Sessions : desk[s] = Off /\ granted[s] = {}
      OBVIOUS
  <2> QED BY <1>2, <2>1 DEF DeskInv, GrantInv, ListInv
<1>6. RulesKept
    BY <1>1, KeptRules
<1> QED BY <1>3, <1>4, <1>5, <1>6 DEF AdmInv

LEMMA AdmStutter == AdmInv /\ UNCHANGED admission => AdmInv'
<1> SUFFICES ASSUME AdmInv, UNCHANGED admission PROVE AdmInv'
    OBVIOUS
<1>1. UNCHANGED <<ruleFile, temporary, known, desk, batches, handEdits, ioErrors,
                  nextRule, wanted, granted, missed, excused>>
    BY DEF admission
<1>2. AdmShapeInv' /\ NumberInv' /\ DeskInv' /\ GrantInv'
    BY <1>1 DEF AdmInv, AdmShapeInv, NumberInv, DeskInv, GrantInv, MadeIds
<1>3. KeepInv'
    BY <1>1, KeepSame DEF AdmInv, KeepInv, Saving
<1> QED BY <1>2, <1>3 DEF AdmInv, KeepInv

LEMMA AdmStep == AdmInv /\ [AdmissionNext]_admission => AdmInv'
<1>1. ASSUME AdmInv, AdmissionNext PROVE AdmInv'
  <2>1. AdmShapeInv /\ NumberInv /\ DeskInv /\ GrantInv /\ KeepInv
      BY <1>1 DEF AdmInv, KeepInv
  <2>2. desk' \in [Sessions -> Desks] /\ DeskInv'
      BY <1>1, <2>1, DeskStep
  <2>3. ListTypes' /\ NumberInv'
      BY <1>1, <2>1, ListStep
  <2>4. AdmShapeInv'
      BY <1>1, <2>1, <2>2, <2>3, AdmBounds DEF AdmShapeInv, ListTypes
  <2>5. GrantInv' /\ KeepInv'
      BY <1>1, <2>1, GrantStep, KeepStep
  <2> QED BY <2>2, <2>3, <2>4, <2>5 DEF AdmInv, KeepInv
<1> QED BY <1>1, AdmStutter

\* The invariant of the approval gateway and its rule file (policy.py,
\* permissions.py): lists of distinct numbered rules, batches whose places fit,
\* grants that stay in force, and lists that differ from the file only by what
\* is accounted for.
THEOREM AdmInvariant == AdmissionSpec => []AdmInv
<1>1. AdmInv /\ [AdmissionNext]_admission => AdmInv'
    BY AdmStep
<1> QED BY <1>1, AdmInit, PTL DEF AdmissionSpec

\* Every variable of the gateway has its type, whatever the batches, the
\* users' answers and the failing saves (HitlToolRegistry, PermissionStore).
THEOREM AdmTypes == AdmissionSpec => []AdmissionTypeOK
<1>1. ASSUME AdmInv PROVE AdmissionTypeOK
  <2>1. /\ AdmShapeInv /\ NumberInv /\ DeskInv
      BY <1>1 DEF AdmInv
  <2>2. MadeIds \subseteq 1..nextRule
      BY <2>1 DEF AdmShapeInv, MadeIds
  <2>3. ASSUME NEW s \in Sessions
        PROVE  /\ desk[s].at \in {"off", "idle", "authorizing", "asking", "saving", "replacing"}
               /\ Len(desk[s].verdicts) <= Len(desk[s].calls)
               /\ \A i \in DOMAIN desk[s].verdicts :
                     desk[s].verdicts[i] \in {"admitted", "refused"}
               /\ RuleIds(known[s]) \cup missed[s] \subseteq 1..nextRule
    <3>1. desk[s] \in Desks /\ Sorted(desk[s]) /\ desk[s].verdicts \in Verdicts
        BY <2>1, DeskFields DEF DeskInv
    <3>2. desk[s].at \in {"off", "idle", "authorizing", "asking", "saving", "replacing"}
        BY <3>1 DEF Desks
    <3>3. RuleIds(known[s]) \cup missed[s] \subseteq MadeIds
        BY <2>1, ListFacts, DeskFields
    <3>4. \A i \in DOMAIN desk[s].verdicts : desk[s].verdicts[i] \in {"admitted", "refused"}
        BY <3>1 DEF Verdicts
    <3>5. Len(desk[s].verdicts) <= Len(desk[s].calls)
        BY <3>1 DEF Sorted
    <3> QED BY <2>2, <3>2, <3>3, <3>4, <3>5
  <2>4. RuleIds(ruleFile) \cup wanted \cup excused \subseteq MadeIds
      BY <2>1, ListFacts DEF ListTypes
  <2>5. /\ batches \in 0..MaxBatches /\ handEdits \in 0..MaxHandEdits
        /\ ioErrors \in 0..MaxIoErrors
      BY <2>1 DEF AdmShapeInv
  <2> QED BY <2>2, <2>3, <2>4, <2>5 DEF AdmissionTypeOK
<1> QED BY <1>1, AdmInvariant, PTL

\* RulesKept: no save, crash or edit loses a rule the user wants, or brings one
\* back, that the code's known weakness (a save of an older list,
\* permissions.py) does not account for.
THEOREM AdmRulesKept == AdmissionSpec => []RulesKept
<1>1. AdmInv => RulesKept
    BY DEF AdmInv
<1> QED BY <1>1, AdmInvariant, PTL

\* AdmissionAsAnswered: a call the user answered "always" is admitted without
\* another question, and each result of a batch stands at the place of its call
\* (HitlToolRegistry._authorize and execute_many_results).
THEOREM AdmAsAnswered == AdmissionSpec => []AdmissionAsAnswered
<1>1. ASSUME AdmInv PROVE AdmissionAsAnswered
  <2> SUFFICES ASSUME NEW s \in Sessions
               PROVE  /\ \A c \in granted[s] \ (Invalid \cup Blocked) :
                           Verdict(known[s], c) = "admitted"
                      /\ \A i \in DOMAIN desk[s].results :
                           desk[s].results[i] = <<desk[s].verdicts[i], desk[s].calls[i]>>
      BY DEF AdmissionAsAnswered
  <2>1. known[s] \in RuleLists /\ Sorted(desk[s]) /\ \A c \in granted[s] : Allows(known[s], c)
      BY <1>1 DEF AdmInv, AdmShapeInv, DeskInv, GrantInv
  <2>2. \A c \in granted[s] \ (Invalid \cup Blocked) : Verdict(known[s], c) = "admitted"
      BY <2>1, Admits
  <2>3. \A i \in DOMAIN desk[s].results :
            desk[s].results[i] = <<desk[s].verdicts[i], desk[s].calls[i]>>
      BY <2>1 DEF Sorted
  <2> QED BY <2>2, <2>3
<1> QED BY <1>1, AdmInvariant, PTL

-----------------------------------------------------------------------------
(* CodeIndex, for any programs, files, contents, changes, failing builds   *)
(* and searches                                                            *)

Builds == [at : {"off", "idle", "known", "reading"}, first : BOOLEAN, listed : SUBSET Files,
           had : {<<>>} \cup [Files -> Held], read : UNION {[D -> Held] : D \in SUBSET Files}]
EffectKinds == {"changed", "silent"}
Searches == [at : {"none", "text", "done"}, rows : {<<>>} \cup [Files -> Held],
             answer : SUBSET (Files \X Contents), current : SUBSET (Files \X Contents)]

IdxShapeInv ==
    /\ disk \in [Files -> Held] /\ indexed \in [Files -> Held]
    /\ build \in [Programs -> Builds]
    /\ effects \in [Programs -> Seq(EffectKinds)] /\ \A p \in Programs : Len(effects[p]) <= 2
    /\ found \in [Programs -> Searches]
    /\ changes \in 0..MaxChanges /\ buildErrors \in 0..MaxBuildErrors
    /\ searches \in 0..MaxSearches
    /\ meanwhile \in [Programs -> SUBSET Files] /\ lagging \in SUBSET Files

\* A build goes by a file that nobody changed meanwhile as it is now.
Fresh(b, stale, held, table) ==
    /\ DOMAIN b.read \subseteq b.listed
    /\ b.at \in {"known", "reading"} => \A f \in Files \ stale :
        /\ f \in b.listed <=> held[f] # "absent"
        /\ b.at = "known" => b.read = <<>>
        /\ f \in DOMAIN b.read => b.read[f] = held[f]
        /\ b.at = "reading" => b.had \in [Files -> Held] /\ b.had[f] = table[f]

BuildInv == \A p \in Programs : Fresh(build[p], meanwhile[p], disk, indexed)

\* Every difference that no build will mend is accounted for.
LagInv == (\A p \in Programs : ~AtWork(p)) => Behind(disk, indexed) \subseteq lagging

\* The chunk rows a search has read may be answered.
SearchInv ==
    \A p \in Programs :
        /\ found[p].at = "text" => found[p].rows \in [Files -> Held]
                                    /\ Pairs(found[p].rows) \subseteq found[p].current
        /\ found[p].answer \subseteq found[p].current

IdxInv == IdxShapeInv /\ BuildInv /\ LagInv /\ SearchInv

LEMMA IdxRecords ==
    /\ NoBuild \in Builds /\ NoProgram \in Builds /\ NoSearch \in Searches
    /\ NoBuild.at = "idle" /\ NoProgram.at = "off" /\ NoSearch.at = "none"
    /\ NoBuild.read = <<>> /\ NoProgram.read = <<>> /\ NoSearch.answer = {}
    /\ NoBuild.listed = {} /\ NoProgram.listed = {} /\ NoSearch.current = {}
<1>1. <<>> \in UNION {[D -> Held] : D \in SUBSET Files}
  <2>1. {} \in SUBSET Files /\ <<>> \in [{} -> Held]
      OBVIOUS
  <2> QED BY <2>1
<1>2. FALSE \in BOOLEAN
    OBVIOUS
<1>3. NoBuild \in Builds /\ NoBuild.at = "idle" /\ NoBuild.read = <<>> /\ NoBuild.listed = {}
  <2>1. NoBuild = [at |-> "idle", first |-> FALSE, listed |-> {}, had |-> <<>>, read |-> <<>>]
      BY DEF NoBuild
  <2>2. NoBuild \in Builds
      BY <1>1, <1>2, <2>1, Zenon DEF Builds
  <2> QED BY <2>1, <2>2
<1>4. NoProgram \in Builds /\ NoProgram.at = "off" /\ NoProgram.read = <<>> /\ NoProgram.listed = {}
    BY <1>3 DEF NoProgram, Builds
<1>5. NoSearch \in Searches
    BY DEF NoSearch, Searches
<1> QED BY <1>3, <1>4, <1>5 DEF NoSearch

LEMMA IdxConstants ==
    /\ MaxChanges \in Nat /\ MaxBuildErrors \in Nat /\ MaxSearches \in Nat
    /\ Contents # {} /\ "absent" \notin Contents
    /\ Held = Contents \cup {"absent"}
BY IndexAssumption DEF Held

LEMMA IdxInit == IndexInit => IdxInv
<1> SUFFICES ASSUME IndexInit PROVE IdxInv
    OBVIOUS
<1>1. disk \in [Files -> Held] /\ indexed \in [Files -> Held]
  <2>1. (CHOOSE c \in Contents : TRUE) \in Contents
      BY IdxConstants
  <2> QED BY <2>1, IdxConstants DEF IndexInit
<1>2. build \in [Programs -> Builds] /\ found \in [Programs -> Searches]
      /\ \A p \in Programs : build[p] = NoProgram /\ found[p] = NoSearch
    BY IdxRecords DEF IndexInit
<1>3. /\ effects \in [Programs -> Seq(EffectKinds)] /\ \A p \in Programs : Len(effects[p]) <= 2
      /\ changes \in 0..MaxChanges /\ buildErrors \in 0..MaxBuildErrors
      /\ searches \in 0..MaxSearches
      /\ meanwhile \in [Programs -> SUBSET Files] /\ lagging \in SUBSET Files
    BY IdxConstants DEF IndexInit, Present
<1>4. BuildInv
  <2> SUFFICES ASSUME NEW p \in Programs PROVE Fresh(build[p], meanwhile[p], disk, indexed)
      BY DEF BuildInv
  <2> QED BY <1>2, IdxRecords DEF Fresh
<1>5. LagInv
  <2>1. Behind(disk, indexed) \subseteq lagging
      BY DEF IndexInit, Behind, Present
  <2> QED BY <2>1 DEF LagInv
<1>6. SearchInv
  <2> SUFFICES ASSUME NEW p \in Programs
               PROVE  found[p].at # "text" /\ found[p].answer \subseteq found[p].current
      BY DEF SearchInv
  <2> QED BY <1>2, IdxRecords
<1> QED BY <1>1, <1>2, <1>3, <1>4, <1>5, <1>6 DEF IdxInv, IdxShapeInv

\* What the shape says of one program
LEMMA IdxShape ==
    ASSUME IdxInv, NEW p \in Programs
    PROVE  /\ disk \in [Files -> Held] /\ indexed \in [Files -> Held]
           /\ build \in [Programs -> Builds] /\ build[p] \in Builds
           /\ build[p].at \in {"off", "idle", "known", "reading"}
           /\ build[p].listed \in SUBSET Files
           /\ effects \in [Programs -> Seq(EffectKinds)] /\ effects[p] \in Seq(EffectKinds)
           /\ Len(effects[p]) <= 2
           /\ found \in [Programs -> Searches] /\ found[p] \in Searches
           /\ meanwhile \in [Programs -> SUBSET Files] /\ meanwhile[p] \in SUBSET Files
           /\ lagging \in SUBSET Files
           /\ Fresh(build[p], meanwhile[p], disk, indexed)
<1>1. build[p] \in Builds
    BY DEF IdxInv, IdxShapeInv
<1>2. build[p].at \in {"off", "idle", "known", "reading"} /\ build[p].listed \in SUBSET Files
    BY <1>1 DEF Builds
<1> QED BY <1>1, <1>2 DEF IdxInv, IdxShapeInv, BuildInv

\* Another program's build takes note of what changes, on disk or in the index.
LEMMA FreshKept ==
    ASSUME NEW b \in Builds, NEW stale, NEW held, NEW table, NEW changed,
           NEW held2, NEW table2, Fresh(b, stale, held, table),
           \A f \in Files : f \notin changed => held2[f] = held[f] /\ table2[f] = table[f]
    PROVE  /\ Fresh(b, stale \cup changed, held2, table2)
           /\ b.at \in {"idle", "off"} => Fresh(b, {}, held2, table2)
<1>1. ASSUME NEW f \in Files, f \notin stale \cup changed
      PROVE  f \notin stale /\ held2[f] = held[f] /\ table2[f] = table[f]
    BY <1>1
<1> QED BY <1>1 DEF Fresh

\* A build that starts has everything before it.
LEMMA ListFilesFresh ==
    ASSUME IdxInv, NEW p \in Programs, NEW from \in {"off", "idle"}, ListFiles(p, from),
           UNCHANGED <<disk, indexed>>
    PROVE  /\ build' \in [Programs -> Builds] /\ meanwhile' \in [Programs -> SUBSET Files]
           /\ BuildInv' /\ build'[p].at = "known"
           /\ \A q \in Programs : q # p => build'[q] = build[q]
<1> DEFINE b == [NoBuild EXCEPT !.at = "known", !.first = (from = "off"), !.listed = Present(disk)]
<1>1. build' = [build EXCEPT ![p] = b] /\ meanwhile' = [meanwhile EXCEPT ![p] = {}]
    BY DEF ListFiles
<1>2. b \in Builds /\ b.at = "known" /\ b.listed = Present(disk) /\ b.read = <<>>
  <2> DEFINE first == (from = "off")
  <2>1. Present(disk) \in SUBSET Files
      BY DEF Present
  <2>2. first \in BOOLEAN
      OBVIOUS
  <2> HIDE DEF first
  <2>3. LET c == [NoBuild EXCEPT !.at = "known", !.first = first, !.listed = Present(disk)]
        IN  c \in Builds /\ c.at = "known" /\ c.listed = Present(disk) /\ c.read = <<>>
      BY <2>1, <2>2, IdxRecords DEF Builds
  <2> QED BY <2>3 DEF first
<1> HIDE DEF b
<1>3. Fresh(b, {}, disk, indexed)
  <2>1. \A f \in Files : f \in b.listed <=> disk[f] # "absent"
      BY <1>2 DEF Present
  <2>2. DOMAIN b.read = {}
      BY <1>2
  <2> QED BY <1>2, <2>1, <2>2 DEF Fresh
<1>4. /\ build' \in [Programs -> Builds] /\ meanwhile' \in [Programs -> SUBSET Files]
      /\ build'[p] = b /\ meanwhile'[p] = {}
      /\ \A q \in Programs : q # p => build'[q] = build[q] /\ meanwhile'[q] = meanwhile[q]
    BY <1>1, <1>2, IdxShape
<1>5. BuildInv'
  <2> SUFFICES ASSUME NEW q \in Programs
               PROVE  Fresh(build'[q], meanwhile'[q], disk', indexed')
      BY DEF BuildInv
  <2>1. CASE q = p
      BY <1>3, <1>4, <2>1
  <2>2. CASE q # p
      BY <1>4, <2>2 DEF IdxInv, BuildInv
  <2> QED BY <2>1, <2>2
<1> QED BY <1>2, <1>4, <1>5

\* A commit leaves nothing behind but what changed while its build was under way.
LEMMA RebuiltFiles ==
    ASSUME IdxInv, NEW p \in Programs, build[p].at = "reading", Unread(p) = {}
    PROVE  /\ Rebuilt(build[p]) \in [Files -> Held]
           /\ Behind(disk, Rebuilt(build[p])) \subseteq meanwhile[p]
<1> DEFINE b == build[p]
           table == Rebuilt(b)
<1>1. /\ b \in Builds /\ Fresh(b, meanwhile[p], disk, indexed)
      /\ disk \in [Files -> Held] /\ indexed \in [Files -> Held]
    BY IdxShape
<1>2. PICK D \in SUBSET Files : b.read \in [D -> Held]
    BY <1>1 DEF Builds
<1>3. DOMAIN b.read = D /\ b.listed \subseteq D /\ b.at = "reading"
    BY <1>2 DEF Unread
<1>4. \A f \in b.listed : b.read[f] \in Held
    BY <1>2, <1>3
<1>5. table = [f \in Files |->
                IF f \in b.listed
                THEN IF b.read[f] # b.had[f] THEN b.read[f] ELSE indexed[f]
                ELSE IF b.had[f] # "absent" THEN "absent" ELSE indexed[f]]
    BY DEF Rebuilt
<1> HIDE DEF b, table
<1>6. table \in [Files -> Held]
    BY <1>1, <1>4, <1>5, IdxConstants
<1>7. ASSUME NEW f \in Files, f \notin meanwhile[p] PROVE table[f] = disk[f]
  <2>1. /\ f \in b.listed <=> disk[f] # "absent"
        /\ f \in b.listed => b.read[f] = disk[f]
        /\ b.had[f] = indexed[f]
      BY <1>1, <1>3, <1>7 DEF Fresh
  <2> QED BY <1>5, <2>1
<1>8. Behind(disk, table) \subseteq meanwhile[p]
    BY <1>7 DEF Behind
<1> QED BY <1>6, <1>8 DEF b, table

LEMMA CommitStep ==
    ASSUME IdxInv, NEW p \in Programs, CommitBuild(p)
    PROVE  IdxInv'
<1> DEFINE table == Rebuilt(build[p])
           outdated == Behind(indexed, table)
<1> USE DEF indexBounds
<1>1. /\ build[p].at = "reading" /\ Unread(p) = {}
      /\ indexed' = table /\ build' = [build EXCEPT ![p] = NoBuild]
      /\ meanwhile' = [q \in Programs |->
                IF q = p \/ build[q].at \in {"idle", "off"} THEN {}
                ELSE meanwhile[q] \cup outdated]
      /\ lagging' = (lagging \cup meanwhile[p]) \cap Behind(disk, table)
      /\ UNCHANGED <<disk, effects, found, changes, buildErrors, searches>>
    BY DEF CommitBuild
<1>2. table \in [Files -> Held] /\ Behind(disk, table) \subseteq meanwhile[p]
    BY <1>1, RebuiltFiles
<1> HIDE DEF table
<1>3. \A f \in Files : f \notin outdated => table[f] = indexed[f]
    BY DEF Behind
<1>4. outdated \in SUBSET Files
    BY DEF Behind
<1> HIDE DEF outdated
<1>5. /\ build' \in [Programs -> Builds] /\ build'[p] = NoBuild
      /\ \A q \in Programs : q # p => build'[q] = build[q]
    BY <1>1, IdxRecords, IdxShape
<1>6. meanwhile' \in [Programs -> SUBSET Files]
  <2>1. \A q \in Programs : meanwhile[q] \cup outdated \in SUBSET Files
      BY <1>4, IdxShape
  <2> QED BY <1>1, <2>1
<1>7. BuildInv'
  <2> SUFFICES ASSUME NEW q \in Programs
               PROVE  Fresh(build'[q], meanwhile'[q], disk', indexed')
      BY DEF BuildInv
  <2>1. CASE q = p
      BY <1>5, <2>1, IdxRecords DEF Fresh
  <2>2. CASE q # p
    <3>1. build[q] \in Builds /\ Fresh(build[q], meanwhile[q], disk, indexed)
        BY IdxShape
    <3>2. /\ Fresh(build[q], meanwhile[q] \cup outdated, disk, table)
          /\ build[q].at \in {"idle", "off"} => Fresh(build[q], {}, disk, table)
        BY <1>3, <3>1, FreshKept
    <3>3. meanwhile'[q] = IF build[q].at \in {"idle", "off"} THEN {} ELSE meanwhile[q] \cup outdated
        BY <1>1, <2>2
    <3> QED BY <1>1, <1>5, <2>2, <3>2, <3>3
  <2> QED BY <2>1, <2>2
<1>8. LagInv' /\ lagging' \in SUBSET Files
  <2>1. lagging' = Behind(disk, table)
      BY <1>1, <1>2
  <2>2. lagging' = Behind(disk', indexed')
      BY <1>1, <2>1
  <2> QED BY <2>2 DEF LagInv, Behind
<1>9. SearchInv'
    BY <1>1 DEF IdxInv, SearchInv
<1>10. IdxShapeInv'
    BY <1>1, <1>2, <1>5, <1>6, <1>8 DEF IdxInv, IdxShapeInv
<1> QED BY <1>7, <1>8, <1>9, <1>10 DEF IdxInv

\* A build that goes on mends what it has to.
LEMMA BuildGoesOn ==
    ASSUME IdxInv, NEW p \in Programs,
           UNCHANGED <<disk, indexed, changes, buildErrors, searches, lagging>>,
           effects' \in [Programs -> Seq(EffectKinds)], \A q \in Programs : Len(effects'[q]) <= 2,
           found' \in [Programs -> Searches], SearchInv',
           build' \in [Programs -> Builds], meanwhile' \in [Programs -> SUBSET Files],
           BuildInv', build'[p].at \in {"known", "reading"}
    PROVE  IdxInv'
<1>1. AtWork(p)'
    BY DEF AtWork
<1>2. LagInv'
    BY <1>1 DEF LagInv
<1> QED BY <1>2 DEF IdxInv, IdxShapeInv

LEMMA StartStep ==
    ASSUME IdxInv, NEW p \in Programs, StartProgram(p)
    PROVE  IdxInv'
<1>1. /\ ListFiles(p, "off")
      /\ UNCHANGED <<disk, indexed, effects, found, changes, buildErrors, searches, lagging>>
    BY DEF StartProgram, indexBounds
<1>2. /\ build' \in [Programs -> Builds] /\ meanwhile' \in [Programs -> SUBSET Files]
      /\ BuildInv' /\ build'[p].at = "known"
    BY <1>1, ListFilesFresh
<1>3. /\ effects' \in [Programs -> Seq(EffectKinds)] /\ \A q \in Programs : Len(effects'[q]) <= 2
      /\ found' \in [Programs -> Searches] /\ SearchInv'
    BY <1>1 DEF IdxInv, IdxShapeInv, SearchInv
<1> QED BY <1>1, <1>2, <1>3, BuildGoesOn

\* A step of a build that is under way
LEMMA BuildStep ==
    ASSUME IdxInv, NEW p \in Programs, ReadKnown(p) \/ ReadFile(p)
    PROVE  IdxInv'
<1>1. UNCHANGED <<disk, indexed, effects, found, changes, buildErrors, searches, meanwhile, lagging>>
    BY DEF ReadKnown, ReadFile, indexBounds
<1>2. /\ build \in [Programs -> Builds] /\ build[p] \in Builds
      /\ Fresh(build[p], meanwhile[p], disk, indexed)
      /\ disk \in [Files -> Held] /\ indexed \in [Files -> Held]
    BY IdxShape
<1>3. ASSUME NEW b \in Builds, build' = [build EXCEPT ![p] = b], b.at = "reading",
             Fresh(b, meanwhile[p], disk, indexed)
      PROVE  IdxInv'
  <2>1. /\ build' \in [Programs -> Builds] /\ build'[p] = b
        /\ \A q \in Programs : q # p => build'[q] = build[q]
      BY <1>2, <1>3
  <2>2. BuildInv'
    <3> SUFFICES ASSUME NEW q \in Programs
                 PROVE  Fresh(build'[q], meanwhile'[q], disk', indexed')
        BY DEF BuildInv
    <3>1. CASE q = p
        BY <1>1, <1>3, <2>1, <3>1
    <3>2. CASE q # p
        BY <1>1, <2>1, <3>2, IdxShape
    <3> QED BY <3>1, <3>2
  <2>3. /\ effects' \in [Programs -> Seq(EffectKinds)] /\ \A q \in Programs : Len(effects'[q]) <= 2
        /\ found' \in [Programs -> Searches] /\ SearchInv'
        /\ meanwhile' \in [Programs -> SUBSET Files]
      BY <1>1 DEF IdxInv, IdxShapeInv, SearchInv
  <2> QED BY <1>1, <1>3, <2>1, <2>2, <2>3, BuildGoesOn
<1>4. CASE ReadKnown(p)
  <2> DEFINE b == [build[p] EXCEPT !.at = "reading", !.had = indexed]
  <2>1. build[p].at = "known" /\ build' = [build EXCEPT ![p] = b]
      BY <1>2, <1>4 DEF ReadKnown
  <2>2. b \in Builds /\ b.at = "reading" /\ b.had = indexed
        /\ b.listed = build[p].listed /\ b.read = build[p].read
      BY <1>2 DEF Builds
  <2> HIDE DEF b
  <2>3. Fresh(b, meanwhile[p], disk, indexed)
      BY <1>2, <2>1, <2>2 DEF Fresh
  <2> QED BY <1>3, <2>1, <2>2, <2>3
<1>5. CASE ReadFile(p)
  <2> DEFINE f == NextFile(p)
             content == disk[f]
             more == [g \in DOMAIN build[p].read \cup {f} |->
                        IF g = f THEN disk[g] ELSE build[p].read[g]]
             b == [build[p] EXCEPT !.read = more]
  <2>1. build[p].at = "reading" /\ f \in Unread(p) /\ build' = [build EXCEPT ![p] = b]
      BY <1>2, <1>5 DEF ReadFile, NextFile
  <2>2. f \in build[p].listed /\ f \in Files /\ content \in Held
      BY <1>2, <2>1, IdxShape DEF Unread
  <2>3. PICK D \in SUBSET Files : build[p].read \in [D -> Held]
      BY <1>2 DEF Builds
  <2> HIDE DEF f
  <2>4. more = [x \in {f} \cup D |-> IF x = f THEN content ELSE build[p].read[x]]
      BY <2>3
  <2> HIDE DEF content
  <2> HIDE DEF more
  <2>5. more \in [D \cup {f} -> Held] /\ D \cup {f} \in SUBSET Files
      BY <2>2, <2>3, <2>4
  <2>6. more \in UNION {[E -> Held] : E \in SUBSET Files}
      BY <2>5
  <2>7. b \in Builds /\ b.at = "reading" /\ b.had = build[p].had
        /\ b.listed = build[p].listed /\ b.read = more
      BY <1>2, <2>1, <2>6 DEF Builds
  <2> HIDE DEF b
  <2>8. Fresh(b, meanwhile[p], disk, indexed)
    <3>1. DOMAIN more \subseteq build[p].listed
        BY <1>2, <2>2, <2>3, <2>5 DEF Fresh
    <3>2. ASSUME NEW g \in Files \ meanwhile[p], g \in DOMAIN more PROVE more[g] = disk[g]
      <4>1. CASE g = f
          BY <2>4, <4>1 DEF content
      <4>2. CASE g # f
        <5>1. g \in D /\ more[g] = build[p].read[g]
            BY <2>4, <2>5, <3>2, <4>2
        <5>2. build[p].read[g] = disk[g]
            BY <1>2, <2>1, <2>3, <5>1 DEF Fresh
        <5> QED BY <5>1, <5>2
      <4> QED BY <4>1, <4>2
    <3> QED BY <1>2, <2>1, <2>7, <3>1, <3>2 DEF Fresh
  <2> QED BY <1>3, <2>1, <2>7, <2>8
<1> QED BY <1>4, <1>5

\* A build that ends without a commit leaves behind what differs.
LEMMA LeaveStep ==
    ASSUME IdxInv, NEW p \in Programs, NEW b \in {NoBuild, NoProgram},
           build' = [build EXCEPT ![p] = b], meanwhile' = [meanwhile EXCEPT ![p] = {}],
           disk' = disk, indexed' = indexed
    PROVE  /\ build' \in [Programs -> Builds] /\ meanwhile' \in [Programs -> SUBSET Files]
           /\ BuildInv' /\ build'[p] = b
           /\ \A q \in Programs : q # p => build'[q] = build[q]
<1>1. /\ build' \in [Programs -> Builds] /\ build'[p] = b
      /\ meanwhile' \in [Programs -> SUBSET Files] /\ meanwhile'[p] = {}
      /\ \A q \in Programs : q # p => build'[q] = build[q] /\ meanwhile'[q] = meanwhile[q]
    BY IdxShape, IdxRecords
<1>2. Fresh(b, {}, disk, indexed)
    BY IdxRecords DEF Fresh
<1>3. BuildInv'
  <2> SUFFICES ASSUME NEW q \in Programs
               PROVE  Fresh(build'[q], meanwhile'[q], disk', indexed')
      BY DEF BuildInv
  <2>1. CASE q = p
      BY <1>1, <1>2, <2>1
  <2>2. CASE q # p
      BY <1>1, <2>2, IdxShape
  <2> QED BY <2>1, <2>2
<1> QED BY <1>1, <1>3

LEMMA FailStep ==
    ASSUME IdxInv, NEW p \in Programs, FailBuild(p)
    PROVE  IdxInv'
<1> DEFINE b == IF build[p].first THEN NoProgram ELSE NoBuild
<1>1. /\ build' = [build EXCEPT ![p] = b] /\ meanwhile' = [meanwhile EXCEPT ![p] = {}]
      /\ lagging' = lagging \cup Behind(disk, indexed)
      /\ UNCHANGED <<disk, indexed, effects, found, changes, searches>>
    BY DEF FailBuild
<1>2. buildErrors' \in 0..MaxBuildErrors
    BY IdxConstants DEF FailBuild, IdxInv, IdxShapeInv
<1>3. b \in {NoBuild, NoProgram}
    OBVIOUS
<1> HIDE DEF b
<1>4. /\ build' \in [Programs -> Builds] /\ meanwhile' \in [Programs -> SUBSET Files]
      /\ BuildInv'
    BY <1>1, <1>3, LeaveStep
<1>5. LagInv' /\ lagging' \in SUBSET Files
    BY <1>1, IdxShape DEF LagInv, Behind
<1>6. SearchInv'
    BY <1>1 DEF IdxInv, SearchInv
<1> QED BY <1>1, <1>2, <1>4, <1>5, <1>6 DEF IdxInv, IdxShapeInv

LEMMA StopStep ==
    ASSUME IdxInv, NEW p \in Programs, StopProgram(p)
    PROVE  IdxInv'
<1>1. /\ build' = [build EXCEPT ![p] = NoProgram] /\ meanwhile' = [meanwhile EXCEPT ![p] = {}]
      /\ effects' = [effects EXCEPT ![p] = <<>>] /\ found' = [found EXCEPT ![p] = NoSearch]
      /\ lagging' = lagging \cup
            (IF build[p].at # "idle" \/ effects[p] # <<>> THEN Behind(disk, indexed) ELSE {})
      /\ UNCHANGED <<disk, indexed, changes, buildErrors, searches>>
    BY DEF StopProgram, indexBounds
<1>2. /\ build' \in [Programs -> Builds] /\ meanwhile' \in [Programs -> SUBSET Files]
      /\ BuildInv' /\ \A q \in Programs : q # p => build'[q] = build[q]
    BY <1>1, LeaveStep
<1>3. /\ effects' \in [Programs -> Seq(EffectKinds)] /\ found' \in [Programs -> Searches]
      /\ \A q \in Programs : Len(effects'[q]) <= 2
      /\ \A q \in Programs : q # p => effects'[q] = effects[q] /\ found'[q] = found[q]
      /\ found'[p] = NoSearch
    BY <1>1, IdxShape, IdxRecords
<1>4. lagging' \in SUBSET Files
    BY <1>1, IdxShape DEF Behind
<1>5. LagInv'
  <2> SUFFICES ASSUME \A q \in Programs : ~AtWork(q)' PROVE Behind(disk, indexed) \subseteq lagging'
      BY <1>1 DEF LagInv, Behind
  <2>1. CASE build[p].at # "idle" \/ effects[p] # <<>>
      BY <1>1, <2>1
  <2>2. CASE build[p].at = "idle" /\ effects[p] = <<>>
    <3>1. ~AtWork(p)
        BY <2>2 DEF AtWork
    <3>2. ASSUME NEW q \in Programs PROVE ~AtWork(q)
        BY <1>2, <1>3, <3>1 DEF AtWork
    <3> QED BY <1>1, <3>2 DEF IdxInv, LagInv
  <2> QED BY <2>1, <2>2
<1>6. SearchInv'
  <2> SUFFICES ASSUME NEW q \in Programs
               PROVE  /\ found'[q].at = "text" => found'[q].rows \in [Files -> Held]
                                    /\ Pairs(found'[q].rows) \subseteq found'[q].current
                      /\ found'[q].answer \subseteq found'[q].current
      BY DEF SearchInv, Pairs, Present
  <2>1. CASE q = p
      BY <1>3, <2>1, IdxRecords
  <2>2. CASE q # p
      BY <1>3, <2>2 DEF IdxInv, SearchInv
  <2> QED BY <2>1, <2>2
<1> QED BY <1>1, <1>2, <1>3, <1>4, <1>5, <1>6 DEF IdxInv, IdxShapeInv

\* A change of a file
LEMMA ChangeStep ==
    ASSUME IdxInv, NEW f \in Files, NEW content \in Held, ChangeFile(f, content),
           UNCHANGED <<indexed, build>>
    PROVE  /\ disk' \in [Files -> Held] /\ changes' \in 0..MaxChanges
           /\ \A g \in Files : g # f => disk'[g] = disk[g]
           /\ meanwhile' \in [Programs -> SUBSET Files] /\ BuildInv'
<1>1. /\ disk' = [disk EXCEPT ![f] = content]
      /\ meanwhile' = [p \in Programs |->
            IF build[p].at \in {"idle", "off"} THEN {} ELSE meanwhile[p] \cup {f}]
    BY DEF ChangeFile, Note
<1>2. changes' \in 0..MaxChanges
    BY IdxConstants DEF ChangeFile, IdxInv, IdxShapeInv
<1>3. /\ disk' \in [Files -> Held] /\ \A g \in Files : g # f => disk'[g] = disk[g]
    BY <1>1 DEF IdxInv, IdxShapeInv
<1>4. meanwhile' \in [Programs -> SUBSET Files]
    BY <1>1 DEF IdxInv, IdxShapeInv
<1>5. BuildInv'
  <2> SUFFICES ASSUME NEW q \in Programs
               PROVE  Fresh(build'[q], meanwhile'[q], disk', indexed')
      BY DEF BuildInv
  <2>1. build[q] \in Builds /\ Fresh(build[q], meanwhile[q], disk, indexed)
      BY IdxShape
  <2>2. \A g \in Files : g \notin {f} => disk'[g] = disk[g] /\ indexed'[g] = indexed[g]
      BY <1>3
  <2>3. /\ Fresh(build[q], meanwhile[q] \cup {f}, disk', indexed')
        /\ build[q].at \in {"idle", "off"} => Fresh(build[q], {}, disk', indexed')
      BY <2>1, <2>2, FreshKept
  <2> QED BY <1>1, <2>3
<1> QED BY <1>2, <1>3, <1>4, <1>5

LEMMA RunToolStep ==
    ASSUME IdxInv, NEW p \in Programs, NEW f \in Files, NEW content \in Held,
           NEW says \in EffectKinds, RunTool(p, f, content, says)
    PROVE  IdxInv'
<1>1. /\ ChangeFile(f, content) /\ Len(effects[p]) < 2
      /\ effects' = [effects EXCEPT ![p] = Append(effects[p], says)]
      /\ lagging' = IF says = "changed" THEN lagging \ {f} ELSE lagging \cup {f}
      /\ UNCHANGED <<indexed, build, found, buildErrors, searches>>
    BY DEF RunTool
<1>2. /\ disk' \in [Files -> Held] /\ changes' \in 0..MaxChanges
      /\ \A g \in Files : g # f => disk'[g] = disk[g]
      /\ meanwhile' \in [Programs -> SUBSET Files] /\ BuildInv'
    BY <1>1, ChangeStep
<1>3. /\ Append(effects[p], says) \in Seq(EffectKinds)
      /\ Len(Append(effects[p], says)) = Len(effects[p]) + 1
      /\ Append(effects[p], says)[Len(effects[p]) + 1] = says
      /\ DOMAIN Append(effects[p], says) = 1..(Len(effects[p]) + 1)
      /\ DOMAIN effects[p] = 1..Len(effects[p]) /\ Len(effects[p]) \in Nat
      /\ \A i \in DOMAIN effects[p] : Append(effects[p], says)[i] = effects[p][i]
    BY IdxShape
<1>4. /\ effects' \in [Programs -> Seq(EffectKinds)] /\ effects'[p] = Append(effects[p], says)
      /\ \A q \in Programs : q # p => effects'[q] = effects[q]
    BY <1>1, <1>3, IdxShape
<1>5. \A q \in Programs : Len(effects'[q]) <= 2
    BY <1>1, <1>3, <1>4, IdxShape
<1>6. lagging' \in SUBSET Files
    BY <1>1, IdxShape
<1>7. LagInv'
  <2>1. CASE says = "changed"
    <3>1. AtWork(p)'
        BY <1>3, <1>4, <2>1 DEF AtWork
    <3> QED BY <3>1 DEF LagInv
  <2>2. CASE says = "silent"
    <3> SUFFICES ASSUME \A q \in Programs : ~AtWork(q)'
                 PROVE  Behind(disk', indexed') \subseteq lagging'
        BY DEF LagInv, Behind
    <3>1. ASSUME NEW q \in Programs, AtWork(q) PROVE AtWork(q)'
        BY <1>1, <1>3, <1>4, <3>1 DEF AtWork
    <3>2. Behind(disk, indexed) \subseteq lagging
        BY <3>1 DEF IdxInv, LagInv
    <3>3. Behind(disk', indexed') \subseteq Behind(disk, indexed) \cup {f}
        BY <1>1, <1>2 DEF Behind
    <3>4. lagging' = lagging \cup {f}
        BY <1>1, <2>2
    <3> QED BY <3>2, <3>3, <3>4
  <2> QED BY <2>1, <2>2 DEF EffectKinds
<1>8. SearchInv'
    BY <1>1 DEF IdxInv, SearchInv
<1> QED BY <1>1, <1>2, <1>4, <1>5, <1>6, <1>7, <1>8 DEF IdxInv, IdxShapeInv

LEMMA OutsideStep ==
    ASSUME IdxInv, NEW f \in Files, NEW content \in Held, ChangeOutside(f, content)
    PROVE  IdxInv'
<1>1. /\ ChangeFile(f, content) /\ lagging' = lagging \cup {f}
      /\ UNCHANGED <<indexed, build, effects, found, buildErrors, searches>>
    BY DEF ChangeOutside, work
<1>2. /\ disk' \in [Files -> Held] /\ changes' \in 0..MaxChanges
      /\ \A g \in Files : g # f => disk'[g] = disk[g]
      /\ meanwhile' \in [Programs -> SUBSET Files] /\ BuildInv'
    BY <1>1, ChangeStep
<1>3. LagInv'
  <2> SUFFICES ASSUME \A q \in Programs : ~AtWork(q)'
               PROVE  Behind(disk', indexed') \subseteq lagging'
      BY DEF LagInv, Behind
  <2>1. \A q \in Programs : ~AtWork(q)
      BY <1>1 DEF AtWork
  <2>2. Behind(disk, indexed) \subseteq lagging
      BY <2>1 DEF IdxInv, LagInv
  <2>3. Behind(disk', indexed') \subseteq Behind(disk, indexed) \cup {f}
      BY <1>1, <1>2 DEF Behind
  <2> QED BY <1>1, <2>2, <2>3
<1>4. SearchInv' /\ lagging' \in SUBSET Files
    BY <1>1 DEF IdxInv, IdxShapeInv, SearchInv
<1> QED BY <1>1, <1>2, <1>3, <1>4 DEF IdxInv, IdxShapeInv

LEMMA RefreshStep ==
    ASSUME IdxInv, NEW p \in Programs, Refresh(p)
    PROVE  IdxInv'
<1>1. /\ effects' = [effects EXCEPT ![p] = <<>>] /\ found' = [found EXCEPT ![p] = NoSearch]
      /\ build[p].at = "idle"
      /\ UNCHANGED <<disk, indexed, changes, buildErrors, searches, lagging>>
    BY DEF Refresh, indexBounds
<1>2. /\ effects' \in [Programs -> Seq(EffectKinds)] /\ found' \in [Programs -> Searches]
      /\ \A q \in Programs : Len(effects'[q]) <= 2
      /\ \A q \in Programs : q # p => effects'[q] = effects[q] /\ found'[q] = found[q]
      /\ found'[p] = NoSearch
    BY <1>1, IdxShape, IdxRecords
<1>3. SearchInv'
  <2> SUFFICES ASSUME NEW q \in Programs
               PROVE  /\ found'[q].at = "text" => found'[q].rows \in [Files -> Held]
                                    /\ Pairs(found'[q].rows) \subseteq found'[q].current
                      /\ found'[q].answer \subseteq found'[q].current
      BY DEF SearchInv, Pairs, Present
  <2>1. CASE q = p
      BY <1>2, <2>1, IdxRecords
  <2>2. CASE q # p
      BY <1>2, <2>2 DEF IdxInv, SearchInv
  <2> QED BY <2>1, <2>2
<1>4. CASE Mutated(effects[p])
  <2>1. ListFiles(p, "idle")
      BY <1>4 DEF Refresh
  <2>2. /\ build' \in [Programs -> Builds] /\ meanwhile' \in [Programs -> SUBSET Files]
        /\ BuildInv' /\ build'[p].at = "known"
      BY <1>1, <2>1, ListFilesFresh
  <2> QED BY <1>1, <1>2, <1>3, <2>2, BuildGoesOn
<1>5. CASE ~Mutated(effects[p])
  <2>1. UNCHANGED <<build, meanwhile>>
      BY <1>5 DEF Refresh
  <2>2. ~AtWork(p)
      BY <1>1, <1>5 DEF AtWork, Mutated
  <2>3. LagInv'
    <3> SUFFICES ASSUME \A q \in Programs : ~AtWork(q)' PROVE Behind(disk, indexed) \subseteq lagging
        BY <1>1 DEF LagInv, Behind
    <3>1. ASSUME NEW q \in Programs PROVE ~AtWork(q)
        BY <1>2, <2>1, <2>2 DEF AtWork
    <3> QED BY <3>1 DEF IdxInv, LagInv
  <2>4. BuildInv'
      BY <1>1, <2>1 DEF IdxInv, BuildInv
  <2> QED BY <1>1, <1>2, <1>3, <2>1, <2>3, <2>4 DEF IdxInv, IdxShapeInv
<1> QED BY <1>4, <1>5

\* What the index holds is in the files, or its file is excused.
LEMMA SearchedRows ==
    ASSUME IdxInv
    PROVE  LET accounted == IF \E q \in Programs : AtWork(q) THEN Files ELSE lagging
           IN  /\ Pairs(indexed) \subseteq Pairs(disk) \cup (accounted \X Contents)
               /\ Pairs(disk) \cup (accounted \X Contents) \in SUBSET (Files \X Contents)
<1> DEFINE accounted == IF \E q \in Programs : AtWork(q) THEN Files ELSE lagging
<1>1. Behind(disk, indexed) \subseteq accounted /\ accounted \subseteq Files
    BY DEF IdxInv, IdxShapeInv, LagInv, Behind
<1> HIDE DEF accounted
<1>2. disk \in [Files -> Held] /\ indexed \in [Files -> Held]
    BY DEF IdxInv, IdxShapeInv
<1>3. ASSUME NEW f \in Present(indexed)
      PROVE  <<f, indexed[f]>> \in Pairs(disk) \cup (accounted \X Contents)
  <2>1. f \in Files /\ indexed[f] \in Contents
      BY <1>2, IdxConstants DEF Present
  <2>2. CASE f \in accounted
      BY <2>1, <2>2
  <2>3. CASE f \notin accounted
    <3>1. disk[f] = indexed[f]
        BY <1>1, <2>1, <2>3 DEF Behind
    <3>2. f \in Present(disk)
        BY <2>1, <3>1, IdxConstants DEF Present
    <3> QED BY <3>1, <3>2 DEF Pairs
  <2> QED BY <2>2, <2>3
<1>4. \A f \in Present(disk) : f \in Files /\ disk[f] \in Contents
    BY <1>2, IdxConstants DEF Present
<1>5. Pairs(disk) \subseteq Files \X Contents
    BY <1>4 DEF Pairs
<1>6. Pairs(indexed) \subseteq Pairs(disk) \cup (accounted \X Contents)
    BY <1>3 DEF Pairs
<1> QED BY <1>1, <1>5, <1>6 DEF accounted

LEMMA SearchStep ==
    ASSUME IdxInv, NEW p \in Programs, SearchChunks(p) \/ SearchText(p)
    PROVE  IdxInv'
<1>1. UNCHANGED <<disk, indexed, build, effects, changes, buildErrors, meanwhile, lagging>>
    BY DEF SearchChunks, SearchText, indexBounds
<1>2. searches' \in 0..MaxSearches
    BY IdxConstants DEF SearchChunks, SearchText, indexBounds, IdxInv, IdxShapeInv
<1>3. BuildInv' /\ LagInv'
    BY <1>1 DEF IdxInv, BuildInv, LagInv, AtWork, Behind
<1>4. ASSUME NEW r \in Searches, found' = [found EXCEPT ![p] = r],
             r.answer \subseteq r.current,
             r.at = "text" => r.rows \in [Files -> Held] /\ Pairs(r.rows) \subseteq r.current
      PROVE  IdxInv'
  <2>1. /\ found' \in [Programs -> Searches] /\ found'[p] = r
        /\ \A q \in Programs : q # p => found'[q] = found[q]
      BY <1>4, IdxShape
  <2>2. SearchInv'
    <3> SUFFICES ASSUME NEW q \in Programs
                 PROVE  /\ found'[q].at = "text" => found'[q].rows \in [Files -> Held]
                                      /\ Pairs(found'[q].rows) \subseteq found'[q].current
                        /\ found'[q].answer \subseteq found'[q].current
        BY DEF SearchInv, Pairs, Present
    <3>1. CASE q = p
        BY <1>4, <2>1, <3>1
    <3>2. CASE q # p
        BY <2>1, <3>2 DEF IdxInv, SearchInv
    <3> QED BY <3>1, <3>2
  <2> QED BY <1>1, <1>2, <1>3, <2>1, <2>2 DEF IdxInv, IdxShapeInv
<1>5. CASE SearchChunks(p)
  <2> DEFINE current == Pairs(disk) \cup
                ((IF \E q \in Programs : AtWork(q) THEN Files ELSE lagging) \X Contents)
             r == [at |-> "text", rows |-> indexed, answer |-> {}, current |-> current]
  <2>1. found' = [found EXCEPT ![p] = r]
      BY <1>5 DEF SearchChunks
  <2>2. Pairs(indexed) \subseteq current /\ current \in SUBSET (Files \X Contents)
      BY SearchedRows
  <2> HIDE DEF current
  <2>3. indexed \in [Files -> Held]
      BY IdxShape
  <2>4. r \in Searches
      BY <2>2, <2>3 DEF Searches
  <2> QED BY <1>4, <2>1, <2>2, <2>3, <2>4
<1>6. CASE SearchText(p)
  <2> DEFINE chunks == Pairs(found[p].rows)
  <2>1. found[p].at = "text" /\ chunks \subseteq found[p].current
        /\ found[p].current \in SUBSET (Files \X Contents)
      BY <1>6, IdxShape DEF SearchText, IdxInv, SearchInv, Searches
  <2>2. PICK answer \in {{}} \cup {{r} : r \in chunks \cup Fused(chunks, Pairs(indexed))} :
            found' = [found EXCEPT ![p] =
                        [at |-> "done", rows |-> <<>>, answer |-> answer,
                         current |-> found[p].current \cap answer]]
      BY <1>6 DEF SearchText
  <2>3. answer \subseteq found[p].current
      BY <2>1, <2>2 DEF Fused
  <2> DEFINE r == [at |-> "done", rows |-> <<>>, answer |-> answer,
                   current |-> found[p].current \cap answer]
  <2>4. r \in Searches /\ r.answer \subseteq r.current /\ r.at # "text"
      BY <2>1, <2>3 DEF Searches
  <2> QED BY <1>4, <2>2, <2>4
<1> QED BY <1>5, <1>6

LEMMA IdxStep == IdxInv /\ [IndexNext]_index => IdxInv'
<1>1. ASSUME IdxInv, IndexNext PROVE IdxInv'
    BY <1>1, StartStep, BuildStep, CommitStep, FailStep, StopStep, RefreshStep, SearchStep,
       RunToolStep, OutsideStep DEF IndexNext, EffectKinds
<1>2. ASSUME IdxInv, UNCHANGED index PROVE IdxInv'
  <2>1. IdxShapeInv'
      BY <1>2 DEF index, IdxInv, IdxShapeInv
  <2>2. BuildInv' /\ LagInv' /\ SearchInv'
      BY <1>2 DEF index, IdxInv, BuildInv, LagInv, SearchInv, AtWork, Behind
  <2> QED BY <2>1, <2>2 DEF IdxInv
<1> QED BY <1>1, <1>2

\* The inductive invariant of the index and its builds (rag.py, CodeIndex).
THEOREM IdxInvariant == IndexSpec => []IdxInv
BY IdxInit, IdxStep, PTL DEF IndexSpec

\* The rows of the index, the builds and the searches of every program (rag.py)
\* stay in their ranges.
THEOREM IndexTypes == IndexSpec => []IndexTypeOK
<1>1. IdxInv => IndexTypeOK
  <2> SUFFICES ASSUME IdxInv PROVE IndexTypeOK
      OBVIOUS
  <2>1. \A f \in Files : disk[f] \in Held /\ indexed[f] \in Held
      BY DEF IdxInv, IdxShapeInv
  <2>2. ASSUME NEW p \in Programs
        PROVE  /\ build[p].at \in {"off", "idle", "known", "reading"}
               /\ DOMAIN build[p].read \subseteq build[p].listed
               /\ Len(effects[p]) <= 2 /\ meanwhile[p] \subseteq Files
               /\ found[p].answer \subseteq Files \X Contents
      BY IdxShape DEF Fresh, Searches
  <2> QED BY <2>1, <2>2 DEF IdxInv, IdxShapeInv, IndexTypeOK
<1> QED BY <1>1, IdxInvariant, PTL

\* The index lags behind the files only where a known gap of the code excuses it,
\* and a search answers what was in the files when it began, with the same
\* exceptions (rag.py, IndexRefreshingToolGateway), for any number of programs,
\* files and changes between the unlocked steps of their builds.
THEOREM IndexLags == IndexSpec => []IndexLagExcused
<1>1. IdxInv => IndexLagExcused
    BY DEF IdxInv, LagInv, SearchInv, IndexLagExcused
<1> QED BY <1>1, IdxInvariant, PTL

-----------------------------------------------------------------------------
(* The types of the services *)

\* Every MCP call is queued, owns the stream or has ended with an outcome
\* (StdioTransport).
THEOREM McpTypes == McpSpec => []McpTypeOK
<1>1. ASSUME McpInv PROVE McpTypeOK
  <2>1. /\ Len(requests) \in Nat /\ DOMAIN requests = 1..Len(requests)
        /\ \A n \in DOMAIN requests : requests[n] \in Calls
      BY <1>1, CallType DEF McpInv
  <2>2. ASSUME NEW n \in DOMAIN requests
        PROVE  /\ requests[n].at \in {"queued", "sending", "receiving", "ended"}
               /\ requests[n].end \in Ends \cup {"none"}
               /\ requests[n].end = "none" <=> n \in Open
               /\ requests[n].got \in 0..Len(requests)
    <3>1. /\ requests[n].at \in {"queued", "sending", "receiving", "ended"}
          /\ requests[n].end \in Ends \cup {"none"}
        BY <2>1 DEF Calls
    <3>2. requests[n].end = "none" <=> n \in Open
        BY <1>1, <3>1 DEF McpInv, CallInv, Open, Holding, At
    <3>3. requests[n].got \in 0..Len(requests)
        BY <1>1, <2>1 DEF McpInv, CallInv
    <3> QED BY <3>1, <3>2, <3>3
  <2> QED BY <1>1, <2>2 DEF McpTypeOK, McpInv, McpShapeInv
<1> QED BY <1>1, McpInvariance, PTL

\* A diagnosis is in one of its phases, and its server up, gone or not begun
\* (lsp.py).
THEOREM LspTypes == LspSpec => []LspTypeOK
<1>1. ASSUME LspInv PROVE LspTypeOK
    BY <1>1 DEF LspInv, LspShapeInv, LspTypeOK, FileTexts, Diagnoses, Servers, LspPlaces
<1> QED BY <1>1, LspInvInit, LspInvStep, PTL DEF LspSpec

\* Every row has one of the schema's statuses, and an operation that is under way
\* a fact (managed_memory.py).
THEOREM MemoryTypes == MemorySpec => []MemoryTypeOK
<1>1. ASSUME MemInv PROVE MemoryTypeOK
  <2>1. \A f \in Facts : rows[f] \in Rows /\ backing[f] \in Grounds
      BY <1>1 DEF MemInv, MemShapeInv, Tables
  <2>2. \A s \in Stores : ops[s] \in Ops
      BY <1>1 DEF MemInv, MemShapeInv
  <2>3. \A s \in Stores : ops[s].at # "idle" => ops[s].fact \in Facts
      BY <1>1 DEF MemInv, SaveInv, Sound
  <2> QED BY <1>1, <2>1, <2>2, <2>3 DEF MemInv, MemShapeInv, MemoryTypeOK, Grounds, Ops
<1> QED BY <1>1, MemInvInit, MemInvStep, PTL DEF MemorySpec

-----------------------------------------------------------------------------
(* The session *)

LEMMA SessionBegins ==
    SessionInit => /\ Init /\ AccountingInit /\ McpInit /\ LspInit
                   /\ MemoryInit /\ AdmissionInit /\ IndexInit /\ focus \in Parts
BY DEF SessionInit

LEMMA SessionMoves ==
    [SessionNext]_sessionVars =>
        /\ [Next]_vars /\ [AccountingNext]_accounting /\ [McpNext]_mcp /\ [LspNext]_lsp
        /\ [MemoryNext]_memory /\ [AdmissionNext]_admission /\ [IndexNext]_index
        /\ UNCHANGED focus
<1> SUFFICES ASSUME [SessionNext]_sessionVars
             PROVE  /\ [Next]_vars /\ [AccountingNext]_accounting /\ [McpNext]_mcp
                    /\ [LspNext]_lsp /\ [MemoryNext]_memory /\ [AdmissionNext]_admission
                    /\ [IndexNext]_index /\ UNCHANGED focus
    OBVIOUS
<1>1. CASE SessionNext
    BY <1>1, Zenon DEF SessionNext
<1>2. CASE UNCHANGED sessionVars
    BY <1>2, Zenon DEF sessionVars
<1> QED BY <1>1, <1>2

\* A session is a run of each of its parts (bootstrap.py): whatever is proved of
\* the loop, the budget, the clients, the memory, the gateway or the index holds
\* in a session, however the parts take turns.
THEOREM SessionRunsItsParts ==
    SessionSpec => /\ Spec /\ AccountingSpec /\ McpSpec /\ LspSpec
                   /\ MemorySpec /\ AdmissionSpec /\ IndexSpec
BY SessionBegins, SessionMoves, PTL
   DEF SessionSpec, Spec, AccountingSpec, McpSpec, LspSpec, MemorySpec, AdmissionSpec, IndexSpec

\* The types of all parts, in a session of any size.
THEOREM SessionTypes == SessionSpec => []SessionTypeOK
<1>1. SessionSpec => [](focus \in Parts)
  <2>1. focus \in Parts /\ [SessionNext]_sessionVars => (focus \in Parts)'
      BY SessionMoves
  <2> QED BY <2>1, SessionBegins, PTL DEF SessionSpec
<1>2. /\ focus \in Parts /\ TypeOK /\ AccountingTypeOK /\ McpTypeOK /\ LspTypeOK
      /\ MemoryTypeOK /\ AdmissionTypeOK /\ IndexTypeOK
      => SessionTypeOK
    BY DEF SessionTypeOK
<1> QED BY <1>1, <1>2, SessionRunsItsParts, LoopTypes, AccountingTypes, McpTypes, LspTypes,
           MemoryTypes, AdmTypes, IndexTypes, PTL

\* What the run of a session checks of its parts one by one, together.
THEOREM SessionSafe ==
    SessionSpec => [](/\ BatchAnswered /\ SentPairs /\ StopsAtStreak /\ CancelIsPrompt
                      /\ NoSuccessOverErrors /\ OverrunBounded /\ TraceTells
                      /\ McpOwnAnswer /\ DiagnosisOfRead /\ TrustIsVouched
                      /\ RulesKept /\ AdmissionAsAnswered /\ IndexLagExcused)
BY SessionRunsItsParts, LoopBatchAnswered, LoopSentPairs, LoopStopsAtStreak, LoopCancelIsPrompt,
   LoopSuccessOverErrors, OverrunIsBounded, AccTraceTells, OwnAnswers, DiagnosesWhatWasRead,
   OnlyVouchedIsTrusted, AdmRulesKept, AdmAsAnswered, IndexLags, PTL
=============================================================================
