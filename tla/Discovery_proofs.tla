-------------------------- MODULE Discovery_proofs --------------------------
(***************************************************************************)
(* Proofs about Discovery, for every set of channels, peers and calls, and *)
(* any number of changes of the peers and of failures.                     *)
(***************************************************************************)
EXTENDS Discovery, TLAPS

Early  == {None, "orderers", "peers", "genesis", "setup"}
Asking == {"targets", "send", "sent", "results"}

(* A result that was discovered during call i, if it is one.               *)
Fits(r, i) ==
  /\ r.peers \subseteq call[i].seen
  /\ r.channel \in Channels => call[i].always \cap Joined[r.channel] \subseteq r.peers

(* What is sent, and a call, is of a channel.                              *)
Linked ==
  /\ \A i \in Calls : call[i].at # None => call[i].channel \in Channels
  /\ \A i \in Calls : call[i].at = "sent" => service[call[i].sent].channel \in Channels
  /\ ds # None => service[ds].channel \in Channels

(* A call's service does not exist before its setup, and starts without    *)
(* results.                                                                *)
Fresh ==
  \A i \in Calls : call[i].at \in Early =>
    /\ service[i].result = NoResult /\ ds # i
    /\ \A k \in Calls : call[k].at = "sent" => call[k].sent # i

Running ==
  \A i \in Calls : Pending(i) => live \subseteq call[i].seen /\ call[i].always \subseteq live

(* The service of now is at least as young as the setup of every call that *)
(* will read it, whoever made it.                                          *)
ServiceFits ==
  \A i \in Calls : call[i].at \in Asking /\ ds # None => Fits(service[ds].result, i)

ResultFits == \A i \in Calls : Fits(call[i].result, i)

AnswerFits ==
  \A i \in Calls :
    /\ call[i].answer.up \subseteq call[i].seen
    /\ call[i].channel \in Channels /\ call[i].answer.height = call[i].channel =>
         call[i].always \cap Joined[call[i].channel] \subseteq call[i].answer.up

Inv == Linked /\ Fresh /\ Running /\ ServiceFits /\ ResultFits /\ AnswerFits
DiscoveryInv == TypeOK /\ Inv

-----------------------------------------------------------------------------
(* What the steps do to the calls.                                         *)

(* Call j keeps what the invariant reads of it, its stage apart.           *)
KeepsSpan(j) == call'[j].seen = call[j].seen /\ call'[j].always = call[j].always
KeepsRest(j) ==
  /\ KeepsSpan(j)
  /\ call'[j].channel = call[j].channel /\ call'[j].sent = call[j].sent
KeepsAll(j) ==
  KeepsRest(j) /\ call'[j].result = call[j].result /\ call'[j].answer = call[j].answer

(* Goes changes the stage of one call.                                     *)
LEMMA GoesFields ==
  ASSUME TypeOK, NEW i \in Calls, NEW stage, Goes(i, stage)
  PROVE  \A j \in Calls : KeepsAll(j) /\ call'[j].at = IF j = i THEN stage ELSE call[j].at
<1>1. call \in [Calls -> Call]
  BY DEF TypeOK
<1> QED BY <1>1 DEF Goes, KeepsAll, KeepsRest, KeepsSpan, Call

(* A call goes on, no call reads a service that it did not wait for.       *)
LEMMA Moves ==
  ASSUME TypeOK, Inv, NEW i \in Calls, NEW stage, Goes(i, stage), Pending(i),
         stage \notin {None, "sent"},
         stage \in Early => call[i].at \in Early,
         stage \in Asking => call[i].at \in Asking \/ ds' = None,
         UNCHANGED <<live, service>>, ds' \in {ds, None}
  PROVE  Inv'
<1>1. \A j \in Calls : KeepsAll(j) /\ call'[j].at = IF j = i THEN stage ELSE call[j].at
  BY GoesFields
<1>2. \A j \in Calls : call'[j].at = "sent" => call[j].at = "sent"
  BY <1>1
<1>3. Linked'
  BY <1>1, <1>2 DEF Inv, Linked, KeepsAll, KeepsRest, Pending
<1>4. Fresh'
  BY <1>1, <1>2, DiscoveryAssumption DEF Inv, Fresh, KeepsAll, KeepsRest, Early
<1>5. Running'
  BY <1>1 DEF Inv, Running, KeepsAll, KeepsRest, KeepsSpan, Pending
<1>6. ServiceFits'
  BY <1>1 DEF Inv, ServiceFits, Fits, KeepsAll, KeepsRest, KeepsSpan
<1>7. ResultFits'
  BY <1>1 DEF Inv, ResultFits, Fits, KeepsAll, KeepsRest, KeepsSpan
<1>8. AnswerFits'
  BY <1>1 DEF Inv, AnswerFits, KeepsAll, KeepsRest, KeepsSpan
<1> QED BY <1>3, <1>4, <1>5, <1>6, <1>7, <1>8 DEF Inv

(* Nothing of what the invariant reads changes.                            *)
LEMMA InvUnchanged == Inv /\ UNCHANGED <<call, live, service, ds>> => Inv'
BY DEF Inv, Linked, Fresh, Running, ServiceFits, ResultFits, AnswerFits, Fits, Pending

(* A call begins: it sees the peers that run, and has nothing yet.         *)
LEMMA Begins ==
  ASSUME TypeOK, Inv, NEW i \in Calls, NEW kind, NEW c \in Channels,
         NEW stage \in Early \ {None}, Begin(i, kind, c, stage), UNCHANGED <<live, service, ds>>
  PROVE  Inv'
<1>1. call \in [Calls -> Call] /\ None \notin Channels
  BY DiscoveryAssumption DEF TypeOK
<1>2. \A j \in Calls \ {i} : KeepsAll(j) /\ call'[j].at = call[j].at
  BY <1>1 DEF Begin, KeepsAll, KeepsRest, KeepsSpan, Call
<1>3. /\ call'[i].at = stage /\ call'[i].channel = c /\ call'[i].seen = live
      /\ call'[i].always = live /\ call'[i].result = NoResult /\ call'[i].answer = NoAnswer
  BY DEF Begin, Idle
<1>4. call[i].at = None /\ stage \in Early /\ stage # "sent" /\ stage \notin Asking
  BY DEF Begin, Early, Asking
<1>5. Linked'
  BY <1>2, <1>3, <1>4 DEF Inv, Linked, KeepsAll, KeepsRest
<1>6. Fresh'
  BY <1>2, <1>3, <1>4 DEF Inv, Fresh, KeepsAll, KeepsRest, Early
<1>7. Running'
  BY <1>2, <1>3 DEF Inv, Running, KeepsAll, KeepsRest, KeepsSpan, Pending
<1>8. ServiceFits'
  BY <1>2, <1>3, <1>4 DEF Inv, ServiceFits, Fits, KeepsAll, KeepsRest, KeepsSpan
<1>9. ResultFits'
  BY <1>1, <1>2, <1>3 DEF Inv, ResultFits, Fits, KeepsAll, KeepsRest, KeepsSpan, NoResult
<1>10. AnswerFits'
  BY <1>1, <1>2, <1>3 DEF Inv, AnswerFits, KeepsAll, KeepsRest, KeepsSpan, NoAnswer
<1> QED BY <1>5, <1>6, <1>7, <1>8, <1>9, <1>10 DEF Inv

(* The peers change: what was seen grows, what always ran shrinks.         *)
LEMMA PeersMove ==
  ASSUME TypeOK, Inv, NEW s \in SUBSET Peers, PeersChange(s)
  PROVE  Inv'
<1>1. call \in [Calls -> Call] /\ live' = s /\ UNCHANGED <<service, ds>>
  BY DEF TypeOK, PeersChange, gateway
<1>2. ASSUME NEW j \in Calls
      PROVE  /\ call'[j].at = call[j].at /\ call'[j].channel = call[j].channel
             /\ call'[j].sent = call[j].sent /\ call'[j].result = call[j].result
             /\ call'[j].answer = call[j].answer
             /\ call[j].seen \subseteq call'[j].seen /\ call'[j].always \subseteq call[j].always
             /\ Pending(j) => s \subseteq call'[j].seen /\ call'[j].always \subseteq s
  BY <1>1 DEF PeersChange, Call
<1>4. Linked'
  BY <1>1, <1>2 DEF Inv, Linked
<1>5. Fresh'
  BY <1>1, <1>2 DEF Inv, Fresh
<1>6. Running'
  BY <1>1, <1>2 DEF Inv, Running, Pending
<1>7. ServiceFits'
  BY <1>1, <1>2 DEF Inv, ServiceFits, Fits
<1>8. ResultFits'
  BY <1>1, <1>2 DEF Inv, ResultFits, Fits
<1>9. AnswerFits'
  BY <1>1, <1>2 DEF Inv, AnswerFits
<1> QED BY <1>4, <1>5, <1>6, <1>7, <1>8, <1>9 DEF Inv

-----------------------------------------------------------------------------
(* The steps of one call.                                                  *)

(* The sets the calls and the services are in.                             *)
LEMMA CallSets ==
  ASSUME TypeOK
  PROVE  /\ call \in [Calls -> Call] /\ service \in [Calls -> Service] /\ NoResult \in Result
         /\ None \notin Channels /\ None \notin Calls
BY DiscoveryAssumption DEF TypeOK, Result

(* setupDiscoveryRequest, with and without a service.                      *)
LEMMA SetsUp ==
  ASSUME TypeOK, Inv, NEW i \in Calls, SetupDiscoveryRequest(i)
  PROVE  Inv'
<1>0. call[i].at = "setup" /\ Goes(i, "targets") /\ UNCHANGED live /\ Pending(i)
  BY DEF SetupDiscoveryRequest, Pending, None
<1>1. CASE ds' = None /\ UNCHANGED service
  BY <1>0, <1>1, Moves DEF Early, None
<1>2. CASE ds' = i /\ service' = [service EXCEPT ![i].channel = call[i].channel]
  <2>1. \A j \in Calls :
          KeepsAll(j) /\ call'[j].at = IF j = i THEN "targets" ELSE call[j].at
    BY <1>0, GoesFields
  <2>2. /\ \A j \in Calls \ {i} : service'[j] = service[j]
        /\ service'[i].channel = call[i].channel /\ service'[i].result = service[i].result
    BY <1>2, CallSets DEF Service
  <2>3. service'[i].result = NoResult /\ call[i].channel \in Channels
    BY <1>0, <2>2 DEF Inv, Fresh, Linked, Early, None
  <2>4. \A j \in Calls : call'[j].at = "sent" => call[j].at = "sent" /\ call[j].sent \in Calls
    BY <1>0, <2>1, CallSets DEF TypeOK, Call
  <2>5. Linked'
    BY <1>0, <1>2, <2>1, <2>2, <2>3, <2>4 DEF Inv, Linked, KeepsAll, KeepsRest, None
  <2>6. Fresh'
    BY <1>0, <1>2, <2>1, <2>2, <2>4 DEF Inv, Fresh, KeepsAll, KeepsRest, Early, None
  <2>7. Running'
    BY <1>0, <2>1 DEF Inv, Running, KeepsAll, KeepsRest, KeepsSpan, Pending
  <2>8. ServiceFits'
    BY <1>2, <2>3, CallSets DEF ServiceFits, Fits, NoResult
  <2>9. ResultFits'
    BY <2>1 DEF Inv, ResultFits, Fits, KeepsAll, KeepsRest, KeepsSpan
  <2>10. AnswerFits'
    BY <2>1 DEF Inv, AnswerFits, KeepsAll, KeepsRest, KeepsSpan
  <2> QED BY <2>5, <2>6, <2>7, <2>8, <2>9, <2>10 DEF Inv
<1> QED BY <1>1, <1>2 DEF SetupDiscoveryRequest

(* A call without a result goes on to its answer, or is done.              *)
LEMMA GoesWithout ==
  ASSUME TypeOK, Inv, NEW i \in Calls, Pending(i), WithoutResult(i),
         UNCHANGED <<live, service>>, ds' \in {ds, None}
  PROVE  Inv'
<1>1. PICK stage \in {"answer", "done"} : Goes(i, stage)
  BY DEF WithoutResult
<1> QED BY <1>1, Moves DEF Early, Asking, None

(* The service of now is sent.                                             *)
LEMMA Sends ==
  ASSUME TypeOK, Inv, NEW i \in Calls, SendDiscoveryRequest(i)
  PROVE  Inv'
<1>0. call[i].at = "send" /\ Pending(i) /\ UNCHANGED <<live, service, ds>>
  BY DEF SendDiscoveryRequest, Pending, None, gateway
<1>1. CASE ds = None /\ WithoutResult(i)
  BY <1>0, <1>1, GoesWithout
<1>2. CASE ds # None /\ call' = [call EXCEPT ![i].at = "sent", ![i].sent = ds]
  <2>1. /\ \A j \in Calls \ {i} : KeepsAll(j) /\ call'[j].at = call[j].at
        /\ KeepsSpan(i) /\ call'[i].channel = call[i].channel /\ call'[i].sent = ds
        /\ call'[i].result = call[i].result /\ call'[i].answer = call[i].answer
        /\ call'[i].at = "sent"
    BY <1>2, CallSets DEF KeepsAll, KeepsRest, KeepsSpan, Call
  <2>2. Linked'
    BY <1>0, <1>2, <2>1 DEF Inv, Linked, KeepsAll, KeepsRest, None
  <2>a. \A j \in Calls : /\ KeepsSpan(j)
                         /\ call'[j].at \in Early => call[j].at \in Early
                         /\ call'[j].at \in Asking => call[j].at \in Asking
    BY <1>0, <2>1 DEF Early, Asking, KeepsAll, KeepsRest, None
  <2>b. UNCHANGED <<service, ds>> /\ ds # None
    BY <1>0, <1>2
  <2>3. Fresh'
    BY <2>b, <2>1, <2>a DEF Inv, Fresh, KeepsAll, KeepsRest, None
  <2>4. Running'
    BY <1>0, <2>1 DEF Inv, Running, KeepsAll, KeepsRest, KeepsSpan, Pending
  <2>5. ServiceFits'
    BY <2>a, <2>b DEF Inv, ServiceFits, Fits, KeepsSpan
  <2>6. ResultFits'
    BY <2>1 DEF Inv, ResultFits, Fits, KeepsAll, KeepsRest, KeepsSpan
  <2>7. AnswerFits'
    BY <2>1 DEF Inv, AnswerFits, KeepsAll, KeepsRest, KeepsSpan
  <2> QED BY <2>2, <2>3, <2>4, <2>5, <2>6, <2>7 DEF Inv
<1> QED BY <1>1, <1>2 DEF SendDiscoveryRequest

(* The answer of the peers is kept by the service that was sent: it fits   *)
(* every call, since every call that waits saw the peers that run now.     *)
LEMMA Discovers ==
  ASSUME TypeOK, Inv, NEW i \in Calls, Discovered(i)
  PROVE  Inv'
<1> DEFINE s == call[i].sent
           c == service[s].channel
           r == [channel |-> c, peers |-> live \cap Joined[c]]
<1>0. /\ call[i].at = "sent" /\ Pending(i) /\ UNCHANGED <<live, ds>>
      /\ s \in Calls /\ c \in Channels
  BY CallSets DEF Discovered, Pending, None, TypeOK, Call, Inv, Linked
<1>1. CASE UNCHANGED service /\ (WithoutResult(i) \/ Goes(i, "results"))
  BY <1>0, <1>1, GoesWithout, Moves DEF Early, Asking, None
<1>2. CASE Goes(i, "results") /\ service' = [service EXCEPT ![s].result = r]
  <2>1. \A j \in Calls :
          KeepsAll(j) /\ call'[j].at = IF j = i THEN "results" ELSE call[j].at
    BY <1>2, GoesFields
  <2>2. /\ \A j \in Calls : service'[j].channel = service[j].channel
        /\ \A j \in Calls \ {s} : service'[j].result = service[j].result
        /\ service'[s].result = r
    BY <1>0, <1>2, CallSets DEF Service
  <2>3. \A j \in Calls : call'[j].at = "sent" => call[j].at = "sent" /\ call[j].sent \in Calls
    BY <2>1, CallSets DEF TypeOK, Call
  <2>4. Linked'
    BY <1>0, <2>1, <2>2, <2>3 DEF Inv, Linked, KeepsAll, KeepsRest, None, TypeOK
  <2>5. Fresh'
    BY <1>0, <2>1, <2>2, <2>3 DEF Inv, Fresh, KeepsAll, KeepsRest, Early, None
  <2>6. Running'
    BY <1>0, <2>1 DEF Inv, Running, KeepsAll, KeepsRest, KeepsSpan, Pending
  <2>7. ServiceFits'
    <3>1. SUFFICES ASSUME NEW j \in Calls, call'[j].at \in Asking, ds # None
                   PROVE  /\ service'[ds].result.peers \subseteq call[j].seen
                          /\ service'[ds].result.channel \in Channels =>
                               call[j].always \cap Joined[service'[ds].result.channel]
                                 \subseteq service'[ds].result.peers
      BY <1>0, <2>1 DEF ServiceFits, Fits, KeepsAll, KeepsRest, KeepsSpan
    <3>2. call[j].at \in Asking /\ Pending(j) /\ ds \in Calls
      BY <1>0, <2>1, <3>1 DEF Asking, Pending, None, TypeOK
    <3>3. CASE ds = s
      BY <2>2, <3>2, <3>3 DEF Inv, Running
    <3>4. CASE ds # s
      <4>1. service'[ds].result = service[ds].result /\ call[j].at \in Asking
        BY <2>2, <3>2, <3>4, <2>1, <1>0, <3>1 DEF Asking
      <4> QED BY <3>1, <4>1 DEF Inv, ServiceFits, Fits
    <3> QED BY <3>3, <3>4
  <2>8. ResultFits'
    BY <2>1 DEF Inv, ResultFits, Fits, KeepsAll, KeepsRest, KeepsSpan
  <2>9. AnswerFits'
    BY <2>1 DEF Inv, AnswerFits, KeepsAll, KeepsRest, KeepsSpan
  <2> QED BY <2>4, <2>5, <2>6, <2>7, <2>8, <2>9 DEF Inv
<1> QED BY <1>1, <1>2 DEF Discovered

(* A call reads the results of the service of now.                         *)
LEMMA Reads ==
  ASSUME TypeOK, Inv, NEW i \in Calls, GetDiscoveryResults(i)
  PROVE  Inv'
<1>0. call[i].at = "results" /\ Pending(i) /\ UNCHANGED <<live, service>>
  BY DEF GetDiscoveryResults, Pending, None
<1>1. CASE WithoutResult(i) /\ ds' = None
  BY <1>0, <1>1, GoesWithout
<1>2. ASSUME NEW stage \in {"answer", "done"}, ds # None, UNCHANGED ds,
             call' = [call EXCEPT ![i].result = service[ds].result, ![i].at = stage]
      PROVE  Inv'
  <2>1. /\ \A j \in Calls \ {i} : KeepsAll(j) /\ call'[j].at = call[j].at
        /\ KeepsRest(i) /\ call'[i].result = service[ds].result
        /\ call'[i].answer = call[i].answer /\ call'[i].at = stage
    BY <1>2, CallSets DEF KeepsAll, KeepsRest, KeepsSpan, Call
  <2>2. Linked'
    BY <1>0, <1>2, <2>1 DEF Inv, Linked, KeepsAll, KeepsRest, None
  <2>a. \A j \in Calls : /\ KeepsSpan(j)
                         /\ call'[j].at \in Early => call[j].at \in Early
                         /\ call'[j].at \in Asking => call[j].at \in Asking
    BY <1>0, <2>1 DEF Early, Asking, KeepsAll, KeepsRest, None
  <2>b. UNCHANGED <<service, ds>> /\ ds # None
    BY <1>0, <1>2
  <2>3. Fresh'
    BY <2>b, <2>1, <2>a DEF Inv, Fresh, KeepsAll, KeepsRest, None
  <2>4. Running'
    BY <1>0, <2>1 DEF Inv, Running, KeepsAll, KeepsRest, KeepsSpan, Pending
  <2>5. ServiceFits'
    BY <2>a, <2>b DEF Inv, ServiceFits, Fits, KeepsSpan
  <2>6. Fits(service[ds].result, i)
    BY <1>0, <1>2 DEF Inv, ServiceFits, Asking
  <2>7. ResultFits'
    BY <2>1, <2>6 DEF Inv, ResultFits, Fits, KeepsAll, KeepsRest, KeepsSpan
  <2>8. AnswerFits'
    BY <2>1 DEF Inv, AnswerFits, KeepsAll, KeepsRest, KeepsSpan
  <2> QED BY <2>2, <2>3, <2>4, <2>5, <2>7, <2>8 DEF Inv
<1> QED BY <1>1, <1>2 DEF GetDiscoveryResults

(* The status is made of the result.                                       *)
LEMMA IsAnswered ==
  ASSUME TypeOK, Inv, NEW i \in Calls, Answer(i)
  PROVE  Inv'
<1>0. call[i].at = "answer" /\ Pending(i) /\ UNCHANGED <<live, service, ds>>
  BY DEF Answer, Pending, None, gateway
<1>1. /\ \A j \in Calls \ {i} : KeepsAll(j) /\ call'[j].at = call[j].at
      /\ KeepsRest(i) /\ call'[i].result = call[i].result
      /\ call'[i].answer = PeersStatus(call[i].channel, call[i].result)
      /\ call'[i].at = "done"
  BY CallSets DEF Answer, KeepsAll, KeepsRest, KeepsSpan, Call
<1>2. Linked'
  BY <1>0, <1>1 DEF Inv, Linked, KeepsAll, KeepsRest, None
<1>3. Fresh'
  BY <1>0, <1>1 DEF Inv, Fresh, KeepsAll, KeepsRest, Early, None
<1>4. Running'
  BY <1>0, <1>1 DEF Inv, Running, KeepsAll, KeepsRest, KeepsSpan, Pending
<1>5. ServiceFits'
  BY <1>0, <1>1 DEF Inv, ServiceFits, Fits, KeepsAll, KeepsRest, KeepsSpan, Asking
<1>6. ResultFits'
  BY <1>1 DEF Inv, ResultFits, Fits, KeepsAll, KeepsRest, KeepsSpan
<1>7. AnswerFits'
  BY <1>1 DEF Inv, AnswerFits, ResultFits, Fits, PeersStatus, KeepsAll, KeepsRest, KeepsSpan
<1> QED BY <1>2, <1>3, <1>4, <1>5, <1>6, <1>7 DEF Inv

-----------------------------------------------------------------------------
(* The types.                                                              *)

(* A call keeps its type when one of its fields gets a value of that type. *)
LEMMA FieldTypes ==
  ASSUME NEW k \in Call
  PROVE  /\ \A stage \in Stages : [k EXCEPT !.at = stage] \in Call
         /\ \A b \in BOOLEAN : [k EXCEPT !.crossed = b] \in Call
         /\ \A s, a \in SUBSET Peers : [k EXCEPT !.seen = s, !.always = a] \in Call
         /\ \A stage \in Stages, s \in Calls :
              [k EXCEPT !.at = stage, !.sent = s] \in Call
         /\ \A stage \in Stages, r \in Result :
              [k EXCEPT !.result = r, !.at = stage] \in Call
         /\ \A stage \in Stages, a \in Answers :
              [k EXCEPT !.at = stage, !.answer = a] \in Call
BY DEF Call

(* The calls are typed, and what is waited for was sent.                   *)
CallsOK ==
  /\ call \in [Calls -> Call]
  /\ \A i \in Calls : call[i].at = "sent" => call[i].sent # None

(* Most steps keep the types of the calls for the same reason.             *)
LEMMA GoesType ==
  ASSUME TypeOK, NEW i \in Calls, NEW stage \in Stages \ {"sent"}, Goes(i, stage)
  PROVE  CallsOK'
<1>1. call' \in [Calls -> Call]
  BY CallSets, FieldTypes DEF Goes
<1>2. \A j \in Calls : call'[j].sent = call[j].sent /\
                       (call'[j].at = "sent" => call[j].at = "sent")
  BY GoesFields DEF KeepsAll, KeepsRest
<1> QED BY <1>1, <1>2 DEF TypeOK, CallsOK

(* A call that begins.                                                     *)
LEMMA BeginType ==
  ASSUME TypeOK, NEW i \in Calls, NEW kind \in {"peers", "new", "update"},
         NEW c \in Channels, NEW stage \in Stages \ {"sent"}, Begin(i, kind, c, stage)
  PROVE  CallsOK'
<1>1. call' \in [Calls -> Call]
  <2>1. [Idle EXCEPT !.kind = kind, !.channel = c, !.at = stage, !.seen = live,
           !.always = live, !.crossed = \E k \in Calls : Pending(k)] \in Call
    BY DEF Idle, Call, NoAnswer, Answers, NoResult, Result, TypeOK
  <2>2. \A j \in Calls : [call[j] EXCEPT !.crossed = @ \/ Pending(j)] \in Call
    <3>1. \A j \in Calls : call[j] \in Call /\ (call[j].crossed \/ Pending(j)) \in BOOLEAN
      BY CallSets
    <3> QED BY <3>1, FieldTypes
  <2> QED BY <2>1, <2>2 DEF Begin
<1>2. call'[i].at = stage
  BY DEF Begin, Idle
<1>3. \A j \in Calls \ {i} : call'[j].at = call[j].at /\ call'[j].sent = call[j].sent
  <2>1. call \in [Calls -> Call]
    BY CallSets
  <2>2. ASSUME NEW j \in Calls \ {i}
        PROVE  call'[j] = [call[j] EXCEPT !.crossed = @ \/ Pending(j)]
    BY <2>1 DEF Begin
  <2> QED BY <2>1, <2>2 DEF Call
<1> QED BY <1>1, <1>2, <1>3 DEF TypeOK, CallsOK

(* Failing leaves the counters numbers.                                    *)
LEMMA CounterType ==
  ASSUME TypeOK, Fails \/ Works \/ Interrupted
  PROVE  n' \in [changes : Nat, fails : Nat]
BY DEF TypeOK, Fails, Works, Interrupted

-----------------------------------------------------------------------------
(* The invariant.                                                          *)

(* Initially no call runs.                                                 *)
LEMMA InitInv == Init => DiscoveryInv
<1> SUFFICES ASSUME Init PROVE DiscoveryInv
  OBVIOUS
<1>1. None \notin Channels /\ None \notin Calls
  BY DiscoveryAssumption
<1>2. /\ Idle \in Call /\ Idle.at = None /\ Idle.seen = {} /\ Idle.always = {}
      /\ Idle.result = NoResult /\ Idle.answer = NoAnswer /\ Idle.channel = None
      /\ [channel |-> None, result |-> NoResult] \in Service
  BY DEF Idle, Call, NoAnswer, Answers, NoResult, Result, Stages, Service
<1>3. \A i \in Calls : call[i] = Idle /\ service[i].result = NoResult
  BY DEF Init
<1>4. call \in [Calls -> Call] /\ service \in [Calls -> Service]
  BY <1>2 DEF Init
<1>5. TypeOK
  BY <1>2, <1>3, <1>4 DEF Init, TypeOK, None
<1>6. Linked /\ Fresh
  BY <1>1, <1>2, <1>3 DEF Init, Linked, Fresh, None
<1>7. Running /\ ServiceFits
  BY <1>2, <1>3 DEF Init, Running, ServiceFits, Pending
<1>8. ResultFits
  BY <1>1, <1>2, <1>3 DEF ResultFits, Fits, NoResult
<1>9. AnswerFits
  BY <1>1, <1>2, <1>3 DEF AnswerFits, NoAnswer
<1> QED BY <1>5, <1>6, <1>7, <1>8, <1>9 DEF DiscoveryInv, Inv

(* Every step of a call keeps the types.                                   *)
LEMMA StepType ==
  ASSUME DiscoveryInv, NEW i \in Calls, Step(i)
  PROVE  TypeOK'
<1>0. /\ TypeOK /\ Inv /\ CallsOK
      /\ (call[i].at # None => call[i].channel \in Channels)
      /\ UNCHANGED <<status, listed, live>>
  BY DEF DiscoveryInv, Inv, Linked, CallsOK, TypeOK, Step, GetActiveOrderersList, GetPeerList,
         GetGenesisBlock, SetupDiscoveryRequest, GetDiscoveryServiceTarget,
         SendDiscoveryRequest, Discovered, GetDiscoveryResults, Answer
<1>1. SUFFICES /\ CallsOK' /\ service' \in [Calls -> Service]
               /\ n' \in [changes : Nat, fails : Nat]
               /\ up' \in BOOLEAN /\ known' \subseteq Channels /\ connected' \subseteq Channels
               /\ targets' \in BOOLEAN /\ ds' \in Calls \cup {None}
  BY <1>0 DEF TypeOK, CallsOK
<1> USE <1>0
<1>2. ASSUME Unhandled
      PROVE  /\ CallsOK' /\ up' \in BOOLEAN /\ known' \subseteq Channels
             /\ connected' \subseteq Channels /\ targets' \in BOOLEAN
             /\ ds' \in Calls \cup {None} /\ service' \in [Calls -> Service]
  BY <1>2 DEF Unhandled, gateway, TypeOK, CallsOK
<1>3. ASSUME WithoutResult(i) PROVE CallsOK'
  <2>1. PICK stage \in {"answer", "done"} : Goes(i, stage)
    BY <1>3 DEF WithoutResult
  <2> QED BY <2>1, GoesType DEF Stages
<1>4. CASE GetActiveOrderersList(i)
  <2>1. CASE Fails /\ Unhandled
    BY <1>2, <2>1, CounterType
  <2>2. CASE /\ connected' = connected \cup {call[i].channel} /\ call[i].at = "orderers"
             /\ Goes(i, "peers") /\ UNCHANGED <<up, known, targets, ds, service, n>>
    <3>1. "peers" \in Stages \ {"sent"} /\ call[i].channel \in Channels
      BY <2>2 DEF Stages, None
    <3> QED BY <2>2, <3>1, GoesType DEF TypeOK
  <2> QED BY <1>4, <2>1, <2>2 DEF GetActiveOrderersList
<1>5. CASE GetPeerList(i)
  <2>1. CASE Interrupted /\ Unhandled
    BY <1>2, <2>1, CounterType
  <2>2. ASSUME NEW stage \in {"setup", "answer"}, Goes(i, stage),
               UNCHANGED <<up, known, gateway, n>>
        PROVE  /\ CallsOK' /\ service' \in [Calls -> Service]
               /\ n' \in [changes : Nat, fails : Nat]
               /\ up' \in BOOLEAN /\ known' \subseteq Channels /\ connected' \subseteq Channels
               /\ targets' \in BOOLEAN /\ ds' \in Calls \cup {None}
    <3>1. stage \in Stages \ {"sent"}
      BY DEF Stages
    <3> QED BY <2>2, <3>1, GoesType DEF TypeOK, gateway
  <2> QED BY <1>5, <2>1, <2>2 DEF GetPeerList
<1>6. CASE GetGenesisBlock(i)
  <2>1. CASE Fails /\ Unhandled
    BY <1>2, <2>1, CounterType
  <2>2. ASSUME NEW stage \in {"done", "setup"}, Goes(i, stage), call[i].at = "genesis",
               Works, known' = known \cup {call[i].channel}, UNCHANGED <<up, gateway>>
        PROVE  /\ CallsOK' /\ service' \in [Calls -> Service]
               /\ n' \in [changes : Nat, fails : Nat]
               /\ up' \in BOOLEAN /\ known' \subseteq Channels /\ connected' \subseteq Channels
               /\ targets' \in BOOLEAN /\ ds' \in Calls \cup {None}
    <3>1. stage \in Stages \ {"sent"} /\ call[i].channel \in Channels
      BY <2>2 DEF Stages, None
    <3> QED BY <2>2, <3>1, GoesType, CounterType DEF TypeOK, gateway
  <2> QED BY <1>6, <2>1, <2>2 DEF GetGenesisBlock
<1>7. CASE SetupDiscoveryRequest(i)
  <2>1. CallsOK'
    <3>1. "targets" \in Stages \ {"sent"}
      BY DEF Stages
    <3> QED BY <1>7, <3>1, GoesType DEF SetupDiscoveryRequest
  <2>2. call[i].channel \in Channels
    BY <1>7 DEF SetupDiscoveryRequest, None
  <2>3. n' \in [changes : Nat, fails : Nat]
    BY <1>7, CounterType DEF SetupDiscoveryRequest, TypeOK
  <2>4. service' \in [Calls -> Service] /\ ds' \in Calls \cup {None}
    <3>1. [service[i] EXCEPT !.channel = call[i].channel] \in Service
      BY <2>2, CallSets DEF Service
    <3> QED BY <1>7, <3>1, CallSets DEF SetupDiscoveryRequest, TypeOK
  <2>5. connected' \subseteq Channels /\ UNCHANGED <<up, known, targets>>
    BY <1>7, <2>2 DEF SetupDiscoveryRequest, TypeOK
  <2> QED BY <2>1, <2>3, <2>4, <2>5 DEF TypeOK
<1>8. CASE GetDiscoveryServiceTarget(i)
  <2>1. CASE Fails /\ Unhandled
    BY <1>2, <2>1, CounterType
  <2>2. CASE Fails /\ WithoutResult(i) /\ UNCHANGED <<up, known, gateway>>
    BY <1>3, <2>2, CounterType DEF TypeOK, gateway
  <2>3. CASE /\ targets' = TRUE /\ Goes(i, "send")
             /\ UNCHANGED <<up, known, n, connected, ds, service>>
    <3>1. "send" \in Stages \ {"sent"}
      BY DEF Stages
    <3> QED BY <2>3, <3>1, GoesType DEF TypeOK
  <2> QED BY <1>8, <2>1, <2>2, <2>3 DEF GetDiscoveryServiceTarget
<1>9. CASE SendDiscoveryRequest(i)
  <2>1. UNCHANGED <<up, known, connected, targets, ds, service, n>>
    BY <1>9 DEF SendDiscoveryRequest, gateway
  <2>2. CASE WithoutResult(i)
    BY <1>3, <2>1, <2>2 DEF TypeOK
  <2>3. CASE ds # None /\ call' = [call EXCEPT ![i].at = "sent", ![i].sent = ds]
    <3>1. "sent" \in Stages /\ ds \in Calls
      BY <2>3 DEF Stages, TypeOK
    <3>2. call' \in [Calls -> Call]
      <4>1. [call[i] EXCEPT !.at = "sent", !.sent = ds] \in Call
        BY <3>1, CallSets, FieldTypes
      <4> QED BY <2>3, <4>1, CallSets
    <3>3. /\ call'[i].sent = ds
          /\ \A j \in Calls \ {i} : call'[j] = call[j]
      BY <2>3, CallSets DEF Call
    <3>4. CallsOK'
      BY <2>3, <3>2, <3>3 DEF CallsOK
    <3> QED BY <2>1, <3>4 DEF TypeOK
  <2> QED BY <1>9, <2>2, <2>3 DEF SendDiscoveryRequest
<1>10. CASE Discovered(i)
  <2> DEFINE s == call[i].sent
             r == [channel |-> service[s].channel,
                   peers |-> live \cap Joined[service[s].channel]]
  <2>1. n' \in [changes : Nat, fails : Nat]
    BY <1>10, CounterType DEF Discovered
  <2>2. CallsOK'
    <3>1. "results" \in Stages \ {"sent"}
      BY DEF Stages
    <3> QED BY <1>3, <1>10, <3>1, GoesType DEF Discovered
  <2>3. service' \in [Calls -> Service]
    <3>1. s \in Calls /\ service[s].channel \in Channels
      BY <1>10, CallSets DEF Discovered, TypeOK, Call, Inv, Linked
    <3>2. r \in Result
      BY <3>1 DEF Result, TypeOK
    <3>3. [service[s] EXCEPT !.result = r] \in Service
      BY <3>1, <3>2, CallSets DEF Service
    <3> HIDE DEF r
    <3>4. CASE service' = [service EXCEPT ![s].result = r]
      BY <3>1, <3>3, <3>4, CallSets
    <3>5. CASE UNCHANGED service
      BY <3>5, CallSets
    <3> QED BY <1>10, <3>4, <3>5 DEF Discovered, r
  <2> QED BY <1>10, <2>1, <2>2, <2>3 DEF Discovered, TypeOK
<1>11. CASE GetDiscoveryResults(i)
  <2>1. UNCHANGED <<up, known, connected, targets, service, n>>
    BY <1>11 DEF GetDiscoveryResults
  <2>2. CASE WithoutResult(i) /\ ds' = None
    BY <1>3, <2>1, <2>2 DEF TypeOK
  <2>3. ASSUME NEW stage \in {"answer", "done"}, ds # None, UNCHANGED ds,
               call' = [call EXCEPT ![i].result = service[ds].result, ![i].at = stage]
        PROVE  CallsOK'
    <3>1. stage \in Stages /\ stage # "sent" /\ service[ds].result \in Result
      BY <2>3, CallSets DEF Stages, TypeOK, Service
    <3>2. [call[i] EXCEPT !.result = service[ds].result, !.at = stage] \in Call
      BY <3>1, CallSets, FieldTypes
    <3>3. call' \in [Calls -> Call]
      BY <2>3, <3>2, CallSets
    <3>4. /\ call'[i].at = stage
          /\ \A j \in Calls \ {i} : call'[j] = call[j]
      BY <2>3, CallSets DEF Call
    <3> QED BY <3>1, <3>3, <3>4 DEF CallsOK
  <2> QED BY <1>11, <2>1, <2>2, <2>3 DEF GetDiscoveryResults, TypeOK
<1>12. CASE Answer(i)
  <2>1. UNCHANGED <<up, known, connected, targets, ds, service, n>>
    BY <1>12 DEF Answer, gateway
  <2> DEFINE a == PeersStatus(call[i].channel, call[i].result)
  <2>2. a \in Answers
    <3>1. call[i].channel \in Channels /\ call[i].result \in Result
      BY <1>12, CallSets DEF Answer, None, Call
    <3>2. Joined[call[i].channel] \subseteq Peers
      BY <3>1, DiscoveryAssumption
    <3>3. call[i].result.channel \in Channels \cup {None}
      BY <3>1 DEF Result, NoResult
    <3> QED BY <3>2, <3>3 DEF PeersStatus, Answers
  <2>3. "done" \in Stages /\ "done" # "sent"
    BY DEF Stages
  <2>4. [call[i] EXCEPT !.at = "done", !.answer = a] \in Call
    BY <2>2, <2>3, CallSets, FieldTypes
  <2>5. call' = [call EXCEPT ![i].at = "done", ![i].answer = a]
    BY <1>12 DEF Answer
  <2> HIDE DEF a
  <2>6. call' \in [Calls -> Call]
    BY <2>4, <2>5, CallSets
  <2>7. call'[i].at = "done" /\ \A j \in Calls \ {i} : call'[j] = call[j]
    BY <2>5, CallSets DEF Call
  <2> QED BY <2>1, <2>3, <2>6, <2>7 DEF CallsOK, TypeOK
<1> QED BY <1>4, <1>5, <1>6, <1>7, <1>8, <1>9, <1>10, <1>11, <1>12 DEF Step

(* The steps that are not a call's own.                                    *)
LEMMA OtherType ==
  ASSUME DiscoveryInv, Next, ~\E i \in Calls : Step(i)
  PROVE  TypeOK'
<1>0. TypeOK /\ CallsOK
  BY DEF DiscoveryInv, TypeOK, CallsOK
<1> USE <1>0
<1>1. ASSUME NEW i \in Calls, NEW kind \in {"peers", "new", "update"}, NEW c \in Channels,
             NEW stage \in {"orderers", "genesis", "setup"}, Begin(i, kind, c, stage),
             UNCHANGED <<up, status, known, listed, live, gateway, n>>
      PROVE  TypeOK'
  <2>1. stage \in Stages \ {"sent"}
    BY DEF Stages
  <2>2. CallsOK'
    BY <1>1, <2>1, BeginType
  <2> QED BY <1>1, <2>2 DEF TypeOK, CallsOK, gateway
<1>2. ASSUME NEW i \in Calls, NEW c \in Channels, GetPeersStatus(i, c) PROVE TypeOK'
  <2>1. CASE Unhandled
    BY <1>2, <2>1 DEF GetPeersStatus, Unhandled, gateway, TypeOK
  <2>2. CASE Begin(i, "peers", c, "orderers") /\ UNCHANGED <<up, known, gateway>>
    BY <1>1, <1>2, <2>2 DEF GetPeersStatus
  <2> QED BY <1>2, <2>1, <2>2 DEF GetPeersStatus
<1>3. ASSUME NEW i \in Calls, NEW c \in Channels, InitializeNewChannel(i, c) PROVE TypeOK'
  BY <1>1, <1>3 DEF InitializeNewChannel
<1>4. ASSUME NEW i \in Calls, NEW c \in Channels, InitializeChannelFromDiscover(i, c)
      PROVE  TypeOK'
  <2>1. CASE c \in known
    BY <1>1, <1>4, <2>1 DEF InitializeChannelFromDiscover
  <2>2. CASE c \notin known
    BY <1>1, <1>4, <2>2 DEF InitializeChannelFromDiscover
  <2> QED BY <2>1, <2>2
<1>5. ASSUME NEW c \in Channels, Stored(c) PROVE TypeOK'
  BY <1>5 DEF Stored, TypeOK, gateway
<1>6. ASSUME NEW s \in SUBSET Peers, PeersChange(s) PROVE TypeOK'
  <2>1. call \in [Calls -> Call]
    BY CallSets
  <2>2. \A j \in Calls : call[j].seen \in SUBSET Peers /\ call[j].always \in SUBSET Peers
    BY <2>1 DEF Call
  <2>3. \A j \in Calls :
          [call[j] EXCEPT !.seen = @ \cup s, !.always = @ \cap s] \in Call
    BY <2>1, <2>2, FieldTypes
  <2>4. call' \in [Calls -> Call]
    BY <1>6, <2>1, <2>3 DEF PeersChange
  <2>5. \A j \in Calls : call'[j].at = call[j].at /\ call'[j].sent = call[j].sent
    BY <1>6, <2>1 DEF PeersChange, Call
  <2>6. n' \in [changes : Nat, fails : Nat]
    <3>1. n \in [changes : Nat, fails : Nat] /\ n' = [n EXCEPT !.changes = @ + 1]
      BY <1>6 DEF PeersChange, TypeOK
    <3> QED BY <3>1
  <2> QED BY <1>6, <2>4, <2>5, <2>6 DEF PeersChange, TypeOK, gateway
<1> QED BY <1>2, <1>3, <1>4, <1>5, <1>6 DEF Next

(* Every step keeps the rest of the invariant.                             *)
LEMMA NextInv ==
  ASSUME DiscoveryInv, Next
  PROVE  Inv'
<1>0. TypeOK /\ Inv
  BY DEF DiscoveryInv
<1> USE <1>0
<1>1. ASSUME Unhandled, UNCHANGED live PROVE Inv'
  BY <1>1, InvUnchanged DEF Unhandled, gateway
<1>2. ASSUME NEW i \in Calls, Step(i) PROVE Inv'
  <2>1. UNCHANGED live
    BY <1>2 DEF Step, GetActiveOrderersList, GetPeerList, GetGenesisBlock,
         SetupDiscoveryRequest, GetDiscoveryServiceTarget, SendDiscoveryRequest, Discovered,
         GetDiscoveryResults, Answer
  <2>2. CASE Unhandled
    BY <1>1, <2>1, <2>2
  <2>3. CASE GetActiveOrderersList(i) /\ ~Unhandled
    <3>1. /\ call[i].at = "orderers" /\ Goes(i, "peers") /\ UNCHANGED <<service, ds>>
      BY <2>3 DEF GetActiveOrderersList
    <3> QED BY <2>1, <3>1, Moves DEF Pending, Early, Asking, None
  <2>4. CASE GetPeerList(i) /\ ~Unhandled
    <3>1. call[i].at = "peers" /\ UNCHANGED <<service, ds>>
      BY <2>4 DEF GetPeerList, gateway
    <3>2. PICK stage \in {"setup", "answer"} : Goes(i, stage)
      BY <2>4 DEF GetPeerList
    <3> QED BY <2>1, <3>1, <3>2, Moves DEF Pending, Early, Asking, None
  <2>5. CASE GetGenesisBlock(i) /\ ~Unhandled
    <3>1. call[i].at = "genesis" /\ UNCHANGED <<service, ds>>
      BY <2>5 DEF GetGenesisBlock, gateway
    <3>2. PICK stage \in {"done", "setup"} : Goes(i, stage)
      BY <2>5 DEF GetGenesisBlock
    <3> QED BY <2>1, <3>1, <3>2, Moves DEF Pending, Early, Asking, None
  <2>6. CASE GetDiscoveryServiceTarget(i) /\ ~Unhandled
    <3>1. call[i].at = "targets" /\ UNCHANGED <<service, ds>>
      BY <2>6 DEF GetDiscoveryServiceTarget, gateway
    <3>2. CASE Goes(i, "send")
      BY <2>1, <3>1, <3>2, Moves DEF Pending, Early, Asking, None
    <3>3. CASE WithoutResult(i)
      BY <2>1, <3>1, <3>3, GoesWithout DEF Pending, None
    <3> QED BY <2>6, <3>2, <3>3 DEF GetDiscoveryServiceTarget
  <2> QED BY <1>2, <2>2, <2>3, <2>4, <2>5, <2>6, SetsUp, Sends, Discovers, Reads, IsAnswered
          DEF Step
<1>3. ASSUME NEW i \in Calls, NEW c \in Channels,
             GetPeersStatus(i, c) \/ InitializeNewChannel(i, c)
               \/ InitializeChannelFromDiscover(i, c)
      PROVE  Inv'
  <2>1. UNCHANGED live
    BY <1>3 DEF GetPeersStatus, InitializeNewChannel, InitializeChannelFromDiscover
  <2>2. CASE Unhandled
    BY <1>1, <2>1, <2>2
  <2>3. CASE ~Unhandled
    <3>1. UNCHANGED gateway
      BY <1>3, <2>3 DEF GetPeersStatus, InitializeNewChannel, InitializeChannelFromDiscover
    <3>2. PICK kind \in {"peers", "new", "update"}, stage \in {"orderers", "genesis", "setup"} :
            Begin(i, kind, c, stage)
      BY <1>3, <2>3 DEF GetPeersStatus, InitializeNewChannel, InitializeChannelFromDiscover
    <3>3. stage \in Early \ {None}
      BY DEF Early, None
    <3> QED BY <2>1, <3>1, <3>2, <3>3, Begins DEF gateway
  <2> QED BY <2>2, <2>3
<1>4. ASSUME NEW c \in Channels, Stored(c) PROVE Inv'
  BY <1>4, InvUnchanged DEF Stored, gateway
<1> QED BY <1>2, <1>3, <1>4, PeersMove DEF Next

(* A step that changes nothing keeps the invariant.                        *)
LEMMA Stutters == DiscoveryInv /\ UNCHANGED vars => DiscoveryInv'
BY InvUnchanged DEF DiscoveryInv, vars, gateway, TypeOK

(* The invariant is one.                                                   *)
THEOREM DiscoveryInvariant == Spec => []DiscoveryInv
<1>1. DiscoveryInv /\ [Next]_vars => DiscoveryInv'
  BY StepType, OtherType, NextInv, Stutters DEF DiscoveryInv
<1> QED BY InitInv, <1>1, PTL DEF Spec

(* The types of the requests, the services and the gateway's fields are    *)
(* kept, for any number of concurrent calls (getPeersStatus).              *)
THEOREM DiscoveryTypeCorrect == Spec => []TypeOK
<1>1. DiscoveryInv => TypeOK
  BY DEF DiscoveryInv
<1> QED BY DiscoveryInvariant, <1>1, PTL

(* However calls share and replace the discovery service, a peer said to   *)
(* be UP ran during the request (getDiscoveryResult).                      *)
THEOREM UpHasRunAlways == Spec => []UpHasRun
<1>1. DiscoveryInv => UpHasRun
  BY DEF DiscoveryInv, Inv, AnswerFits, UpHasRun
<1> QED BY DiscoveryInvariant, <1>1, PTL

(* An answer about the channel asked for has every peer UP that ran during *)
(* the whole request (getPeersStatus).                                     *)
THEOREM RunningIsUpAlways == Spec => []RunningIsUp
<1>1. DiscoveryInv => RunningIsUp
  BY DEF DiscoveryInv, Inv, AnswerFits, Linked, Answered, RunningIsUp, None
<1> QED BY DiscoveryInvariant, <1>1, PTL

-----------------------------------------------------------------------------
(* A call that no other crosses.                                           *)

(* The call finds its channel unless something fails.                      *)
Finds(i) ==
  /\ call[i].kind = "peers" /\ ~call[i].crossed
  /\ status /\ call[i].always # {} /\ n.fails = 0

Own(i) ==
  /\ ~call[i].crossed =>
       /\ call[i].result.channel \in {call[i].channel, None}
       /\ call[i].answer.height \in {call[i].channel, None}
       /\ call[i].at \in Asking => ds \in {i, None}
       /\ call[i].at \in Asking /\ ds = i => service[i].channel = call[i].channel
       /\ call[i].at = "sent" => call[i].sent = i /\ ds = i
  /\ Finds(i) =>
       /\ call[i].at \in Asking => ds = i
       /\ call[i].at = "results" => service[i].result.channel = call[i].channel
       /\ call[i].at = "answer" => call[i].result.channel = call[i].channel
       /\ call[i].at = "done" => call[i].answer.height = call[i].channel

OnlyOne == \A i, k \in Calls : Pending(i) /\ ~call[i].crossed /\ Pending(k) => k = i

ResultOf == \A i \in Calls : service[i].result.channel \in {service[i].channel, None}

AloneInv == OnlyOne /\ ResultOf /\ \A i \in Calls : Own(i)

(* What a step of call k leaves as it is.                                  *)
KeepsName(j) == call'[j].kind = call[j].kind /\ call'[j].crossed = call[j].crossed
StepOf(k) ==
  /\ \A j \in Calls : KeepsSpan(j) /\ KeepsName(j) /\ call'[j].channel = call[j].channel
  /\ \A j \in Calls \ {k} : KeepsAll(j) /\ call'[j].at = call[j].at
  /\ status' = status /\ (n'.fails = 0 => n.fails = 0)

(* A step of call k need only keep what concerns k: another call that is   *)
(* alone does not run.                                                     *)
LEMMA OwnStep ==
  ASSUME AloneInv, NEW k \in Calls, Pending(k), StepOf(k), call'[k].at # None,
         ResultOf', Own(k)'
  PROVE  AloneInv'
<1>1. \A j \in Calls : /\ Pending(j)' => Pending(j)
                       /\ call'[j].crossed = call[j].crossed
  BY DEF StepOf, KeepsAll, KeepsName, Pending
<1>2. OnlyOne'
  BY <1>1 DEF AloneInv, OnlyOne
<1>3. ASSUME NEW j \in Calls \ {k} PROVE Own(j)'
  <2>1. /\ call'[j].at = call[j].at /\ call'[j].result = call[j].result
        /\ call'[j].answer = call[j].answer /\ call'[j].channel = call[j].channel
        /\ call'[j].crossed = call[j].crossed
    BY DEF StepOf, KeepsAll, KeepsRest, KeepsName
  <2>2. Finds(j)' => Finds(j)
    BY DEF StepOf, KeepsName, KeepsSpan, Finds
  <2>3. ~call[j].crossed => call[j].at \in {None, "done"}
    BY DEF AloneInv, OnlyOne, Pending
  <2>4. Finds(j) => ~call[j].crossed
    BY DEF Finds
  <2>5. Own(j)
    BY DEF AloneInv
  <2> QED BY <2>1, <2>2, <2>3, <2>4, <2>5 DEF Own, Asking, None
<1> QED BY <1>2, <1>3 DEF AloneInv

(* Goes is such a step, and so are those that set another field.           *)
LEMMA IsStep ==
  ASSUME TypeOK, NEW k \in Calls, status' = status,
         UNCHANGED n \/ Fails \/ Interrupted \/ Works,
         \/ \E stage \in Stages : Goes(k, stage)
         \/ \E stage \in Stages, s \in Calls :
              call' = [call EXCEPT ![k].at = stage, ![k].sent = s]
         \/ \E stage \in Stages, r \in Result :
              call' = [call EXCEPT ![k].result = r, ![k].at = stage]
         \/ \E stage \in Stages, a \in Answers :
              call' = [call EXCEPT ![k].at = stage, ![k].answer = a]
  PROVE  StepOf(k)
<1>1. call \in [Calls -> Call] /\ n \in [changes : Nat, fails : Nat]
  BY DEF TypeOK
<1>2. n'.fails = 0 => n.fails = 0
  <2>1. CASE n' = [n EXCEPT !.fails = @ + 1]
    BY <1>1, <2>1
  <2> QED BY <2>1 DEF Fails, Interrupted, Works
<1>3. \A j \in Calls \ {k} : call'[j] = call[j]
  BY <1>1 DEF Goes
<1>4. KeepsSpan(k) /\ KeepsName(k) /\ call'[k].channel = call[k].channel
  <2>1. ASSUME NEW stage, Goes(k, stage)
        PROVE  KeepsSpan(k) /\ KeepsName(k) /\ call'[k].channel = call[k].channel
    <3>1. call'[k] = [call[k] EXCEPT !.at = stage]
      BY <1>1, <2>1 DEF Goes, Call
    <3> QED BY <1>1, <3>1 DEF Call, KeepsSpan, KeepsName
  <2>2. ASSUME NEW stage, NEW s, call' = [call EXCEPT ![k].at = stage, ![k].sent = s]
        PROVE  KeepsSpan(k) /\ KeepsName(k) /\ call'[k].channel = call[k].channel
    <3>1. call'[k] = [call[k] EXCEPT !.at = stage, !.sent = s]
      BY <1>1, <2>2 DEF Goes, Call
    <3> QED BY <1>1, <3>1 DEF Call, KeepsSpan, KeepsName
  <2>3. ASSUME NEW stage, NEW r, call' = [call EXCEPT ![k].result = r, ![k].at = stage]
        PROVE  KeepsSpan(k) /\ KeepsName(k) /\ call'[k].channel = call[k].channel
    <3>1. call'[k] = [call[k] EXCEPT !.result = r, !.at = stage]
      BY <1>1, <2>3 DEF Goes, Call
    <3> QED BY <1>1, <3>1 DEF Call, KeepsSpan, KeepsName
  <2>4. ASSUME NEW stage, NEW a, call' = [call EXCEPT ![k].at = stage, ![k].answer = a]
        PROVE  KeepsSpan(k) /\ KeepsName(k) /\ call'[k].channel = call[k].channel
    <3>1. call'[k] = [call[k] EXCEPT !.at = stage, !.answer = a]
      BY <1>1, <2>4 DEF Goes, Call
    <3> QED BY <1>1, <3>1 DEF Call, KeepsSpan, KeepsName
  <2> QED BY <2>1, <2>2, <2>3, <2>4
<1> QED BY <1>2, <1>3, <1>4 DEF StepOf, KeepsAll, KeepsRest, KeepsSpan, KeepsName

(* While a peer runs all the time, nothing fails but by a timeout.         *)
LEMMA NothingFails ==
  ASSUME TypeOK, Inv, NEW k \in Calls, Pending(k), Finds(k)', StepOf(k)
  PROVE  Finds(k) /\ ~Fails /\ ~Interrupted
<1>1. Finds(k)
  BY DEF StepOf, KeepsName, KeepsSpan, Finds
<1>2. live # {}
  BY <1>1 DEF Inv, Running, Finds
<1>3. ~Interrupted
  <2>1. n \in [changes : Nat, fails : Nat] /\ n'.fails = 0
    BY DEF TypeOK, Finds
  <2> QED BY <2>1 DEF Interrupted
<1> QED BY <1>1, <1>2, <1>3 DEF Fails

(* A step whose only effect on call k is its stage, none of it a result.   *)
LEMMA OwnGoes ==
  ASSUME DiscoveryInv, AloneInv, NEW k \in Calls, NEW stage \in Stages, Pending(k),
         Goes(k, stage), UNCHANGED <<status, service, live>>, ds' \in {ds, None},
         UNCHANGED n \/ Fails \/ Interrupted \/ Works, stage \notin {None, "sent"},
         stage \in Asking => call[k].at \in Asking \/ ds' = None,
         Finds(k) /\ ~Fails /\ ~Interrupted =>
           /\ stage \in Asking => call[k].at \in Asking /\ ds' = ds
           /\ stage = "results" => service[k].result.channel = call[k].channel
           /\ stage = "answer" => call[k].result.channel = call[k].channel
           /\ stage = "done" => call[k].answer.height = call[k].channel
  PROVE  AloneInv'
<1>0. TypeOK /\ Inv /\ Own(k)
  BY DEF DiscoveryInv, AloneInv
<1>1. StepOf(k)
  BY <1>0, IsStep
<1>2. /\ call'[k].at = stage /\ call'[k].result = call[k].result
      /\ call'[k].answer = call[k].answer /\ call'[k].channel = call[k].channel
      /\ call'[k].crossed = call[k].crossed
  BY <1>0, <1>1, GoesFields DEF StepOf, KeepsName, KeepsAll
<1>3. ResultOf'
  BY DEF AloneInv, ResultOf
<1>4. Finds(k)' => Finds(k) /\ ~Fails /\ ~Interrupted
  BY <1>0, <1>1, NothingFails
<1>5. Own(k)'
  <2>1. ~call[k].crossed =>
          /\ stage \in Asking => ds' \in {k, None}
          /\ stage \in Asking /\ ds' = k => service[k].channel = call[k].channel
    BY <1>0, DiscoveryAssumption DEF Own
  <2>2. Finds(k)' =>
          /\ stage \in Asking => ds' = k
          /\ stage = "results" => service[k].result.channel = call[k].channel
          /\ stage = "answer" => call[k].result.channel = call[k].channel
          /\ stage = "done" => call[k].answer.height = call[k].channel
    BY <1>0, <1>4 DEF Own
  <2> QED BY <1>0, <1>2, <2>1, <2>2 DEF Own
<1> QED BY <1>1, <1>2, <1>3, <1>5, OwnStep

(* The steps of a call keep it.                                            *)
LEMMA AloneStep ==
  ASSUME DiscoveryInv, AloneInv, NEW k \in Calls, Step(k), ~Unhandled
  PROVE  AloneInv'
<1>0. TypeOK /\ Inv /\ Own(k) /\ ResultOf /\ UNCHANGED <<status, listed, live>>
  BY DEF DiscoveryInv, AloneInv, Step, GetActiveOrderersList, GetPeerList,
         GetGenesisBlock, SetupDiscoveryRequest, GetDiscoveryServiceTarget,
         SendDiscoveryRequest, Discovered, GetDiscoveryResults, Answer
<1>a. k # None /\ (call[k].at # None => call[k].channel \in Channels /\ call[k].channel # None)
  BY <1>0, DiscoveryAssumption DEF Inv, Linked
<1>1. CASE GetActiveOrderersList(k)
  BY <1>0, <1>1, OwnGoes DEF GetActiveOrderersList, Stages, Pending, Asking, None
<1>2. CASE GetPeerList(k)
  <2>1. call[k].at = "peers" /\ UNCHANGED <<service, ds, n>>
    BY <1>2 DEF GetPeerList, gateway
  <2>2. PICK stage \in {"setup", "answer"} : Goes(k, stage) /\ (status => stage = "setup")
    BY <1>2 DEF GetPeerList
  <2> QED BY <1>0, <2>1, <2>2, OwnGoes DEF Stages, Pending, Asking, None, Finds
<1>3. CASE GetGenesisBlock(k)
  <2>1. call[k].at = "genesis" /\ UNCHANGED <<service, ds>> /\ Works
    BY <1>3 DEF GetGenesisBlock, Unhandled, gateway
  <2>2. PICK stage \in {"done", "setup"} :
          Goes(k, stage) /\ (stage = "done" => call[k].kind = "new")
    BY <1>3 DEF GetGenesisBlock
  <2> QED BY <1>0, <2>1, <2>2, OwnGoes DEF Stages, Pending, Asking, None, Finds
<1>4. CASE GetDiscoveryServiceTarget(k)
  <2>1. call[k].at = "targets" /\ UNCHANGED <<service, ds>> /\ (UNCHANGED n \/ Fails)
    BY <1>4 DEF GetDiscoveryServiceTarget, gateway
  <2>2. CASE Goes(k, "send")
    BY <1>0, <2>1, <2>2, OwnGoes DEF Stages, Pending, Asking, None
  <2>3. CASE Fails /\ WithoutResult(k)
    <3>1. PICK stage \in {"answer", "done"} : Goes(k, stage)
      BY <2>3 DEF WithoutResult
    <3> QED BY <1>0, <2>1, <2>3, <3>1, OwnGoes DEF Stages, Pending, Asking, None
  <2> QED BY <1>4, <2>2, <2>3 DEF GetDiscoveryServiceTarget
<1>5. CASE SetupDiscoveryRequest(k)
  <2>0. /\ call[k].at = "setup" /\ Goes(k, "targets") /\ Pending(k)
        /\ UNCHANGED n \/ Fails
    BY <1>5 DEF SetupDiscoveryRequest, Pending, None
  <2>1. CASE Fails /\ ds' = None /\ UNCHANGED service
    BY <1>0, <2>0, <2>1, OwnGoes DEF Stages, Asking, None
  <2>2. CASE ds' = k /\ service' = [service EXCEPT ![k].channel = call[k].channel]
    <3>1. StepOf(k)
      BY <1>0, <2>0, IsStep DEF Stages
    <3>2. /\ call'[k].at = "targets" /\ call'[k].result = call[k].result
          /\ call'[k].answer = call[k].answer /\ call'[k].channel = call[k].channel
          /\ call'[k].crossed = call[k].crossed
      BY <1>0, <2>0, <3>1, GoesFields DEF StepOf, KeepsName, KeepsAll
    <3>3. /\ \A j \in Calls \ {k} : service'[j] = service[j]
          /\ service'[k].channel = call[k].channel /\ service'[k].result = NoResult
      <4>1. service[k].result = NoResult
        BY <1>0, <2>0 DEF Inv, Fresh, Early
      <4> QED BY <1>0, <2>2, <4>1, CallSets DEF Service
    <3>4. ResultOf'
      BY <1>0, <3>3 DEF ResultOf, NoResult
    <3>5. Own(k)'
      BY <1>0, <2>2, <3>2, <3>3 DEF Own
    <3> QED BY <2>0, <3>1, <3>2, <3>4, <3>5, OwnStep DEF None
  <2> QED BY <1>5, <2>1, <2>2 DEF SetupDiscoveryRequest
<1>6. CASE SendDiscoveryRequest(k)
  <2>0. call[k].at = "send" /\ UNCHANGED <<service, ds, n>> /\ Pending(k)
    BY <1>6 DEF SendDiscoveryRequest, gateway, Pending, None
  <2>1. CASE ds = None /\ WithoutResult(k)
    <3>1. PICK stage \in {"answer", "done"} : Goes(k, stage)
      BY <2>1 DEF WithoutResult
    <3>2. ~Finds(k)
      BY <1>0, <1>a, <2>0, <2>1 DEF Own, Asking
    <3> QED BY <1>0, <2>0, <3>1, <3>2, OwnGoes DEF Stages, Asking, None
  <2>2. CASE ds # None /\ call' = [call EXCEPT ![k].at = "sent", ![k].sent = ds]
    <3>1. StepOf(k)
      <4>1. ds \in Calls /\ "sent" \in Stages
        BY <1>0, <2>2 DEF TypeOK, Stages
      <4> QED BY <1>0, <2>0, <2>2, <4>1, IsStep
    <3>2. /\ call'[k].at = "sent" /\ call'[k].result = call[k].result /\ call'[k].sent = ds
          /\ call'[k].answer = call[k].answer /\ call'[k].channel = call[k].channel
          /\ call'[k].crossed = call[k].crossed
      <4>1. call'[k].crossed = call[k].crossed /\ call'[k].channel = call[k].channel
        BY <3>1 DEF StepOf, KeepsName
      <4> QED BY <1>0, <2>2, <4>1, CallSets DEF Call
    <3>3. ResultOf'
      BY <1>0, <2>0 DEF ResultOf
    <3>4. Finds(k)' => Finds(k)
      BY <1>0, <2>0, <3>1, NothingFails
    <3>5. Own(k)'
      <4>1. ~call[k].crossed => ds = k
        BY <1>0, <2>0, <2>2 DEF Own, Asking
      <4>2. ds' = ds /\ service' = service /\ call[k].at \in Asking
        BY <2>0 DEF Asking
      <4> QED BY <1>0, <3>2, <3>4, <4>1, <4>2 DEF Own, Finds
    <3> QED BY <2>0, <3>1, <3>2, <3>3, <3>5, OwnStep DEF None
  <2> QED BY <1>6, <2>1, <2>2 DEF SendDiscoveryRequest
<1>7. CASE Discovered(k)
  <2> DEFINE s == call[k].sent
             r == [channel |-> service[s].channel,
                   peers |-> live \cap Joined[service[s].channel]]
  <2>0. /\ call[k].at = "sent" /\ Pending(k) /\ ds' = ds
        /\ s \in Calls /\ (Fails \/ Works)
    BY <1>0, <1>7, CallSets DEF Discovered, Pending, None, TypeOK, Call
  <2>1. CASE Fails /\ UNCHANGED service
    <3>1. PICK stage \in {"answer", "done", "results"} : Goes(k, stage)
      BY <1>7, <2>1 DEF Discovered, WithoutResult
    <3> QED BY <1>0, <2>0, <2>1, <3>1, OwnGoes DEF Stages, Asking, None
  <2>2. CASE Goes(k, "results") /\ service' = [service EXCEPT ![s].result = r]
    <3>1. StepOf(k)
      BY <1>0, <2>0, <2>2, IsStep DEF Stages
    <3>2. /\ call'[k].at = "results" /\ call'[k].result = call[k].result
          /\ call'[k].answer = call[k].answer /\ call'[k].channel = call[k].channel
          /\ call'[k].crossed = call[k].crossed
      BY <1>0, <2>2, <3>1, GoesFields DEF StepOf, KeepsName, KeepsAll
    <3>3. /\ \A j \in Calls : service'[j].channel = service[j].channel
          /\ \A j \in Calls \ {s} : service'[j].result = service[j].result
          /\ service'[s].result.channel = service[s].channel
      BY <1>0, <2>0, <2>2, CallSets DEF Service
    <3>4. ResultOf'
      BY <1>0, <3>3 DEF ResultOf
    <3>5. Finds(k)' => Finds(k)
      BY <1>0, <2>0, <3>1, NothingFails
    <3>6. Own(k)'
      <4>1. ~call[k].crossed => s = k /\ ds = k /\ service[k].channel = call[k].channel
        BY <1>0, <2>0 DEF Own, Asking
      <4> QED BY <1>0, <2>0, <3>2, <3>3, <3>5, <4>1 DEF Own, Finds
    <3> QED BY <2>0, <3>1, <3>2, <3>4, <3>6, OwnStep DEF None
  <2> QED BY <1>7, <2>1, <2>2 DEF Discovered
<1>8. CASE GetDiscoveryResults(k)
  <2>0. call[k].at = "results" /\ Pending(k) /\ UNCHANGED <<service, n>>
    BY <1>8 DEF GetDiscoveryResults, Pending, None
  <2>1. CASE (ds = None \/ service[ds].result = NoResult) /\ WithoutResult(k) /\ ds' = None
    <3>1. PICK stage \in {"answer", "done"} : Goes(k, stage)
      BY <2>1 DEF WithoutResult
    <3>2. ~Finds(k)
      <4>1. Finds(k) => ds = k /\ service[k].result.channel = call[k].channel
        BY <1>0, <2>0 DEF Own, Asking
      <4>2. call[k].channel # None
        BY <1>a, <2>0 DEF None
      <4> QED BY <1>a, <2>1, <4>1, <4>2 DEF NoResult
    <3> QED BY <1>0, <2>0, <2>1, <3>1, <3>2, OwnGoes DEF Stages, Asking, None
  <2>2. ASSUME NEW stage \in {"answer", "done"}, ds # None, UNCHANGED ds,
               call[k].kind = "peers" => stage = "answer",
               call' = [call EXCEPT ![k].result = service[ds].result, ![k].at = stage]
        PROVE  AloneInv'
    <3>0. stage \in Stages /\ ds \in Calls /\ service[ds].result \in Result
      BY <1>0, <2>2, CallSets DEF TypeOK, Stages, Service
    <3>1. StepOf(k)
      BY <1>0, <2>0, <2>2, <3>0, IsStep
    <3>2. /\ call'[k].at = stage /\ call'[k].result = service[ds].result
          /\ call'[k].answer = call[k].answer /\ call'[k].channel = call[k].channel
          /\ call'[k].crossed = call[k].crossed
      <4>1. call'[k].crossed = call[k].crossed /\ call'[k].channel = call[k].channel
        BY <3>1 DEF StepOf, KeepsName
      <4> QED BY <1>0, <2>2, <4>1, CallSets DEF Call
    <3>3. ResultOf'
      BY <1>0, <2>0 DEF ResultOf
    <3>4. Finds(k)' => Finds(k)
      BY <1>0, <2>0, <3>1, NothingFails
    <3>5. Own(k)'
      <4>1. ~call[k].crossed =>
              ds = k /\ service[ds].result.channel \in {call[k].channel, None}
        BY <1>0, <2>0, <2>2, <3>0 DEF Own, Asking, ResultOf
      <4>2. stage \notin Asking /\ stage # "sent" /\ stage # "results"
        BY DEF Asking
      <4>3. Finds(k) => stage = "answer" /\ service[ds].result.channel = call[k].channel
        BY <1>0, <2>0, <2>2, <4>1 DEF Own, Finds
      <4> QED BY <1>0, <3>2, <3>4, <4>1, <4>2, <4>3 DEF Own
    <3> QED BY <2>0, <3>1, <3>2, <3>3, <3>5, OwnStep DEF None
  <2> QED BY <1>8, <2>1, <2>2 DEF GetDiscoveryResults
<1>9. CASE Answer(k)
  <2>0. call[k].at = "answer" /\ Pending(k) /\ UNCHANGED <<service, n>>
    BY <1>9 DEF Answer, gateway, Pending, None
  <2> DEFINE a == PeersStatus(call[k].channel, call[k].result)
  <2>1. a \in Answers /\ "done" \in Stages /\ a.height = call[k].result.channel
    <3>1. call[k].channel \in Channels /\ call[k].result \in Result
      BY <1>0, <1>a, <2>0, CallSets DEF None, Call
    <3>2. Joined[call[k].channel] \subseteq Peers
      BY <3>1, DiscoveryAssumption
    <3>3. call[k].result.channel \in Channels \cup {None}
      BY <3>1 DEF Result, NoResult
    <3> QED BY <3>2, <3>3 DEF PeersStatus, Answers, Stages
  <2>2. call' = [call EXCEPT ![k].at = "done", ![k].answer = a]
    BY <1>9 DEF Answer
  <2> HIDE DEF a
  <2>3. StepOf(k)
    BY <1>0, <2>0, <2>1, <2>2, IsStep
  <2>4. /\ call'[k].at = "done" /\ call'[k].result = call[k].result /\ call'[k].answer = a
        /\ call'[k].channel = call[k].channel /\ call'[k].crossed = call[k].crossed
    <3>1. call'[k].crossed = call[k].crossed /\ call'[k].channel = call[k].channel
      BY <2>3 DEF StepOf, KeepsName
    <3> QED BY <1>0, <2>2, <3>1, CallSets DEF Call
  <2>5. ResultOf'
    BY <1>0, <2>0 DEF ResultOf
  <2>6. Finds(k)' => Finds(k)
    BY <1>0, <2>0, <2>3, NothingFails
  <2>7. Own(k)'
    BY <1>0, <2>0, <2>1, <2>4, <2>6 DEF Own, Asking
  <2> QED BY <2>0, <2>3, <2>4, <2>5, <2>7, OwnStep DEF None
<1> QED BY <1>1, <1>2, <1>3, <1>4, <1>5, <1>6, <1>7, <1>8, <1>9 DEF Step

(* Steps that change no call keep it.                                      *)
LEMMA AloneUnchanged ==
  ASSUME AloneInv, UNCHANGED <<call, service, ds, status>>, n'.fails = 0 => n.fails = 0
  PROVE  AloneInv'
<1>1. \A i \in Calls : Finds(i)' => Finds(i)
  BY DEF Finds
<1>2. OnlyOne' /\ ResultOf'
  BY DEF AloneInv, OnlyOne, ResultOf, Pending
<1>3. \A i \in Calls : Own(i)'
  BY <1>1 DEF AloneInv, Own
<1> QED BY <1>2, <1>3 DEF AloneInv

(* A call that begins crosses those that run, and is crossed by them.      *)
LEMMA AloneBegin ==
  ASSUME TypeOK, AloneInv, NEW i \in Calls, NEW kind, NEW c \in Channels,
         NEW stage \in Early \ {None}, Begin(i, kind, c, stage),
         UNCHANGED <<service, ds, status, n>>
  PROVE  AloneInv'
<1>1. call \in [Calls -> Call]
  BY CallSets
<1>2. \A j \in Calls \ {i} :
        /\ KeepsAll(j) /\ call'[j].at = call[j].at /\ call'[j].kind = call[j].kind
        /\ call'[j].crossed <=> (call[j].crossed \/ Pending(j))
  <2>1. ASSUME NEW j \in Calls \ {i}
        PROVE  call'[j] = [call[j] EXCEPT !.crossed = @ \/ Pending(j)]
    BY <1>1 DEF Begin
  <2>2. \A j \in Calls \ {i} : KeepsAll(j) /\ call'[j].at = call[j].at
    BY <1>1 DEF Begin, KeepsAll, KeepsRest, KeepsSpan, Call
  <2>4. \A j \in Calls \ {i} : call'[j].kind = call[j].kind
    BY <1>1, <2>1 DEF Call
  <2>3. \A j \in Calls \ {i} : call'[j].crossed = (call[j].crossed \/ Pending(j))
    BY <1>1, <2>1 DEF Call
  <2> QED BY <2>2, <2>3, <2>4
<1>3. /\ call'[i].at = stage /\ call'[i].channel = c
      /\ call'[i].result = NoResult /\ call'[i].answer = NoAnswer
      /\ call'[i].crossed <=> \E k \in Calls : Pending(k)
  BY DEF Begin, Idle
<1>4. OnlyOne'
  BY <1>2, <1>3 DEF OnlyOne, Pending
<1>5. ResultOf'
  BY DEF AloneInv, ResultOf
<1>6. Own(i)'
  <2>1. stage \notin Asking /\ stage # "answer" /\ stage # "done" /\ stage # "sent"
    BY DEF Early, Asking, None
  <2> QED BY <1>3, <2>1 DEF Own, NoResult, NoAnswer, Asking
<1>7. ASSUME NEW j \in Calls \ {i} PROVE Own(j)'
  <2>1. CASE Pending(j)
    BY <1>2, <2>1 DEF Own, Finds
  <2>2. CASE ~Pending(j)
    <3>1. Finds(j)' => Finds(j)
      BY <1>2 DEF Finds, KeepsAll, KeepsRest, KeepsSpan
    <3>2. call'[j].crossed <=> call[j].crossed
      BY <1>2, <2>2
    <3>3. call[j].at \notin Asking /\ call[j].at # "answer"
      BY <2>2 DEF Pending, Asking, None
    <3> QED BY <1>2, <3>1, <3>2, <3>3 DEF AloneInv, Own, KeepsAll, KeepsRest, Asking
  <2> QED BY <2>1, <2>2
<1> QED BY <1>4, <1>5, <1>6, <1>7 DEF AloneInv

(* The peers' coming and going changes nothing for it.                     *)
LEMMA AlonePeers ==
  ASSUME TypeOK, AloneInv, NEW s \in SUBSET Peers, PeersChange(s)
  PROVE  AloneInv'
<1>1. /\ call \in [Calls -> Call] /\ UNCHANGED <<service, ds, status>>
      /\ n'.fails = n.fails
  BY CallSets DEF PeersChange, gateway, TypeOK
<1>2. ASSUME NEW j \in Calls
      PROVE  /\ call'[j].at = call[j].at /\ call'[j].channel = call[j].channel
             /\ call'[j].sent = call[j].sent /\ call'[j].result = call[j].result
             /\ call'[j].answer = call[j].answer /\ call'[j].kind = call[j].kind
             /\ call'[j].always \subseteq call[j].always
  BY <1>1 DEF PeersChange, Call
<1>3. ASSUME NEW j \in Calls PROVE call'[j].crossed = call[j].crossed
  <2>1. call[j] \in Call /\ call'[j] \in {call[j],
          [call[j] EXCEPT !.seen = @ \cup s, !.always = @ \cap s]}
    BY <1>1 DEF PeersChange
  <2> QED BY <2>1 DEF Call
<1>4. OnlyOne' /\ ResultOf'
  BY <1>1, <1>2, <1>3 DEF AloneInv, OnlyOne, ResultOf, Pending
<1>5. ASSUME NEW j \in Calls PROVE Own(j)'
  <2>1. Finds(j)' => Finds(j)
    BY <1>1, <1>2, <1>3 DEF Finds
  <2> QED BY <1>1, <1>2, <1>3, <2>1 DEF AloneInv, Own
<1> QED BY <1>4, <1>5 DEF AloneInv

(* A call that is alone stays alone, or is told apart.                     *)
LEMMA AloneNext ==
  ASSUME DiscoveryInv, AloneInv, [Next]_vars
  PROVE  AloneInv'
<1>0. TypeOK
  BY DEF DiscoveryInv
<1>1. ASSUME Unhandled, status' = status, UNCHANGED n \/ Fails \/ Interrupted
      PROVE  AloneInv'
  <2>1. n \in [changes : Nat, fails : Nat]
    BY <1>0 DEF TypeOK
  <2>2. n'.fails = 0 => n.fails = 0
    BY <1>1, <2>1 DEF Fails, Interrupted
  <2> QED BY <1>1, <2>2, AloneUnchanged DEF Unhandled, gateway
<1>2. ASSUME NEW i \in Calls, Step(i) PROVE AloneInv'
  <2>1. CASE Unhandled
    <3>1. status' = status /\ (UNCHANGED n \/ Fails \/ Interrupted)
      BY <1>2, <2>1 DEF Step, GetActiveOrderersList, GetPeerList, GetGenesisBlock,
           SetupDiscoveryRequest, GetDiscoveryServiceTarget, SendDiscoveryRequest, Discovered,
           GetDiscoveryResults, Answer, Works
    <3> QED BY <1>1, <2>1, <3>1
  <2> QED BY <1>2, <2>1, AloneStep
<1>3. ASSUME NEW i \in Calls, NEW c \in Channels,
             GetPeersStatus(i, c) \/ InitializeNewChannel(i, c)
               \/ InitializeChannelFromDiscover(i, c)
      PROVE  AloneInv'
  <2>1. UNCHANGED <<status, n>>
    BY <1>3 DEF GetPeersStatus, InitializeNewChannel, InitializeChannelFromDiscover
  <2>2. CASE Unhandled
    BY <1>1, <2>1, <2>2
  <2>3. CASE ~Unhandled
    <3>1. UNCHANGED gateway
      BY <1>3, <2>3 DEF GetPeersStatus, InitializeNewChannel, InitializeChannelFromDiscover
    <3>2. PICK kind \in {"peers", "new", "update"}, stage \in {"orderers", "genesis", "setup"} :
            Begin(i, kind, c, stage)
      BY <1>3, <2>3 DEF GetPeersStatus, InitializeNewChannel, InitializeChannelFromDiscover
    <3>3. stage \in Early \ {None}
      BY DEF Early, None
    <3> QED BY <1>0, <2>1, <3>1, <3>2, <3>3, AloneBegin DEF gateway
  <2> QED BY <2>2, <2>3
<1>4. ASSUME NEW c \in Channels, Stored(c) PROVE AloneInv'
  BY <1>4, AloneUnchanged DEF Stored, gateway
<1>5. CASE UNCHANGED vars
  BY <1>5, AloneUnchanged DEF vars, gateway
<1> QED BY <1>0, <1>2, <1>3, <1>4, <1>5, AlonePeers DEF Next

(* A request that no other crosses is answered about its channel, and with *)
(* results if a peer ran all the time and nothing timed out, whatever the  *)
(* calls before it left behind (getPeersStatus, setupDiscoveryRequest).    *)
THEOREM AloneIsDiscoveredAlways == Spec => []AloneIsDiscovered
<1>1. Init => AloneInv
  <2> SUFFICES ASSUME Init PROVE AloneInv
    OBVIOUS
  <2>1. \A i \in Calls : call[i] = Idle /\ service[i] = [channel |-> None, result |-> NoResult]
    BY DEF Init
  <2>2. OnlyOne /\ ResultOf
    BY <2>1 DEF OnlyOne, ResultOf, Pending, Idle, NoResult
  <2>3. \A i \in Calls : Own(i)
    BY <2>1 DEF Own, Finds, Idle, NoResult, NoAnswer, Asking, None
  <2> QED BY <2>2, <2>3 DEF AloneInv
<1>2. AloneInv => AloneIsDiscovered
  BY DEF AloneInv, Own, Finds, AloneIsDiscovered, Answered
<1> QED BY DiscoveryInvariant, AloneNext, <1>1, <1>2, PTL DEF Spec

=============================================================================
