------------------------ MODULE ChannelResponsesProofs ------------------------
(***************************************************************************)
(* Proofs about ChannelResponses, for any requests, proposals of any       *)
(* number of chunks, messages and calls, and whatever fails: ResponsesInv  *)
(* is inductive, and what the runs check follows from it.                  *)
(***************************************************************************)
EXTENDS ChannelResponses, FiniteSetTheorems, WellFoundedInduction, TLAPS

USE NoneAssumption, TimeAssumption

\* What the handler of a call knows: a claim of its own once it passed the checks before it,
\* and a message that was accepted and that the checked turn received.
Handler(c, m) ==
    /\ m.at = "idle" => m = NoCall /\ c \notin handed
    /\ m.at # "idle" => m.request \in Requests /\ m.answer \in Answer
    /\ m.at \notin {"fails", "done"} => m.result = "none"
    /\ m.at = "fails" => m.result # "accepted"
    /\ m.at \in {"waits", "marks", "marked", "fails"} => m.pass = 2
    /\ m.at \in {"turn", "pending", "claims"} => source[m.answer.of].accepted
    /\ m.at \in {"pending", "claims"} \/ m.pass = 2 => ~m.answer.wake
    /\ m.pass = 2 => /\ m.at \notin {"idle", "claims"}
                     /\ claim[m.request] # None /\ claim[m.request].answer = m.answer
    /\ m.at \in {"marks", "marked"} => c \in taken
    /\ m.at = "done" /\ m.result = "accepted" =>
         \E t \in taken : call[t].request = m.request /\ call[t].answer = m.answer
    /\ c \in handed => /\ m.pass = 2 /\ m.at \in {"waits", "marks", "marked", "fails", "done"}
                       /\ m.result # "rejected"

\* The claim of a request was made by one call.
ClaimantsInv ==
    \A c, d \in Calls : call[c].pass = 2 /\ call[d].pass = 2 /\ call[c].request = call[d].request
        => c = d

\* A message whose row is accepted had started a turn, and was sent.
SourceInv ==
    \A m \in Messages : /\ source[m].accepted => source[m].started
                        /\ source[m].started => source[m].at # None

\* What Eve settled, and what a claim says, is the response of a call that holds the claim.
SettledInv ==
    \A r \in Requests :
        /\ request[r] \in Decision => claim[r] # None /\ claim[r].answer.decision = request[r]
        /\ claim[r] # None => (claim[r].status = "accepted" =>
              \E t \in taken : call[t].request = r /\ call[t].answer = claim[r].answer)

ResponsesInv ==
    /\ ResponsesTypeOK /\ SourceInv /\ ClaimantsInv /\ SettledInv /\ DisclosedBeforeDecided
    /\ \A c \in Calls : Handler(c, call[c])

-----------------------------------------------------------------------------
\* The latest of some times is one of them, and none is later.
LEMMA LatestIsLast ==
  ASSUME NEW S \in SUBSET (0..MaxTime), S # {}
  PROVE  Max(S) \in S /\ \A x \in S : x <= Max(S)
<1> DEFINE Left == {MaxTime - x : x \in S}
<1>0. \A x \in S : x \in Nat /\ MaxTime - x \in Nat /\ MaxTime - x \in Left
  OBVIOUS
<1>1. Left \subseteq Nat /\ Left # {}
  BY <1>0
<1>2. PICK n \in Left : \A m \in Left : ~(<<m, n>> \in OpToRel(<, Nat))
  BY <1>1, NatLessThanWellFounded, WFMin
<1>3. \A m \in Left : ~(m < n)
  BY <1>1, <1>2 DEF OpToRel
<1>4. PICK x \in S : n = MaxTime - x
  OBVIOUS
<1>5. ASSUME NEW y \in S PROVE x >= y
  <2>1. ~(MaxTime - y < MaxTime - x)
    BY <1>0, <1>3, <1>4
  <2> QED
    BY <1>0, <2>1
<1>6. Max(S) \in S /\ \A y \in S : Max(S) >= y
  BY <1>5 DEF Max
<1> QED
  BY <1>6

\* A proposal is disclosed when each of its chunks was sent before the message.
LEMMA DisclosedMeans ==
  ASSUME ResponsesTypeOK, NEW r \in Requests, NEW m \in Messages, Disclosed(r, m),
         source[m].at # None
  PROVE  \A k \in Chunks : sent[r][k] # None /\ sent[r][k] < source[m].at
<1> SUFFICES ASSUME NEW k \in Chunks PROVE sent[r][k] # None /\ sent[r][k] < source[m].at
  OBVIOUS
<1> DEFINE S == {sent[r][j] : j \in Chunks}
<1>1. \A j \in Chunks : sent[r][j] # None /\ sent[r][j] \in (0..MaxTime) \cup {None}
  BY DEF Disclosed, ResponsesTypeOK
<1>2. S \in SUBSET (0..MaxTime) /\ S # {} /\ sent[r][k] \in S
  BY <1>1
<1>3. Max(S) \in S /\ sent[r][k] <= Max(S)
  BY <1>2, LatestIsLast
<1>4. Max(S) < source[m].at /\ source[m].at \in 0..MaxTime
  BY DEF Disclosed, ResponsesTypeOK
<1> QED
  BY <1>1, <1>2, <1>3, <1>4

\* Nothing is claimed, handed over or settled in the beginning.
LEMMA InitResponses == ResponsesInit => ResponsesInv
<1> SUFFICES ASSUME ResponsesInit PROVE ResponsesInv
  OBVIOUS
<1>1. NoCall \in Call
  BY DEF NoCall, Call
<1>2. ResponsesTypeOK
  BY <1>1 DEF ResponsesInit, ResponsesTypeOK
<1>3. SourceInv /\ SettledInv /\ DisclosedBeforeDecided
  BY DEF ResponsesInit, SourceInv, SettledInv, DisclosedBeforeDecided, Decision
<1>4. \A c \in Calls : call[c].pass # 2 /\ Handler(c, call[c])
  BY DEF ResponsesInit, NoCall, Handler
<1>5. ClaimantsInv
  BY <1>4 DEF ClaimantsInv
<1> QED
  BY <1>2, <1>3, <1>4, <1>5 DEF ResponsesInv

\* The steps of the session, the provider and the person: what was sent, accepted or decided
\* by a claim stays so.
LEMMA WorldPreserves ==
  ASSUME ResponsesInv, ResponsesTypeOK', SourceInv', UNCHANGED <<claim, call, flight, handed, taken>>,
         \A r \in Requests : request'[r] \in Decision => request'[r] = request[r],
         \A m \in Messages : /\ source[m].accepted => source'[m].accepted
                             /\ source[m].at # None => source'[m].at = source[m].at,
         \A r \in Requests, k \in Chunks : sent[r][k] # None => sent'[r][k] = sent[r][k]
  PROVE  ResponsesInv'
<1>0. /\ ResponsesTypeOK /\ SourceInv /\ ClaimantsInv /\ SettledInv /\ DisclosedBeforeDecided
      /\ \A c \in Calls : Handler(c, call[c])
  BY DEF ResponsesInv
<1>1. \A c \in Calls : /\ call[c].at # "idle" => call[c].request \in Requests /\ call[c].answer \in Answer
                       /\ c \in handed => call[c].at # "idle"
  BY <1>0 DEF Handler
<1>2. ClaimantsInv'
  BY <1>0 DEF ClaimantsInv
<1>3. SettledInv'
  BY <1>0 DEF SettledInv
<1>4. DisclosedBeforeDecided'
  <2> SUFFICES ASSUME NEW c \in handed
               PROVE  LET a == call[c].answer  r == call[c].request
                      IN /\ ~a.wake /\ source'[a.of].accepted
                         /\ \A k \in Chunks : sent'[r][k] # None /\ sent'[r][k] < source'[a.of].at
    BY <1>0 DEF DisclosedBeforeDecided
  <2> DEFINE a == call[c].answer  r == call[c].request
  <2>1. c \in Calls /\ r \in Requests /\ a.of \in Messages
    BY <1>0, <1>1 DEF ResponsesTypeOK, Answer
  <2>2. /\ ~a.wake /\ source[a.of].accepted
        /\ \A k \in Chunks : sent[r][k] # None /\ sent[r][k] < source[a.of].at
    BY <1>0 DEF DisclosedBeforeDecided
  <2>3. source[a.of].at # None
    BY <1>0, <2>1, <2>2 DEF SourceInv
  <2> QED
    BY <2>1, <2>2, <2>3
<1>5. ASSUME NEW c \in Calls PROVE Handler(c, call[c])'
  <2>1. call[c].at \in {"turn", "pending", "claims"} => source'[call[c].answer.of].accepted
    BY <1>0, <1>1 DEF Handler, Answer
  <2> QED
    BY <1>0, <2>1 DEF Handler
<1> QED
  BY <1>0, <1>2, <1>3, <1>4, <1>5 DEF ResponsesInv

\* A call that goes on: its request, its answer and its claim are what they were, what it hands
\* over it may, and what it writes to its claim is true.
LEMMA CallPreserves ==
  ASSUME ResponsesInv, NEW c \in Calls, NEW m \in Call, call' = [call EXCEPT ![c] = m],
         call[c].at # "idle",
         m.request = call[c].request, m.answer = call[c].answer, m.pass = call[c].pass,
         UNCHANGED <<active, now, sent, request, source, turn>>,
         \/ claim' = claim
         \/ m.pass = 2 /\ claim' = [claim EXCEPT ![m.request].status = "uncertain"]
         \/ m.pass = 2 /\ claim' = [claim EXCEPT ![m.request].status = "accepted"] /\ c \in taken,
         handed' \in {handed, handed \cup {c}}, taken' \in {taken, taken \cup {c}},
         taken' \subseteq handed', flight' \subseteq handed',
         Handler(c, call[c])',
         c \in handed' => c \in handed \/ ( /\ ~m.answer.wake /\ source[m.answer.of].accepted
                                            /\ Disclosed(m.request, m.answer.of))
  PROVE  ResponsesInv'
<1>0. /\ ResponsesTypeOK /\ SourceInv /\ ClaimantsInv /\ SettledInv /\ DisclosedBeforeDecided
      /\ \A d \in Calls : Handler(d, call[d])
  BY DEF ResponsesInv
<1>1. /\ call' \in [Calls -> Call] /\ call'[c] = m
      /\ \A d \in Calls : d # c => call'[d] = call[d]
      /\ \A d \in Calls : call'[d].request = call[d].request /\ call'[d].answer = call[d].answer
                          /\ call'[d].pass = call[d].pass
  BY <1>0 DEF ResponsesTypeOK
<1>2. m.request \in Requests /\ m.answer \in Answer
  BY <1>0 DEF Handler
<1>3. /\ claim' \in [Requests -> Claim \cup {None}]
      /\ \A r \in Requests :
           /\ claim[r] = None => claim'[r] = None
           /\ claim[r] # None => /\ claim'[r] # None /\ claim'[r].answer = claim[r].answer
                                 /\ \/ claim'[r].status = claim[r].status
                                    \/ r = m.request /\ m.pass = 2
                                       /\ (claim'[r].status = "accepted" => c \in taken)
  <2>1. CASE claim' = claim
    BY <1>0, <2>1 DEF ResponsesTypeOK
  <2>2. CASE claim' # claim
    <3>s. PICK status \in {"accepted", "uncertain"} :
             /\ m.pass = 2 /\ claim' = [claim EXCEPT ![m.request].status = status]
             /\ status = "accepted" => c \in taken
      BY <2>2
    <3>0. claim[m.request] # None
      <4>1. Handler(c, call[c]) /\ call[c].pass = 2
        BY <1>0, <3>s
      <4>2. claim[call[c].request] # None
        BY <4>1 DEF Handler
      <4> QED
        BY <4>2
    <3>1. claim[m.request] \in Claim /\ claim[m.request] # None
      BY <1>0, <1>2, <3>0 DEF ResponsesTypeOK
    <3>2. /\ [claim[m.request] EXCEPT !.status = status] \in Claim
          /\ [claim[m.request] EXCEPT !.status = status].answer = claim[m.request].answer
          /\ [claim[m.request] EXCEPT !.status = status].status = status
      BY <3>1 DEF Claim
    <3> QED
      BY <1>0, <1>2, <3>s, <3>1, <3>2 DEF ResponsesTypeOK
  <2> QED
    BY <2>1, <2>2
<1>4. ResponsesTypeOK'
  BY <1>0, <1>1, <1>3 DEF ResponsesTypeOK
<1>5. SourceInv'
  BY <1>0 DEF SourceInv
<1>6. ClaimantsInv'
  BY <1>0, <1>1 DEF ClaimantsInv
<1>7. \A t \in taken : t \in Calls /\ t \in taken'
  BY <1>0 DEF ResponsesTypeOK
<1>8. SettledInv'
  <2> SUFFICES ASSUME NEW r \in Requests
               PROVE  /\ request'[r] \in Decision => claim'[r] # None /\ claim'[r].answer.decision = request'[r]
                      /\ claim'[r] # None => (claim'[r].status = "accepted" =>
                           \E t \in taken' : call'[t].request = r /\ call'[t].answer = claim'[r].answer)
    BY DEF SettledInv
  <2>1. request'[r] \in Decision => claim'[r] # None /\ claim'[r].answer.decision = request'[r]
    BY <1>0, <1>3 DEF SettledInv
  <2>2. ASSUME claim'[r] # None, claim'[r].status = "accepted"
        PROVE  \E t \in taken' : call'[t].request = r /\ call'[t].answer = claim'[r].answer
    <3>1. CASE claim[r].status = "accepted"
      BY <1>0, <1>1, <1>3, <1>7, <2>2, <3>1 DEF SettledInv
    <3>2. CASE claim[r].status # "accepted"
      <4>1. r = m.request /\ m.pass = 2 /\ c \in taken /\ claim'[r].answer = claim[r].answer
        BY <1>3, <2>2, <3>2
      <4>2. claim[r].answer = m.answer
        BY <1>0, <4>1 DEF Handler
      <4> QED
        BY <1>1, <1>7, <4>1, <4>2
    <3> QED
      BY <3>1, <3>2
  <2> QED
    BY <2>1, <2>2
<1>9. DisclosedBeforeDecided'
  <2> SUFFICES ASSUME NEW d \in handed'
               PROVE  LET a == call'[d].answer  r == call'[d].request
                      IN /\ ~a.wake /\ source[a.of].accepted
                         /\ \A k \in Chunks : sent[r][k] # None /\ sent[r][k] < source[a.of].at
    BY DEF DisclosedBeforeDecided
  <2>1. CASE d \in handed
    BY <1>0, <1>1, <2>1 DEF DisclosedBeforeDecided, ResponsesTypeOK
  <2>2. CASE d \notin handed
    <3>1. d = c /\ ~m.answer.wake /\ source[m.answer.of].accepted /\ Disclosed(m.request, m.answer.of)
      BY <2>2
    <3>2. m.answer.of \in Messages /\ source[m.answer.of].at # None
      BY <1>0, <1>2, <3>1 DEF SourceInv, Answer
    <3> QED
      BY <1>0, <1>1, <1>2, <3>1, <3>2, DisclosedMeans
  <2> QED
    BY <2>1, <2>2
<1>10. ASSUME NEW d \in Calls PROVE Handler(d, call[d])'
  <2>1. CASE d = c
    BY <2>1
  <2>2. CASE d # c
    <3>1. Handler(d, call[d]) /\ call'[d] = call[d] /\ (d \in handed' <=> d \in handed)
      BY <1>0, <1>1, <2>2
    <3>2. call[d].at = "done" /\ call[d].result = "accepted" =>
            \E t \in taken' : call'[t].request = call[d].request /\ call'[t].answer = call[d].answer
      BY <1>1, <1>7, <3>1 DEF Handler
    <3>3. call[d].pass = 2 => /\ claim'[call[d].request] # None
                              /\ claim'[call[d].request].answer = call[d].answer
      BY <1>3, <3>1 DEF Handler
    <3> QED
      BY <1>7, <3>1, <3>2, <3>3 DEF Handler
  <2> QED
    BY <2>1, <2>2
<1> QED
  BY <1>4, <1>5, <1>6, <1>8, <1>9, <1>10 DEF ResponsesInv

-----------------------------------------------------------------------------
\* The steps that are no handler's.
LEMMA SessionPreserves == ASSUME ResponsesInv, World PROVE ResponsesInv'
<1>0. ResponsesTypeOK /\ SourceInv
  BY DEF ResponsesInv
<1>1. UNCHANGED <<claim, call, flight, handed, taken>>
  BY DEF World, Native, Tick, Rests, Revokes, Asks, Elsewhere, Delivers, Says, Starts, Accepts, Wakes
<1>2. /\ active' \in BOOLEAN /\ now' \in 0..MaxTime
      /\ turn' \in Turn \cup {None}
  <2>1. active' \in {active, FALSE} /\ (now' = now \/ (now < MaxTime /\ now' = now + 1))
    BY DEF World, Tick, Rests, Revokes, Asks, Elsewhere, Delivers, Says, Starts, Accepts, Wakes
  <2>2. turn' \in {turn, None} \/ \E m \in Messages, w \in BOOLEAN : turn' = [of |-> m, wake |-> w]
    BY DEF World, Tick, Rests, Revokes, Asks, Elsewhere, Delivers, Says, Starts, Accepts, Wakes
  <2>3. turn' \in Turn \cup {None}
    BY <1>0, <2>2 DEF ResponsesTypeOK, Turn
  <2>4. active \in BOOLEAN /\ now \in 0..MaxTime
    BY <1>0 DEF ResponsesTypeOK
  <2>5. now' \in 0..MaxTime
    BY <2>1, <2>4
  <2>6. active' \in BOOLEAN
    BY <2>1, <2>4
  <2> QED
    BY <2>3, <2>5, <2>6
<1>3. /\ request' \in [Requests -> {"none", "pending", "approve", "cancel", "other"}]
      /\ \A r \in Requests : request'[r] \in Decision => request'[r] = request[r]
  <2>1. CASE UNCHANGED request
    BY <1>0, <2>1 DEF ResponsesTypeOK
  <2>2. CASE \E r \in Requests, s \in {"pending", "other"} : request' = [request EXCEPT ![r] = s]
    BY <1>0, <2>2 DEF ResponsesTypeOK, Decision
  <2> QED
    BY <2>1, <2>2 DEF World, Tick, Rests, Revokes, Asks, Elsewhere, Delivers, Says, Starts, Accepts, Wakes
<1>4. /\ sent' \in [Requests -> [Chunks -> (0..MaxTime) \cup {None}]]
      /\ \A r \in Requests, k \in Chunks : sent[r][k] # None => sent'[r][k] = sent[r][k]
  <2>1. CASE UNCHANGED sent
    BY <1>0, <2>1 DEF ResponsesTypeOK
  <2>2. ASSUME NEW r \in Requests, NEW k \in Chunks, Delivers(r, k)
        PROVE  /\ sent' \in [Requests -> [Chunks -> (0..MaxTime) \cup {None}]]
               /\ \A q \in Requests, j \in Chunks : sent[q][j] # None => sent'[q][j] = sent[q][j]
    BY <1>0, <2>2 DEF ResponsesTypeOK, Delivers
  <2> QED
    BY <2>1, <2>2 DEF World, Tick, Rests, Revokes, Asks, Elsewhere, Says, Starts, Accepts, Wakes
<1>5. /\ source' \in [Messages -> [at : (0..MaxTime) \cup {None}, started : BOOLEAN, accepted : BOOLEAN]]
      /\ SourceInv'
      /\ \A m \in Messages : /\ source[m].accepted => source'[m].accepted
                             /\ source[m].at # None => source'[m].at = source[m].at
  <2>1. CASE UNCHANGED source
    BY <1>0, <2>1 DEF ResponsesTypeOK, SourceInv
  <2> DEFINE Row == [at : (0..MaxTime) \cup {None}, started : BOOLEAN, accepted : BOOLEAN]
  <2>2. ASSUME NEW m \in Messages, NEW row \in Row, source' = [source EXCEPT ![m] = row],
               row.accepted => row.started, row.started => row.at # None,
               source[m].accepted => row.accepted, source[m].at # None => row.at = source[m].at
        PROVE  /\ source' \in [Messages -> Row]
               /\ SourceInv'
               /\ \A n \in Messages : /\ source[n].accepted => source'[n].accepted
                                      /\ source[n].at # None => source'[n].at = source[n].at
    <3>1. /\ source' \in [Messages -> Row] /\ source'[m] = row
          /\ \A n \in Messages : n # m => source'[n] = source[n]
      BY <1>0, <2>2 DEF ResponsesTypeOK
    <3> QED
      BY <1>0, <2>2, <3>1 DEF SourceInv
  <2>3. ASSUME NEW m \in Messages PROVE source[m] \in Row /\ now \in 0..MaxTime
    BY <1>0 DEF ResponsesTypeOK
  <2>4. ASSUME NEW m \in Messages, Says(m)
        PROVE  /\ source' = [source EXCEPT ![m] = [source[m] EXCEPT !.at = now]]
               /\ [source[m] EXCEPT !.at = now] \in Row /\ source[m].at = None
               /\ ~source[m].started /\ ~source[m].accepted
    BY <1>0, <2>3, <2>4 DEF Says, SourceInv
  <2>5. ASSUME NEW m \in Messages, Starts(m)
        PROVE  /\ source' = [source EXCEPT ![m] = [source[m] EXCEPT !.started = TRUE]]
               /\ [source[m] EXCEPT !.started = TRUE] \in Row /\ source[m].at # None
    BY <2>3, <2>5 DEF Starts
  <2>6. ASSUME NEW m \in Messages, Accepts(m)
        PROVE  /\ source' = [source EXCEPT ![m] = [source[m] EXCEPT !.accepted = TRUE]]
               /\ [source[m] EXCEPT !.accepted = TRUE] \in Row /\ source[m].started /\ source[m].at # None
    BY <1>0, <2>3, <2>6 DEF Accepts, SourceInv
  <2>7. ASSUME NEW m \in Messages, Says(m) \/ Starts(m) \/ Accepts(m)
        PROVE  /\ source' \in [Messages -> Row]
               /\ SourceInv'
               /\ \A n \in Messages : /\ source[n].accepted => source'[n].accepted
                                      /\ source[n].at # None => source'[n].at = source[n].at
    <3>1. CASE Says(m)
      <4> DEFINE row == [source[m] EXCEPT !.at = now]
      <4>1. row \in Row /\ row.started = source[m].started /\ row.accepted = source[m].accepted
        BY <2>3
      <4> QED
        BY <2>2, <2>4, <3>1, <4>1
    <3>2. CASE Starts(m)
      <4> DEFINE row == [source[m] EXCEPT !.started = TRUE]
      <4>1. row \in Row /\ row.started /\ row.accepted = source[m].accepted /\ row.at = source[m].at
        BY <2>3
      <4> QED
        BY <2>2, <2>5, <3>2, <4>1
    <3>3. CASE Accepts(m)
      <4> DEFINE row == [source[m] EXCEPT !.accepted = TRUE]
      <4>1. row \in Row /\ row.started = source[m].started /\ row.accepted /\ row.at = source[m].at
        BY <2>3
      <4> QED
        BY <2>2, <2>6, <3>3, <4>1
    <3> QED
      BY <2>7, <3>1, <3>2, <3>3
  <2> HIDE DEF Row
  <2> QED
    BY <2>1, <2>7 DEF World, Tick, Rests, Revokes, Asks, Elsewhere, Delivers, Wakes, Row
<1>6. ResponsesTypeOK'
  BY <1>0, <1>1, <1>2, <1>3, <1>4, <1>5 DEF ResponsesTypeOK
<1> QED
  BY <1>1, <1>3, <1>4, <1>5, <1>6, WorldPreserves

\* Eve settles a request as a response says that it took, which its claim says too.
LEMMA ConsumesPreserves == ASSUME ResponsesInv, NEW c \in Calls, Consumes(c) PROVE ResponsesInv'
<1>0. /\ ResponsesTypeOK /\ SourceInv /\ ClaimantsInv /\ SettledInv /\ DisclosedBeforeDecided
      /\ \A d \in Calls : Handler(d, call[d])
  BY DEF ResponsesInv
<1> DEFINE r == call[c].request
<1>1. /\ c \in handed /\ request' = [request EXCEPT ![r] = call[c].answer.decision]
      /\ UNCHANGED <<active, now, sent, source, turn, claim, call, flight, handed, taken>>
  BY <1>0 DEF Consumes, Native, ResponsesTypeOK
<1>2. call[c].pass = 2 /\ call[c].at # "idle"
  BY <1>0, <1>1 DEF Handler
<1>3. /\ r \in Requests /\ call[c].answer.decision \in Decision
      /\ claim[r] # None /\ claim[r].answer = call[c].answer
  BY <1>0, <1>2 DEF Handler, Answer
<1>4. request' \in [Requests -> {"none", "pending", "approve", "cancel", "other"}]
  BY <1>0, <1>1, <1>3 DEF ResponsesTypeOK, Decision
<1>5. ResponsesTypeOK'
  BY <1>0, <1>1, <1>4 DEF ResponsesTypeOK
<1>6. SettledInv'
  BY <1>0, <1>1, <1>3 DEF SettledInv, ResponsesTypeOK
<1>7. SourceInv' /\ ClaimantsInv' /\ DisclosedBeforeDecided'
  BY <1>0, <1>1 DEF SourceInv, ClaimantsInv, DisclosedBeforeDecided
<1>8. \A d \in Calls : Handler(d, call[d])'
  BY <1>0, <1>1 DEF Handler
<1> QED
  BY <1>5, <1>6, <1>7, <1>8 DEF ResponsesInv

\* A call begins with the message whose turn runs.
LEMMA BeginsPreserves ==
  ASSUME ResponsesInv, NEW c \in Calls, NEW r \in Requests, NEW d \in Decision, Begins(c, r, d)
  PROVE  ResponsesInv'
<1>0. /\ ResponsesTypeOK /\ SourceInv /\ ClaimantsInv /\ SettledInv /\ DisclosedBeforeDecided
      /\ \A b \in Calls : Handler(b, call[b])
  BY DEF ResponsesInv
<1> DEFINE m == [NoCall EXCEPT !.at = "context", !.request = r,
                  !.answer = [of |-> turn.of, wake |-> turn.wake, decision |-> d]]
<1>1. /\ call[c].at = "idle" /\ turn # None /\ call' = [call EXCEPT ![c] = m]
      /\ UNCHANGED <<active, now, sent, request, source, turn, taken, claim, flight, handed>>
  BY DEF Begins, nativeVars
<1>2. /\ m \in Call /\ m.at = "context" /\ m.pass = 1 /\ m.request = r /\ m.result = "none"
      /\ m.answer \in Answer
  <2>1. turn \in Turn
    BY <1>0, <1>1 DEF ResponsesTypeOK
  <2>2. [of |-> turn.of, wake |-> turn.wake, decision |-> d] \in Answer
    BY <2>1 DEF Turn, Answer
  <2> QED
    BY <2>2 DEF NoCall, Call
<1>3. c \notin handed /\ c \notin taken /\ call[c] = NoCall
  BY <1>0, <1>1 DEF Handler, ResponsesTypeOK
<1> HIDE DEF m
<1>4. /\ call' \in [Calls -> Call] /\ call'[c] = m
      /\ \A b \in Calls : b # c => call'[b] = call[b]
  BY <1>0, <1>1, <1>2 DEF ResponsesTypeOK
<1>5. ResponsesTypeOK'
  BY <1>0, <1>1, <1>4 DEF ResponsesTypeOK
<1>6. SourceInv'
  BY <1>0, <1>1 DEF SourceInv
<1>7. ClaimantsInv'
  BY <1>0, <1>2, <1>4 DEF ClaimantsInv
<1>8. \A t \in taken : t \in Calls /\ t # c
  BY <1>0, <1>3 DEF ResponsesTypeOK
<1>9. SettledInv'
  BY <1>0, <1>1, <1>4, <1>8 DEF SettledInv
<1>10. DisclosedBeforeDecided'
  BY <1>0, <1>1, <1>3, <1>4 DEF DisclosedBeforeDecided, ResponsesTypeOK
<1>11. ASSUME NEW b \in Calls PROVE Handler(b, call[b])'
  <2>1. CASE b = c
    BY <1>1, <1>2, <1>3, <1>4, <2>1 DEF Handler
  <2>2. CASE b # c
    <3>1. Handler(b, call[b]) /\ call'[b] = call[b]
      BY <1>0, <1>4, <2>2
    <3> QED
      BY <1>1, <1>4, <1>8, <3>1 DEF Handler
  <2> QED
    BY <2>1, <2>2
<1> QED
  BY <1>5, <1>6, <1>7, <1>9, <1>10, <1>11 DEF ResponsesInv

\* A call that moves, or ends with a result, and writes nothing else: "accepted" needs a response
\* that Eve took, "rejected" needs that nothing was handed over, and every place what its
\* handler knows there.
LEMMA MovePreserves ==
  ASSUME ResponsesInv, NEW c \in Calls, call[c].at # "idle",
         NEW place \in {"turn", "pending", "claims", "fails", "done"},
         NEW result \in {"none", "accepted", "rejected", "uncertain"},
         call' = [call EXCEPT ![c] = [call[c] EXCEPT !.at = place, !.result = result]],
         UNCHANGED <<active, now, sent, request, source, turn, claim, flight, handed, taken>>,
         place \notin {"fails", "done"} => result = "none" /\ c \notin handed,
         place = "fails" => call[c].pass = 2 /\ result # "accepted",
         place \in {"turn", "pending", "claims"} => source[call[c].answer.of].accepted,
         place \in {"pending", "claims"} => ~call[c].answer.wake,
         place = "claims" => call[c].pass = 1,
         place = "done" /\ result = "accepted" =>
           \E t \in taken : call[t].request = call[c].request /\ call[t].answer = call[c].answer,
         result = "rejected" => c \notin handed
  PROVE  ResponsesInv'
<1> DEFINE m == [call[c] EXCEPT !.at = place, !.result = result]
<1>0. /\ ResponsesTypeOK /\ \A d \in Calls : Handler(d, call[d])
  BY DEF ResponsesInv
<1>1. call[c] \in Call /\ Handler(c, call[c])
  BY <1>0 DEF ResponsesTypeOK
<1>2. /\ m \in Call /\ m.at = place /\ m.result = result /\ m.request = call[c].request
      /\ m.answer = call[c].answer /\ m.pass = call[c].pass
  BY <1>1 DEF Call
<1>3. /\ call' = [call EXCEPT ![c] = m] /\ taken \subseteq handed /\ flight \subseteq handed
      /\ handed \subseteq Calls
  BY <1>0 DEF ResponsesTypeOK
<1> HIDE DEF m
<1>4. /\ call'[c] = m
      /\ \A t \in Calls : call'[t].request = call[t].request /\ call'[t].answer = call[t].answer
  BY <1>0, <1>2, <1>3 DEF ResponsesTypeOK
<1>5. /\ m.request \in Requests /\ m.answer \in Answer
      /\ m.pass = 2 => /\ ~m.answer.wake /\ claim[m.request] # None
                       /\ claim[m.request].answer = m.answer
      /\ c \in handed => m.pass = 2 /\ place \in {"fails", "done"}
  BY <1>1, <1>2 DEF Handler
<1>6. place = "done" /\ result = "accepted" =>
        \E t \in taken : call'[t].request = m.request /\ call'[t].answer = m.answer
  BY <1>2, <1>3, <1>4
<1>7. Handler(c, call[c])'
  BY <1>2, <1>3, <1>4, <1>5, <1>6 DEF Handler
<1>8. /\ handed' \in {handed, handed \cup {c}} /\ taken' \in {taken, taken \cup {c}}
      /\ taken' \subseteq handed' /\ flight' \subseteq handed' /\ (c \in handed' => c \in handed)
      /\ claim' = claim
  BY <1>3
<1> QED
  BY <1>2, <1>3, <1>7, <1>8, CallPreserves

\* What a call that is under way has, and the ways in which its operators end it.
LEMMA CallFacts ==
  ASSUME ResponsesInv, NEW c \in Calls
  PROVE  /\ call[c] \in Call /\ Handler(c, call[c])
         /\ call[c].at \notin {"fails", "done"} => call[c].result = "none"
         /\ \A place \in {"turn", "pending", "claims", "marks", "marked"} :
              Goes(c, place) /\ call[c].result = "none" =>
                call' = [call EXCEPT ![c] = [call[c] EXCEPT !.at = place, !.result = "none"]]
         /\ \A result \in {"none", "accepted", "rejected", "uncertain"} :
              /\ Ends(c, result) => call' = [call EXCEPT ![c] = [call[c] EXCEPT !.at = "done", !.result = result]]
              /\ Fails(c, result) => call' = [call EXCEPT ![c] = [call[c] EXCEPT !.at = "fails", !.result = result]]
         /\ taken \subseteq handed /\ handed \subseteq Calls
<1>1. /\ ResponsesTypeOK /\ Handler(c, call[c])
  BY DEF ResponsesInv
<1>2. call[c] \in Call
  BY <1>1 DEF ResponsesTypeOK
<1>3. ASSUME NEW place \in {"turn", "pending", "claims", "marks", "marked"}, call[c].result = "none"
      PROVE  [call[c] EXCEPT !.at = place] = [call[c] EXCEPT !.at = place, !.result = "none"]
  BY <1>2, <1>3 DEF Call
<1> QED
  BY <1>1, <1>2, <1>3 DEF Handler, Goes, Ends, Fails, ResponsesTypeOK

\* A check that stops a call that handed nothing over.
LEMMA StopsPreserves ==
  ASSUME ResponsesInv, NEW c \in Calls, call[c].at \in {"context", "turn", "pending"}, Stops(c, "rejected"),
         UNCHANGED <<active, now, sent, request, source, turn, claim, flight, handed, taken>>
  PROVE  ResponsesInv'
<1>1. call[c] \in Call /\ Handler(c, call[c])
  BY CallFacts
<1>2. c \notin handed
  BY <1>1 DEF Handler
<1>3. CASE call[c].pass = 1
  <2>1. call' = [call EXCEPT ![c] = [call[c] EXCEPT !.at = "done", !.result = "rejected"]]
    BY <1>3, CallFacts DEF Stops
  <2> QED
    BY <1>2, <2>1, MovePreserves
<1>4. CASE call[c].pass # 1
  <2>1. call' = [call EXCEPT ![c] = [call[c] EXCEPT !.at = "fails", !.result = "rejected"]]
    BY <1>4, CallFacts DEF Stops
  <2>2. call[c].pass = 2
    BY <1>1, <1>4 DEF Call
  <2> QED
    BY <1>2, <2>1, <2>2, MovePreserves
<1> QED
  BY <1>3, <1>4

\* The checks of the message and of the turn.
LEMMA ChecksPreserve == ASSUME ResponsesInv, NEW c \in Calls, Context(c) \/ ReadsTurn(c) PROVE ResponsesInv'
<1>1. call[c] \in Call /\ Handler(c, call[c]) /\ call[c].at \in {"context", "turn"}
      /\ call[c].at # "idle" /\ call[c].result = "none"
  BY CallFacts DEF Context, ReadsTurn
<1>2. c \notin handed
  BY <1>1 DEF Handler
<1>3. UNCHANGED <<active, now, sent, request, source, turn, claim, flight, handed, taken>>
  BY DEF Context, ReadsTurn, nativeVars
<1>4. CASE Stops(c, "rejected")
  BY <1>1, <1>3, <1>4, StopsPreserves
<1>5. CASE call[c].at = "context" /\ source[call[c].answer.of].accepted /\ Goes(c, "turn")
  <2>1. call' = [call EXCEPT ![c] = [call[c] EXCEPT !.at = "turn", !.result = "none"]]
    BY <1>1, <1>5, CallFacts
  <2> QED
    BY <1>1, <1>2, <1>3, <1>5, <2>1, MovePreserves
<1>6. CASE call[c].at = "turn" /\ InTurn(call[c].answer) /\ Goes(c, "pending")
  <2>1. call' = [call EXCEPT ![c] = [call[c] EXCEPT !.at = "pending", !.result = "none"]]
    BY <1>1, <1>6, CallFacts
  <2>2. ~call[c].answer.wake /\ source[call[c].answer.of].accepted
    BY <1>1, <1>6 DEF InTurn, Handler
  <2> QED
    BY <1>1, <1>2, <1>3, <2>1, <2>2, MovePreserves
<1> QED
  BY <1>4, <1>5, <1>6 DEF Context, ReadsTurn

\* The last check: the first time the call goes on to claim, the second time it hands over.
LEMMA PendingPreserves == ASSUME ResponsesInv, NEW c \in Calls, ReadsPending(c) PROVE ResponsesInv'
<1>1. call[c] \in Call /\ Handler(c, call[c]) /\ call[c].at = "pending" /\ call[c].result = "none"
      /\ taken \subseteq handed /\ handed \subseteq Calls /\ flight \subseteq handed
  BY CallFacts DEF ReadsPending, ResponsesInv, ResponsesTypeOK
<1>2. /\ c \notin handed /\ c \notin taken /\ source[call[c].answer.of].accepted /\ ~call[c].answer.wake
      /\ call[c].request \in Requests /\ call[c].answer \in Answer
      /\ call[c].pass = 2 => claim[call[c].request] # None /\ claim[call[c].request].answer = call[c].answer
  BY <1>1 DEF Handler
<1>3. UNCHANGED <<active, now, sent, request, source, turn, claim, taken>>
  BY DEF ReadsPending, nativeVars
<1>4. CASE Stops(c, "rejected") /\ UNCHANGED <<flight, handed>>
  BY <1>1, <1>3, <1>4, StopsPreserves
<1>5. CASE call[c].pass = 1 /\ Goes(c, "claims") /\ UNCHANGED <<flight, handed>>
  <2>1. call' = [call EXCEPT ![c] = [call[c] EXCEPT !.at = "claims", !.result = "none"]]
    BY <1>1, <1>5, CallFacts
  <2> QED
    BY <1>1, <1>2, <1>3, <1>5, <2>1, MovePreserves
<1>6. CASE /\ call[c].pass # 1 /\ Disclosed(call[c].request, call[c].answer.of) /\ Goes(c, "waits")
           /\ flight' = flight \cup {c} /\ handed' = handed \cup {c}
  <2> DEFINE m == [call[c] EXCEPT !.at = "waits"]
  <2>1. /\ m \in Call /\ m.at = "waits" /\ m.pass = 2 /\ m.request = call[c].request
        /\ m.answer = call[c].answer /\ m.result = "none" /\ call[c].pass = 2
    BY <1>1, <1>6 DEF Call
  <2>2. call' = [call EXCEPT ![c] = m] /\ call'[c] = m
    BY <1>6, <2>1 DEF Goes, ResponsesInv, ResponsesTypeOK
  <2> HIDE DEF m
  <2>3. Handler(c, call[c])'
    BY <1>2, <1>3, <2>1, <2>2 DEF Handler
  <2>4. /\ handed' \in {handed, handed \cup {c}} /\ taken' \in {taken, taken \cup {c}}
        /\ taken' \subseteq handed' /\ flight' \subseteq handed' /\ claim' = claim
    BY <1>1, <1>3, <1>6
  <2> QED
    BY <1>1, <1>2, <1>3, <1>6, <2>1, <2>2, <2>3, <2>4, CallPreserves
<1> QED
  BY <1>4, <1>5, <1>6 DEF ReadsPending

\* A claim is made of a request that had none, so no other call has passed its own.
LEMMA AcquirePreserves ==
  ASSUME ResponsesInv, NEW c \in Calls, call[c].at = "claims", claim[call[c].request] = None,
         claim' = [claim EXCEPT ![call[c].request] = [answer |-> call[c].answer, status |-> "attempted"]],
         call' = [call EXCEPT ![c].at = "context", ![c].pass = 2],
         UNCHANGED <<active, now, sent, request, source, turn, flight, handed, taken>>
  PROVE  ResponsesInv'
<1>0. /\ ResponsesTypeOK /\ SourceInv /\ ClaimantsInv /\ SettledInv /\ DisclosedBeforeDecided
      /\ \A d \in Calls : Handler(d, call[d])
  BY DEF ResponsesInv
<1> DEFINE r == call[c].request
           a == call[c].answer
           own == [answer |-> a, status |-> "attempted"]
           m == [call[c] EXCEPT !.at = "context", !.pass = 2]
<1>1. call[c] \in Call /\ Handler(c, call[c])
  BY CallFacts
<1>2. /\ r \in Requests /\ a \in Answer /\ call[c].result = "none" /\ ~a.wake /\ c \notin handed
      /\ source[a.of].accepted
  BY <1>1 DEF Handler
<1>3. own \in Claim /\ own # None /\ own.answer = a /\ own.status = "attempted"
  BY <1>2 DEF Claim
<1>4. /\ claim' \in [Requests -> Claim \cup {None}] /\ claim'[r] = own
      /\ \A q \in Requests : q # r => claim'[q] = claim[q]
  BY <1>0, <1>2, <1>3 DEF ResponsesTypeOK
<1>5. /\ m \in Call /\ m.at = "context" /\ m.pass = 2 /\ m.request = r /\ m.answer = a /\ m.result = "none"
  BY <1>1, <1>2 DEF Call
<1>6. /\ call' \in [Calls -> Call] /\ call'[c] = m
      /\ \A d \in Calls : d # c => call'[d] = call[d]
      /\ \A d \in Calls : call'[d].request = call[d].request /\ call'[d].answer = call[d].answer
  BY <1>0, <1>5 DEF ResponsesTypeOK
<1> HIDE DEF m
<1>7. ASSUME NEW d \in Calls, d # c, call[d].pass = 2 PROVE call[d].request # r
  BY <1>0, <1>7 DEF Handler
<1>8. ResponsesTypeOK'
  BY <1>0, <1>4, <1>6 DEF ResponsesTypeOK
<1>9. SourceInv'
  BY <1>0 DEF SourceInv
<1>10. ClaimantsInv'
  <2> SUFFICES ASSUME NEW d \in Calls, NEW e \in Calls, call'[d].pass = 2, call'[e].pass = 2,
                      call'[d].request = call'[e].request
               PROVE  d = e
    BY DEF ClaimantsInv
  <2>1. CASE d # c /\ e # c
    BY <1>0, <1>6, <2>1 DEF ClaimantsInv
  <2>2. CASE d = c \/ e = c
    BY <1>5, <1>6, <1>7, <2>2
  <2> QED
    BY <2>1, <2>2
<1>11. \A t \in taken : t \in Calls
  BY <1>0 DEF ResponsesTypeOK
<1>12. SettledInv'
  <2> SUFFICES ASSUME NEW q \in Requests
               PROVE  /\ request[q] \in Decision => claim'[q] # None /\ claim'[q].answer.decision = request[q]
                      /\ claim'[q] # None => (claim'[q].status = "accepted" =>
                           \E t \in taken : call'[t].request = q /\ call'[t].answer = claim'[q].answer)
    BY DEF SettledInv
  <2>1. CASE q = r
    BY <1>0, <1>3, <1>4, <2>1 DEF SettledInv
  <2>2. CASE q # r
    BY <1>0, <1>4, <1>6, <1>11, <2>2 DEF SettledInv
  <2> QED
    BY <2>1, <2>2
<1>13. DisclosedBeforeDecided'
  BY <1>0, <1>2, <1>6 DEF DisclosedBeforeDecided, ResponsesTypeOK
<1>14. ASSUME NEW d \in Calls PROVE Handler(d, call[d])'
  <2>1. CASE d = c
    BY <1>2, <1>3, <1>4, <1>5, <1>6, <2>1 DEF Handler
  <2>2. CASE d # c
    <3>1. Handler(d, call[d]) /\ call'[d] = call[d]
      BY <1>0, <1>6, <2>2
    <3>2. call[d].pass = 2 => /\ claim'[call[d].request] # None
                              /\ claim'[call[d].request].answer = call[d].answer
      <4> SUFFICES ASSUME call[d].pass = 2 PROVE claim'[call[d].request] = claim[call[d].request]
        BY <3>1 DEF Handler
      <4>1. call[d].request \in Requests
        BY <3>1 DEF Handler
      <4> QED
        BY <1>4, <1>7, <2>2, <4>1
    <3>3. call[d].at = "done" /\ call[d].result = "accepted" =>
            \E t \in taken : call'[t].request = call[d].request /\ call'[t].answer = call[d].answer
      BY <1>6, <1>11, <3>1 DEF Handler
    <3>4. d \in handed' <=> d \in handed
      OBVIOUS
    <3> QED
      BY <3>1, <3>2, <3>3, <3>4 DEF Handler
  <2> QED
    BY <2>1, <2>2
<1> QED
  BY <1>8, <1>9, <1>10, <1>12, <1>13, <1>14 DEF ResponsesInv

\* The claim: refused, made, or found as another call left it.
LEMMA ClaimsPreserve == ASSUME ResponsesInv, NEW c \in Calls, Claims(c) PROVE ResponsesInv'
<1> DEFINE r == call[c].request
           a == call[c].answer
<1>1. call[c] \in Call /\ Handler(c, call[c]) /\ call[c].at = "claims"
      /\ UNCHANGED <<active, now, sent, request, source, turn, flight, handed, taken>>
  BY CallFacts DEF Claims, nativeVars
<1>2. c \notin handed /\ r \in Requests
  BY <1>1 DEF Handler
<1>3. ASSUME NEW result \in {"rejected", "uncertain"}, Ends(c, result), UNCHANGED claim PROVE ResponsesInv'
  <2>1. call' = [call EXCEPT ![c] = [call[c] EXCEPT !.at = "done", !.result = result]]
    BY <1>3, CallFacts
  <2> QED
    BY <1>1, <1>2, <1>3, <2>1, MovePreserves
<1>4. CASE /\ claim[r] = None
           /\ claim' = [claim EXCEPT ![r] = [answer |-> a, status |-> "attempted"]]
           /\ call' = [call EXCEPT ![c].at = "context", ![c].pass = 2]
  BY <1>1, <1>4, AcquirePreserves
<1>5. CASE claim[r] # None /\ Duplicate(r, a) /\ claim[r].status = "accepted" /\ Ends(c, "accepted") /\ UNCHANGED claim
  <2>1. call' = [call EXCEPT ![c] = [call[c] EXCEPT !.at = "done", !.result = "accepted"]]
    BY <1>5, CallFacts
  <2>2. \E t \in taken : call[t].request = r /\ call[t].answer = a
    BY <1>2, <1>5 DEF ResponsesInv, SettledInv, Duplicate
  <2> QED
    BY <1>1, <1>2, <1>5, <2>1, <2>2, MovePreserves
<1>6. \/ (Ends(c, "rejected") \/ Ends(c, "uncertain")) /\ UNCHANGED claim
      \/ /\ claim[r] = None
         /\ claim' = [claim EXCEPT ![r] = [answer |-> a, status |-> "attempted"]]
         /\ call' = [call EXCEPT ![c].at = "context", ![c].pass = 2]
      \/ claim[r] # None /\ Duplicate(r, a) /\ claim[r].status = "accepted" /\ Ends(c, "accepted") /\ UNCHANGED claim
  BY DEF Claims, Acquires
<1> QED
  BY <1>3, <1>4, <1>5, <1>6

\* Eve takes or refuses what is on its way to it; the call may be told, or may have gone on.
LEMMA EvePreserves == ASSUME ResponsesInv, NEW c \in Calls, Takes(c) \/ Refuses(c) PROVE ResponsesInv'
<1>1. call[c] \in Call /\ Handler(c, call[c]) /\ c \in flight /\ c \in handed
      /\ taken \subseteq handed /\ flight \subseteq handed /\ handed \subseteq Calls
  BY CallFacts DEF Takes, Refuses, ResponsesInv, ResponsesTypeOK
<1>2. /\ UNCHANGED <<active, now, sent, request, source, turn, claim, handed>>
      /\ taken' \in {taken, taken \cup {c}} /\ flight' \subseteq flight
  BY DEF Takes, Refuses, nativeVars
<1>3. /\ call[c].pass = 2 /\ call[c].at \in {"waits", "marks", "marked", "fails", "done"}
      /\ call[c].result # "rejected" /\ call[c].request \in Requests /\ call[c].answer \in Answer
      /\ ~call[c].answer.wake
      /\ claim[call[c].request] # None /\ claim[call[c].request].answer = call[c].answer
      /\ call[c].at \in {"marks", "marked"} => c \in taken
      /\ call[c].at \notin {"fails", "done"} => call[c].result = "none"
      /\ call[c].at = "fails" => call[c].result # "accepted"
      /\ call[c].at = "done" /\ call[c].result = "accepted" =>
           \E t \in taken : call[t].request = call[c].request /\ call[t].answer = call[c].answer
  BY <1>1 DEF Handler
<1>4. ASSUME NEW m \in Call, call' = [call EXCEPT ![c] = m],
             m.request = call[c].request, m.answer = call[c].answer, m.pass = call[c].pass,
             m.at \in {call[c].at, "marks", "fails"}, m.result \in {call[c].result, "uncertain"},
             m.at \notin {"fails", "done"} => m.result = "none", m.at = "fails" => m.result # "accepted",
             m.at = "done" => m.result = call[c].result,
             m.at \in {"marks", "marked"} => c \in taken'
      PROVE  ResponsesInv'
  <2>1. /\ call'[c] = m
        /\ \A t \in taken : t \in taken' /\ call'[t].request = call[t].request /\ call'[t].answer = call[t].answer
    BY <1>1, <1>2, <1>4 DEF ResponsesInv, ResponsesTypeOK
  <2>2. m.at = "done" /\ m.result = "accepted" =>
           \E t \in taken' : call'[t].request = m.request /\ call'[t].answer = m.answer
    BY <1>3, <1>4, <2>1
  <2>3. m.result # "rejected" /\ m.at \in {"waits", "marks", "marked", "fails", "done"}
    BY <1>3, <1>4
  <2>4. Handler(c, call[c])'
    BY <1>1, <1>2, <1>3, <1>4, <2>1, <2>2, <2>3 DEF Handler
  <2>5. taken' \subseteq handed' /\ flight' \subseteq handed' /\ claim' = claim
        /\ handed' \in {handed, handed \cup {c}} /\ (c \in handed' => c \in handed)
    BY <1>1, <1>2
  <2> QED
    BY <1>2, <1>3, <1>4, <2>4, <2>5, CallPreserves
<1>5. CASE UNCHANGED call
  <2>1. call' = [call EXCEPT ![c] = call[c]]
    BY <1>5 DEF ResponsesInv, ResponsesTypeOK
  <2>2. call[c].at \in {"marks", "marked"} => c \in taken'
    BY <1>2, <1>3
  <2> QED
    BY <1>1, <1>3, <1>4, <2>1, <2>2
<1>6. CASE call[c].at = "waits" /\ Goes(c, "marks") /\ c \in taken'
  <2> DEFINE m == [call[c] EXCEPT !.at = "marks", !.result = "none"]
  <2>1. call' = [call EXCEPT ![c] = m]
    BY <1>3, <1>6, CallFacts
  <2>2. m \in Call /\ m.at = "marks" /\ m.result = "none" /\ m.request = call[c].request
        /\ m.answer = call[c].answer /\ m.pass = call[c].pass /\ call[c].result = "none"
    BY <1>1, <1>3, <1>6 DEF Call
  <2> HIDE DEF m
  <2> QED
    BY <1>4, <1>6, <2>1, <2>2
<1>7. CASE call[c].at = "waits" /\ Uncertain(c)
  <2> DEFINE m == [call[c] EXCEPT !.at = "fails", !.result = "uncertain"]
  <2>1. call' = [call EXCEPT ![c] = m]
    BY <1>7, CallFacts DEF Uncertain
  <2>2. m \in Call /\ m.at = "fails" /\ m.result = "uncertain" /\ m.request = call[c].request
        /\ m.answer = call[c].answer /\ m.pass = call[c].pass
    BY <1>1 DEF Call
  <2> HIDE DEF m
  <2> QED
    BY <1>4, <2>1, <2>2
<1>8. Takes(c) => c \in taken'
  BY DEF Takes
<1> QED
  BY <1>5, <1>6, <1>7, <1>8 DEF Takes, Refuses

\* A call marks its claim while it is attempted.
LEMMA MarkPreserves ==
  ASSUME ResponsesInv, NEW c \in Calls, MarksAccepted(c) \/ MarksUncertain(c) PROVE ResponsesInv'
<1> DEFINE r == call[c].request
<1>1. call[c] \in Call /\ Handler(c, call[c]) /\ call[c].at \in {"marks", "fails"}
      /\ UNCHANGED <<active, now, sent, request, source, turn, flight, handed, taken>>
      /\ taken \subseteq handed /\ flight \subseteq handed /\ handed \subseteq Calls
  BY CallFacts DEF MarksAccepted, MarksUncertain, nativeVars, ResponsesInv, ResponsesTypeOK
<1>2. /\ call[c].pass = 2 /\ r \in Requests /\ call[c].answer \in Answer /\ ~call[c].answer.wake
      /\ claim[r] # None /\ claim[r].answer = call[c].answer /\ claim[r] \in Claim
      /\ call[c].at = "marks" => c \in taken /\ call[c].result = "none"
      /\ call[c].at = "fails" => call[c].result # "accepted"
      /\ c \in handed => call[c].result # "rejected"
  BY <1>1 DEF Handler, ResponsesInv, ResponsesTypeOK
<1>3. ASSUME NEW m \in Call, call' = [call EXCEPT ![c] = m], m.request = r,
             m.answer = call[c].answer, m.pass = 2, m.at \in {"marked", "done"},
             m.at = "marked" => m.result = "none" /\ c \in taken,
             m.at = "done" => m.result = call[c].result /\ call[c].at = "fails",
             \/ claim' = claim
             \/ claim' = [claim EXCEPT ![r].status = "uncertain"]
             \/ claim' = [claim EXCEPT ![r].status = "accepted"] /\ c \in taken,
             m.result # "accepted"
      PROVE  ResponsesInv'
  <2>1. claim'[r] # None /\ claim'[r].answer = call[c].answer
    <3>1. \A s \in {"uncertain", "accepted"} : [claim[r] EXCEPT !.status = s] \in Claim
                                               /\ [claim[r] EXCEPT !.status = s].answer = call[c].answer
      BY <1>2 DEF Claim
    <3> QED
      BY <1>2, <1>3, <3>1 DEF ResponsesInv, ResponsesTypeOK
  <2>2. call'[c] = m
    BY <1>3 DEF ResponsesInv, ResponsesTypeOK
  <2>3. c \in handed => m.result # "rejected"
    BY <1>2, <1>3
  <2>4. Handler(c, call[c])'
    BY <1>1, <1>2, <1>3, <2>1, <2>2, <2>3 DEF Handler
  <2>5. /\ taken' \subseteq handed' /\ flight' \subseteq handed'
        /\ handed' \in {handed, handed \cup {c}} /\ (c \in handed' => c \in handed)
        /\ taken' \in {taken, taken \cup {c}} /\ call[c].at # "idle"
    BY <1>1
  <2> QED
    BY <1>1, <1>2, <1>3, <2>4, <2>5, CallPreserves
<1>4. CASE MarksAccepted(c) /\ claim[r].status = "attempted"
  <2> DEFINE m == [call[c] EXCEPT !.at = "marked", !.result = "none"]
  <2>1. /\ claim' = [claim EXCEPT ![r].status = "accepted"] /\ Goes(c, "marked") /\ c \in taken
        /\ call[c].result = "none"
    BY <1>2, <1>4 DEF MarksAccepted, Marked
  <2>2. call' = [call EXCEPT ![c] = m]
    BY <2>1, CallFacts
  <2>3. m \in Call /\ m.at = "marked" /\ m.result = "none" /\ m.request = r
        /\ m.answer = call[c].answer /\ m.pass = 2
    BY <1>1, <1>2 DEF Call
  <2> HIDE DEF m
  <2> QED
    BY <1>3, <2>1, <2>2, <2>3
<1>5. CASE MarksAccepted(c) /\ claim[r].status # "attempted"
  <2>1. claim' = claim /\ call' = [call EXCEPT ![c] = [call[c] EXCEPT !.at = "fails", !.result = "uncertain"]]
    BY <1>5, CallFacts DEF MarksAccepted, Marked, Uncertain
  <2>2. call[c].at # "idle"
    BY <1>1
  <2> QED
    BY <1>1, <1>2, <2>1, <2>2, MovePreserves
<1>6. CASE MarksUncertain(c)
  <2> DEFINE m == [call[c] EXCEPT !.at = "done", !.result = call[c].result]
  <2>1. /\ claim' = claim \/ claim' = [claim EXCEPT ![r].status = "uncertain"]
        /\ Ends(c, call[c].result) /\ call[c].at = "fails" /\ call[c].result # "accepted"
    BY <1>2, <1>6 DEF MarksUncertain, Marked
  <2>2. call[c].result \in {"none", "accepted", "rejected", "uncertain"}
    BY <1>1 DEF Call
  <2>3. call' = [call EXCEPT ![c] = m]
    BY <2>1, <2>2, CallFacts
  <2>4. m \in Call /\ m.at = "done" /\ m.result = call[c].result /\ m.request = r
        /\ m.answer = call[c].answer /\ m.pass = 2
    BY <1>1, <1>2, <2>2 DEF Call
  <2> HIDE DEF m
  <2> QED
    BY <1>3, <2>1, <2>3, <2>4
<1> QED
  BY <1>4, <1>5, <1>6 DEF MarksAccepted, MarksUncertain

\* The last answer, the timer, and the end of the process.
LEMMA EndPreserves ==
  ASSUME ResponsesInv, NEW c \in Calls, Returns(c) \/ TimesOut(c) \/ Crashes(c) PROVE ResponsesInv'
<1>1. call[c] \in Call /\ Handler(c, call[c]) /\ call[c].at # "idle"
      /\ UNCHANGED <<active, now, sent, request, source, turn, claim, flight, handed, taken>>
  BY CallFacts DEF Returns, TimesOut, Crashes, nativeVars
<1>2. CASE Returns(c)
  <2>1. call' = [call EXCEPT ![c] = [call[c] EXCEPT !.at = "done", !.result = "accepted"]]
    BY <1>2, CallFacts DEF Returns
  <2>2. c \in taken
    BY <1>1, <1>2 DEF Handler, Returns
  <2> QED
    BY <1>1, <2>1, <2>2, MovePreserves
<1>3. CASE Ends(c, "uncertain")
  <2>1. call' = [call EXCEPT ![c] = [call[c] EXCEPT !.at = "done", !.result = "uncertain"]]
    BY <1>3, CallFacts
  <2> QED
    BY <1>1, <2>1, MovePreserves
<1>4. CASE call[c].pass # 1 /\ Uncertain(c)
  <2>1. call' = [call EXCEPT ![c] = [call[c] EXCEPT !.at = "fails", !.result = "uncertain"]]
    BY <1>4, CallFacts DEF Uncertain
  <2>2. call[c].pass = 2
    BY <1>1, <1>4 DEF Call
  <2> QED
    BY <1>1, <2>1, <2>2, MovePreserves
<1> QED
  BY <1>2, <1>3, <1>4 DEF TimesOut, Crashes

-----------------------------------------------------------------------------
\* ResponsesInv is inductive.
THEOREM ResponsesInvInductive ==
  /\ ResponsesInit => ResponsesInv
  /\ ResponsesInv /\ [ResponsesNext]_responseVars => ResponsesInv'
<1>1. ASSUME ResponsesInv, NEW c \in Calls,
             Handles(c) \/ Consumes(c) \/ Takes(c) \/ Refuses(c) \/ TimesOut(c) \/ Crashes(c)
      PROVE  ResponsesInv'
  BY <1>1, ChecksPreserve, PendingPreserves, ClaimsPreserve, MarkPreserves, EndPreserves,
     EvePreserves, ConsumesPreserves DEF Handles
<1>2. ASSUME ResponsesInv, UNCHANGED responseVars PROVE ResponsesInv'
  BY <1>2 DEF responseVars, ResponsesInv, ResponsesTypeOK, SourceInv, ClaimantsInv, SettledInv,
              DisclosedBeforeDecided, Handler
<1> QED
  BY <1>1, <1>2, InitResponses, SessionPreserves, BeginsPreserves DEF ResponsesNext

\* What the runs check follows.
LEMMA ResponsesInvImpliesSafe == ResponsesInv => ResponsesAreSafe
<1> SUFFICES ASSUME ResponsesInv PROVE ResponsesAreSafe
  OBVIOUS
<1>0. /\ ResponsesTypeOK /\ ClaimantsInv /\ SettledInv /\ DisclosedBeforeDecided
      /\ \A c \in Calls : Handler(c, call[c])
  BY DEF ResponsesInv
<1>1. \A c \in handed : c \in Calls /\ call[c].pass = 2 /\ call[c].result # "rejected"
  BY <1>0 DEF Handler, ResponsesTypeOK
<1>2. DecidedOnce
  <2> SUFFICES ASSUME NEW r \in Requests
               PROVE  Cardinality({c \in handed : call[c].request = r}) <= 1
    BY <1>0 DEF DecidedOnce, SettledInv
  <2> DEFINE S == {c \in handed : call[c].request = r}
  <2>1. \A c, d \in S : c = d
    BY <1>0, <1>1 DEF ClaimantsInv
  <2> HIDE DEF S
  <2>2. ASSUME S = {} PROVE Cardinality(S) = 0
    BY <2>2, FS_EmptySet
  <2>3. ASSUME S # {} PROVE Cardinality(S) = 1
    <3>1. PICK c \in S : TRUE
      BY <2>3
    <3>2. S = {c}
      BY <2>1, <3>1
    <3> QED
      BY <3>2, FS_Singleton
  <2>4. Cardinality(S) <= 1
    BY <2>2, <2>3
  <2> QED
    BY <2>4 DEF S
<1>3. RejectedHadNoEffect
  BY <1>1 DEF RejectedHadNoEffect
<1>4. AcceptedIsTrue
  BY <1>0 DEF AcceptedIsTrue, Handler, SettledInv
<1> QED
  BY <1>0, <1>2, <1>3, <1>4 DEF ResponsesAreSafe

\* Whoever calls at once or again, whatever is lost, revoked or stopped: a request gets one
\* response, decided after the whole proposal arrived, and what a call was told of it is true.
THEOREM ResponsesSafe == ResponsesSpec => []ResponsesAreSafe
<1>1. ResponsesInv /\ [ResponsesNext]_responseVars => ResponsesInv'
  BY ResponsesInvInductive
<1> QED
  BY <1>1, ResponsesInvInductive, ResponsesInvImpliesSafe, PTL DEF ResponsesSpec
===============================================================================
