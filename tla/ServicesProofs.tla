---------------------------- MODULE ServicesProofs ----------------------------
(***************************************************************************)
(* Proofs about the three components that act on services outside the       *)
(* database: ToolInvocations, for any calls, keys, slots and deadlines and  *)
(* whatever fails; PrivatePayloads, for any objects, owners and backups;    *)
(* and AccountErasure, for any people, companies, requests and restarts.    *)
(* ToolInv, PayloadsInv with StoredInv, and DeletionsInv are inductive, and *)
(* what the runs check follows from them.                                   *)
(***************************************************************************)
EXTENDS ToolInvocations, PrivatePayloads, AccountErasure, FiniteSetTheorems, TLAPS

(***************************************************************************)
(* Tool invocations.                                                        *)
(***************************************************************************)
USE KeysAssumption, TimesAssumption, NoneAssumption

\* A call that claimed its key and has neither kept a result nor given up.
Owns(c) == call[c].at \in {"checks", "sends", "completes", "marks"}

\* The row of an owner is its claim, and nobody else owns its key.
OwnersInv ==
    \A c \in Calls : Owns(c) =>
        /\ invocation[Key[c]] # None /\ invocation[Key[c]].request = Request[c]
        /\ \A d \in Calls : Owns(d) /\ Key[d] = Key[c] => d = c

\* A request that left is the one of its key, whose row is its own, and its call no longer sends.
SentInv ==
    \A c \in sent :
        /\ call[c].at \in {"completes", "marks", "ended"}
        /\ invocation[Key[c]] # None /\ invocation[Key[c]].request = Request[c]
        /\ \A d \in Calls : (Owns(d) \/ d \in sent) /\ Key[d] = Key[c] => d = c

\* The service did what the key asked, with the request of its row.
Happened(k) ==
    /\ invocation[k] # None /\ done[k]
    /\ \E d \in sent : Key[d] = k /\ Request[d] = invocation[k].request

\* Who completes, who replays, what is kept and what was told rest on such a key.
ResultsInv ==
    /\ \A c \in Calls : At(c, "completes") => c \in sent /\ done[Key[c]]
    /\ \A k \in Keys : invocation[k] # None /\ invocation[k].status = "completed" => Happened(k)
    /\ \A c \in Calls : At(c, "replays") \/ told[c] = "result" =>
         Happened(Key[c]) /\ invocation[Key[c]].request = Request[c]

ToolInv == ToolTypeOK /\ OwnersInv /\ SentInv /\ ResultsInv /\ RevokedHasNoResults

-----------------------------------------------------------------------------
\* Nobody owned a key, sent or was told anything in the beginning.
LEMMA InitToolInv == ToolInit => ToolInv
<1> SUFFICES ASSUME ToolInit PROVE ToolInv
  OBVIOUS
<1>1. [at |-> "new", spent |-> 0, age |-> 0] \in Call
  BY DEF Call, Places
<1>2. ToolTypeOK
  BY <1>1 DEF ToolInit, ToolTypeOK
<1>3. OwnersInv /\ SentInv
  BY DEF ToolInit, OwnersInv, SentInv, Owns
<1>4. \A c \in Calls : told[c] # "result"
  BY DEF ToolInit, Answers
<1>5. ResultsInv /\ RevokedHasNoResults
  BY <1>4 DEF ToolInit, ResultsInv, RevokedHasNoResults, At
<1> QED
  BY <1>2, <1>3, <1>5 DEF ToolInv

\* A step of one call moves that call and no other.
LEMMA OneMoves ==
  ASSUME ToolTypeOK, NEW c \in Calls, NEW place \in Places, Goes(c, place)
  PROVE  /\ call' \in [Calls -> Call]
         /\ call'[c].at = place
         /\ \A d \in Calls : d # c => call'[d] = call[d]
  BY DEF ToolTypeOK, Goes, Call

\* A call that moves, and writes nothing but its answer, keeps the invariant if it does
\* not become an owner, is not sent again, and has what it completes, replays or tells.
LEMMA MovePreserves ==
  ASSUME ToolInv, NEW c \in Calls, NEW place \in Places, Goes(c, place),
         NEW answer \in Answers,
         told' \in {told, [told EXCEPT ![c] = answer]},
         UNCHANGED <<invocation, revoked, sent, done>>,
         place \in {"checks", "sends", "completes", "marks"} => Owns(c),
         c \in sent => place \in {"completes", "marks", "ended"},
         place = "completes" => c \in sent /\ done[Key[c]],
         place = "replays" \/ (told' # told /\ answer = "result")
           => Happened(Key[c]) /\ invocation[Key[c]].request = Request[c]
  PROVE  ToolInv'
<1>0. /\ ToolTypeOK /\ OwnersInv /\ SentInv /\ ResultsInv /\ RevokedHasNoResults
  BY DEF ToolInv
<1>1. /\ call' \in [Calls -> Call]
      /\ call'[c].at = place
      /\ \A d \in Calls : d # c => call'[d] = call[d]
  BY <1>0, OneMoves
<1>2. ToolTypeOK'
  BY <1>0, <1>1 DEF ToolTypeOK
<1>3. \A d \in Calls : Owns(d)' => Owns(d)
  BY <1>1 DEF Owns
<1>4. OwnersInv'
  BY <1>0, <1>3 DEF OwnersInv
<1>5. SentInv'
  <2> SUFFICES ASSUME NEW d \in sent
               PROVE  /\ call'[d].at \in {"completes", "marks", "ended"}
                      /\ invocation[Key[d]] # None /\ invocation[Key[d]].request = Request[d]
                      /\ \A b \in Calls : (Owns(b)' \/ b \in sent) /\ Key[b] = Key[d] => b = d
    BY DEF SentInv
  <2>1. call'[d].at \in {"completes", "marks", "ended"}
    BY <1>0, <1>1 DEF SentInv, ToolTypeOK
  <2> QED
    BY <1>0, <1>3, <2>1 DEF SentInv
<1>6. \A k \in Keys : Happened(k)' <=> Happened(k)
  BY DEF Happened
<1>7. ResultsInv'
  <2>1. ASSUME NEW d \in Calls, At(d, "completes")' PROVE d \in sent /\ done[Key[d]]
    BY <1>0, <1>1, <2>1 DEF At, ResultsInv
  <2>2. ASSUME NEW d \in Calls, (At(d, "replays") \/ told[d] = "result")'
        PROVE  Happened(Key[d]) /\ invocation[Key[d]].request = Request[d]
    BY <1>0, <1>1, <2>2 DEF At, ResultsInv, ToolTypeOK
  <2> QED
    BY <1>0, <1>6, <2>1, <2>2 DEF ResultsInv
<1>8. RevokedHasNoResults'
  BY <1>0 DEF RevokedHasNoResults
<1> QED
  BY <1>2, <1>4, <1>5, <1>7, <1>8 DEF ToolInv

\* The places and the answers that the steps write.
LEMMA Literals ==
  /\ {"new", "queued", "permits", "claims", "replays", "checks", "sends", "completes",
      "marks", "ended"} \subseteq Places
  /\ {"result", "changed", "uncertain", "denied", "timeout"} \subseteq Answers
  BY DEF Places, Answers

\* Arriving, taking a slot, being permitted, finding a claim, replaying it, looking at the
\* connection again, and running out of time before the request left.
LEMMA MovesPreserve ==
  ASSUME ToolInv, NEW c \in Calls
  PROVE  /\ Arrives(c) \/ Enters(c) \/ Permits(c) \/ Finds(c) \/ Replays(c) \/ Checks(c) => ToolInv'
         /\ TimesOut(c) /\ UNCHANGED <<sent, done>> => ToolInv'
<1>0. /\ ToolTypeOK /\ OwnersInv /\ SentInv /\ ResultsInv
  BY DEF ToolInv
<1>s. c \in sent => call[c].at \in {"completes", "marks", "ended"}
  BY <1>0 DEF SentInv
<1> USE Literals
<1>1. CASE Arrives(c)
  <2>1. c \notin sent
    BY <1>1, <1>s DEF Arrives, At
  <2> QED
    BY <1>1, <2>1, MovePreserves DEF Arrives
<1>2. CASE Enters(c)
  <2>1. c \notin sent
    BY <1>2, <1>s DEF Enters, At
  <2> QED
    BY <1>2, <2>1, MovePreserves DEF Enters
<1>3. CASE Permits(c)
  <2>1. c \notin sent
    BY <1>3, <1>s DEF Permits, At
  <2>2. CASE revoked
    BY <1>3, <2>1, <2>2, MovePreserves DEF Permits, Tells
  <2>3. CASE ~revoked
    BY <1>3, <2>1, <2>3, MovePreserves DEF Permits
  <2> QED
    BY <2>2, <2>3
<1>4. CASE Finds(c)
  <2> DEFINE row == invocation[Key[c]]
  <2>1. c \notin sent
    BY <1>4, <1>s DEF Finds, At
  <2>2. row # None /\ UNCHANGED <<invocation, revoked, sent, done>>
    BY <1>4 DEF Finds
  <2>3. CASE row.request # Request[c]
    <3>1. Tells(c, "changed")
      BY <1>4, <2>3 DEF Finds
    <3> QED
      BY <2>1, <2>2, <3>1, MovePreserves DEF Tells
  <2>4. CASE row.request = Request[c] /\ (row.status # "completed" \/ ~row.result)
    <3>1. Tells(c, "uncertain")
      BY <1>4, <2>4 DEF Finds
    <3> QED
      BY <2>1, <2>2, <3>1, MovePreserves DEF Tells
  <2>5. CASE row.request = Request[c] /\ row.status = "completed" /\ row.result
    <3>1. Goes(c, "replays") /\ UNCHANGED told
      BY <1>4, <2>5 DEF Finds
    <3>2. Happened(Key[c])
      BY <1>0, <2>2, <2>5 DEF ResultsInv
    <3> QED
      BY <2>1, <2>2, <2>5, <3>1, <3>2, MovePreserves
  <2> QED
    BY <2>3, <2>4, <2>5
<1>5. CASE Replays(c)
  <2>1. c \notin sent /\ Happened(Key[c]) /\ invocation[Key[c]].request = Request[c]
    BY <1>0, <1>5, <1>s DEF Replays, At, ResultsInv
  <2>2. CASE revoked
    BY <1>5, <2>1, <2>2, MovePreserves DEF Replays, Tells
  <2>3. CASE ~revoked
    BY <1>5, <2>1, <2>3, MovePreserves DEF Replays, Tells
  <2> QED
    BY <2>2, <2>3
<1>6. CASE Checks(c)
  <2>1. c \notin sent /\ Owns(c)
    BY <1>6, <1>s DEF Checks, At, Owns
  <2>2. CASE revoked
    BY <1>6, <2>1, <2>2, MovePreserves DEF Checks
  <2>3. CASE ~revoked
    BY <1>6, <2>1, <2>3, MovePreserves DEF Checks
  <2> QED
    BY <2>2, <2>3
<1>7. CASE TimesOut(c) /\ UNCHANGED <<sent, done>>
  BY <1>7, MovePreserves DEF TimesOut, Tells
<1> QED
  BY <1>1, <1>2, <1>3, <1>4, <1>5, <1>6, <1>7

\* A claim takes a key that nobody owns, and for which nothing was sent.
LEMMA ClaimPreserves == ASSUME ToolInv, NEW c \in Calls, ClaimsKey(c) PROVE ToolInv'
<1>0. /\ ToolTypeOK /\ OwnersInv /\ SentInv /\ ResultsInv /\ RevokedHasNoResults
  BY DEF ToolInv
<1> DEFINE mine == Key[c]
<1>1. /\ mine \in Keys /\ invocation[mine] = None /\ call[c].at = "claims" /\ Goes(c, "checks")
      /\ invocation' = [invocation EXCEPT ![mine] = Started(c)]
      /\ UNCHANGED <<revoked, told, sent, done>>
  BY DEF ClaimsKey, At
<1>2. /\ call' \in [Calls -> Call] /\ call'[c].at = "checks"
      /\ \A d \in Calls : d # c => call'[d] = call[d]
  BY <1>0, <1>1, Literals, OneMoves
<1>3. Started(c) \in Invocation /\ Started(c) # None /\ Started(c).request = Request[c]
      /\ Started(c).status # "completed" /\ Started(c).result = FALSE
  <2>1. Request[c] \in Requests
    BY DEF Requests
  <2>2. Started(c) \in Invocation
    BY <2>1 DEF Started, Invocation
  <2> QED
    BY <2>2 DEF Started
<1>4. \A k \in Keys : invocation'[k] = IF k = mine THEN Started(c) ELSE invocation[k]
  BY <1>0, <1>1 DEF ToolTypeOK
<1>5. ToolTypeOK'
  BY <1>0, <1>1, <1>2, <1>3 DEF ToolTypeOK
<1>6. /\ c \notin sent
      /\ \A d \in Calls : Owns(d) => Key[d] # mine
      /\ \A d \in sent : Key[d] # mine
      /\ ~Happened(mine)
  BY <1>0, <1>1 DEF OwnersInv, SentInv, Happened, Owns
<1>7. \A d \in Calls : Owns(d)' <=> Owns(d) \/ d = c
  BY <1>2 DEF Owns
<1>8. OwnersInv'
  BY <1>0, <1>3, <1>4, <1>6, <1>7 DEF OwnersInv
<1>9. SentInv'
  BY <1>0, <1>1, <1>2, <1>4, <1>6, <1>7 DEF SentInv, ToolTypeOK
<1>10. \A k \in Keys : k # mine => (Happened(k)' <=> Happened(k))
  BY <1>1, <1>4 DEF Happened
<1>11. ResultsInv'
  <2>1. ASSUME NEW d \in Calls, At(d, "completes")' PROVE (d \in sent /\ done[Key[d]])'
    BY <1>0, <1>1, <1>2, <2>1 DEF At, ResultsInv
  <2>2. ASSUME NEW k \in Keys, (invocation[k] # None /\ invocation[k].status = "completed")'
        PROVE  Happened(k)'
    BY <1>0, <1>3, <1>4, <1>10, <2>2 DEF ResultsInv
  <2>3. ASSUME NEW d \in Calls, (At(d, "replays") \/ told[d] = "result")'
        PROVE  (Happened(Key[d]) /\ invocation[Key[d]].request = Request[d])'
    <3>1. At(d, "replays") \/ told[d] = "result"
      BY <1>1, <1>2, <2>3 DEF At
    <3>2. Happened(Key[d]) /\ invocation[Key[d]].request = Request[d] /\ Key[d] # mine
      BY <1>0, <1>6, <3>1 DEF ResultsInv
    <3> QED
      BY <1>4, <1>10, <3>2
  <2> QED
    BY <2>1, <2>2, <2>3 DEF ResultsInv
<1>12. RevokedHasNoResults'
  BY <1>0, <1>1, <1>3, <1>4 DEF RevokedHasNoResults
<1> QED
  BY <1>5, <1>8, <1>9, <1>11, <1>12 DEF ToolInv

\* A request that leaves was not sent before under its key, and its call does not send again,
\* whatever it does next and whether the service acts.
LEMMA SendPreserves ==
  ASSUME ToolInv, NEW c \in Calls, At(c, "sends"),
         NEW place \in {"completes", "marks", "ended"}, Goes(c, place),
         sent' = sent \cup {c}, done' \in {done, [done EXCEPT ![Key[c]] = TRUE]},
         place = "completes" => done' = [done EXCEPT ![Key[c]] = TRUE],
         told' \in {told, [told EXCEPT ![c] = "timeout"]}, UNCHANGED <<invocation, revoked>>
  PROVE  ToolInv'
<1>0. /\ ToolTypeOK /\ OwnersInv /\ SentInv /\ ResultsInv /\ RevokedHasNoResults
  BY DEF ToolInv
<1>2. /\ call' \in [Calls -> Call] /\ call'[c].at = place
      /\ \A d \in Calls : d # c => call'[d] = call[d]
  BY <1>0, Literals, OneMoves
<1>3. \A k \in Keys : done[k] => done'[k]
  BY <1>0 DEF ToolTypeOK
<1>4. done' \in [Keys -> BOOLEAN] /\ (place = "completes" => done'[Key[c]])
  BY <1>0 DEF ToolTypeOK
<1>5. ToolTypeOK'
  BY <1>0, <1>2, <1>4, Literals DEF ToolTypeOK
<1>6. Owns(c) /\ \A d \in Calls : Owns(d)' => Owns(d)
  BY <1>2 DEF At, Owns
<1>7. OwnersInv'
  BY <1>0, <1>6 DEF OwnersInv
<1>8. SentInv'
  <2> SUFFICES ASSUME NEW d \in sent'
               PROVE  /\ call'[d].at \in {"completes", "marks", "ended"}
                      /\ invocation[Key[d]] # None /\ invocation[Key[d]].request = Request[d]
                      /\ \A b \in Calls : (Owns(b)' \/ b \in sent') /\ Key[b] = Key[d] => b = d
    BY DEF SentInv
  <2>0. \A b \in sent : Key[b] # Key[c]
    BY <1>0, <1>6 DEF SentInv, At
  <2>1. CASE d = c
    BY <1>0, <1>2, <1>6, <2>0, <2>1 DEF OwnersInv
  <2>2. CASE d # c
    <3>1. d \in sent /\ d \in Calls
      BY <1>0, <2>2 DEF ToolTypeOK
    <3> QED
      BY <1>0, <1>2, <1>6, <2>0, <2>2, <3>1 DEF SentInv
  <2> QED
    BY <2>1, <2>2
<1>9. \A k \in Keys : Happened(k) => Happened(k)'
  BY <1>3 DEF Happened
<1>10. ResultsInv'
  <2>1. ASSUME NEW d \in Calls, At(d, "completes")' PROVE (d \in sent /\ done[Key[d]])'
    BY <1>0, <1>2, <1>3, <1>4, <2>1 DEF At, ResultsInv
  <2>2. ASSUME NEW k \in Keys, invocation[k] # None, invocation[k].status = "completed"
        PROVE  Happened(k)'
    BY <1>0, <1>9, <2>2 DEF ResultsInv
  <2>3. ASSUME NEW d \in Calls, (At(d, "replays") \/ told[d] = "result")'
        PROVE  (Happened(Key[d]) /\ invocation[Key[d]].request = Request[d])'
    <3>1. At(d, "replays") \/ told[d] = "result"
      BY <1>0, <1>2, <2>3 DEF At, ToolTypeOK
    <3> QED
      BY <1>0, <1>9, <3>1 DEF ResultsInv
  <2> QED
    BY <2>1, <2>2, <2>3 DEF ResultsInv
<1>11. RevokedHasNoResults'
  BY <1>0 DEF RevokedHasNoResults
<1> QED
  BY <1>5, <1>7, <1>8, <1>10, <1>11 DEF ToolInv

\* An owner that ends writes its own row: a result while the connection stands, or that the
\* outcome is uncertain.
LEMMA SettlePreserves ==
  ASSUME ToolInv, NEW c \in Calls, Owns(c), NEW status \in {"completed", "uncertain"},
         NEW result \in BOOLEAN,
         invocation' = [invocation EXCEPT ![Key[c]].status = status, ![Key[c]].result = result],
         Tells(c, IF status = "completed" THEN "result" ELSE "uncertain"),
         status = "completed" => At(c, "completes"),
         result => ~revoked, UNCHANGED <<revoked, sent, done>>
  PROVE  ToolInv'
<1>0. /\ ToolTypeOK /\ OwnersInv /\ SentInv /\ ResultsInv /\ RevokedHasNoResults
  BY DEF ToolInv
<1> DEFINE mine == Key[c]
           row == [invocation[mine] EXCEPT !.status = status, !.result = result]
<1>1. /\ mine \in Keys /\ invocation[mine] \in Invocation /\ invocation[mine].request = Request[c]
      /\ \A d \in Calls : Owns(d) /\ Key[d] = mine => d = c
  BY <1>0 DEF OwnersInv, ToolTypeOK
<1>2. row \in Invocation /\ row # None /\ row.request = Request[c] /\ row.status = status /\ row.result = result
  <2>1. row \in Invocation
    BY <1>1 DEF Invocation
  <2> QED
    BY <1>1, <2>1 DEF Invocation
<1>3. /\ invocation' \in [Keys -> Invocation \cup {None}]
      /\ \A k \in Keys : invocation'[k] = IF k = mine THEN row ELSE invocation[k]
  BY <1>0, <1>1, <1>2 DEF ToolTypeOK
<1>4. /\ call' \in [Calls -> Call] /\ call'[c].at = "ended"
      /\ \A d \in Calls : d # c => call'[d] = call[d]
  BY <1>0, Literals, OneMoves DEF Tells
<1>5. ToolTypeOK'
  BY <1>0, <1>3, <1>4, Literals DEF ToolTypeOK, Tells
<1>6. ~Owns(c)' /\ \A d \in Calls : Owns(d)' => Owns(d)
  BY <1>4 DEF Owns
<1>7. \A k \in Keys : /\ invocation[k] # None => invocation'[k] # None
                      /\ invocation[k] # None => invocation'[k].request = invocation[k].request
  BY <1>1, <1>2, <1>3
<1>8. OwnersInv'
  BY <1>0, <1>6, <1>7 DEF OwnersInv
<1>9. SentInv'
  BY <1>0, <1>4, <1>6, <1>7 DEF SentInv, ToolTypeOK
<1>10. \A k \in Keys : Happened(k) => Happened(k)'
  BY <1>7 DEF Happened
<1>11. status = "completed" => Happened(mine)
  BY <1>0, <1>1 DEF ResultsInv, Happened
<1>12. ResultsInv'
  <2>1. ASSUME NEW d \in Calls, At(d, "completes")' PROVE (d \in sent /\ done[Key[d]])'
    BY <1>0, <1>4, <2>1 DEF At, ResultsInv
  <2>2. ASSUME NEW k \in Keys, (invocation[k] # None /\ invocation[k].status = "completed")'
        PROVE  Happened(k)'
    BY <1>0, <1>2, <1>3, <1>10, <1>11, <2>2 DEF ResultsInv
  <2>3. ASSUME NEW d \in Calls, (At(d, "replays") \/ told[d] = "result")'
        PROVE  (Happened(Key[d]) /\ invocation[Key[d]].request = Request[d])'
    <3>1. CASE d = c
      <4>1. told'[c] = "result"
        BY <1>4, <2>3, <3>1 DEF At
      <4>2. status = "completed"
        BY <1>0, <4>1 DEF Tells, ToolTypeOK
      <4> QED
        BY <1>2, <1>3, <1>10, <1>11, <3>1, <4>2
    <3>2. CASE d # c
      <4>1. At(d, "replays") \/ told[d] = "result"
        BY <1>0, <1>4, <2>3, <3>2 DEF At, Tells, ToolTypeOK
      <4>2. Happened(Key[d]) /\ invocation[Key[d]].request = Request[d] /\ Key[d] \in Keys
        BY <1>0, <4>1 DEF ResultsInv
      <4>3. invocation[Key[d]] # None
        BY <4>2 DEF Happened
      <4> QED
        BY <1>7, <1>10, <4>2, <4>3
    <3> QED
      BY <3>1, <3>2
  <2> QED
    BY <2>1, <2>2, <2>3 DEF ResultsInv
<1>13. RevokedHasNoResults'
  BY <1>0, <1>2, <1>3 DEF RevokedHasNoResults
<1> QED
  BY <1>5, <1>8, <1>9, <1>12, <1>13 DEF ToolInv

\* Sending, keeping the result, giving up, and running out of time, of the owner of a key.
LEMMA OwnersPreserve ==
  ASSUME ToolInv, NEW c \in Calls
  PROVE  Sends(c) \/ Completes(c) \/ Marks(c) \/ TimesOut(c) => ToolInv'
<1>0. /\ ToolTypeOK /\ OwnersInv /\ SentInv /\ ResultsInv
  BY DEF ToolInv
<1>1. CASE Sends(c)
  BY <1>1, SendPreserves DEF Sends
<1>2. CASE Completes(c)
  <2>1. At(c, "completes") /\ Owns(c) /\ UNCHANGED <<revoked, sent, done>>
    BY <1>2 DEF Completes, At, Owns
  <2>2. CASE revoked
    <3>1. Goes(c, "marks") /\ UNCHANGED <<invocation, told>>
      BY <1>2, <2>2 DEF Completes
    <3> QED
      BY <2>1, <3>1, Literals, MovePreserves
  <2>3. CASE ~revoked
    <3>1. /\ Tells(c, "result")
          /\ invocation' = [invocation EXCEPT ![Key[c]].status = "completed", ![Key[c]].result = TRUE]
      BY <1>2, <2>3 DEF Completes
    <3> QED
      BY <2>1, <2>3, <3>1, SettlePreserves
  <2> QED
    BY <2>2, <2>3
<1>3. CASE Marks(c)
  <2> DEFINE row == invocation[Key[c]]
  <2>1. Owns(c) /\ Tells(c, "uncertain") /\ UNCHANGED <<revoked, sent, done>>
    BY <1>3 DEF Marks, At, Owns
  <2>2. row \in Invocation /\ row.result \in BOOLEAN /\ (row.result => ~revoked)
    <3>1. row \in Invocation /\ Key[c] \in Keys /\ row # None
      BY <1>0, <2>1 DEF OwnersInv, ToolTypeOK
    <3> QED
      BY <3>1 DEF ToolInv, RevokedHasNoResults, Invocation
  <2>3. invocation' = [invocation EXCEPT ![Key[c]].status = "uncertain", ![Key[c]].result = row.result]
    <3>1. [row EXCEPT !.status = "uncertain"] = [row EXCEPT !.status = "uncertain", !.result = row.result]
      BY <2>2 DEF Invocation
    <3>2. invocation' = [invocation EXCEPT ![Key[c]] = [row EXCEPT !.status = "uncertain"]]
      BY <1>3 DEF Marks
    <3> QED
      BY <3>1, <3>2
  <2> QED
    BY <2>1, <2>2, <2>3, SettlePreserves
<1>4. CASE TimesOut(c)
  <2>1. CASE UNCHANGED <<sent, done>>
    BY <1>4, <2>1, MovesPreserve
  <2>2. CASE At(c, "sends") /\ sent' = sent \cup {c} /\ done' \in {done, [done EXCEPT ![Key[c]] = TRUE]}
    BY <1>4, <2>2, SendPreserves DEF TimesOut, Tells
  <2> QED
    BY <1>4, <2>1, <2>2 DEF TimesOut
<1> QED
  BY <1>1, <1>2, <1>3, <1>4

\* A revocation clears results and touches nothing else of the rows.
LEMMA RevokesPreserves == ASSUME ToolInv, Revokes PROVE ToolInv'
<1>0. /\ ToolTypeOK /\ OwnersInv /\ SentInv /\ ResultsInv
  BY DEF ToolInv
<1>1. UNCHANGED <<call, told, sent, done>> /\ revoked' = TRUE
  BY DEF Revokes
<1>2. ASSUME NEW k \in Keys
      PROVE  /\ invocation[k] = None => invocation'[k] = None
             /\ invocation[k] # None =>
                  /\ invocation'[k] \in Invocation /\ invocation'[k] # None
                  /\ invocation'[k].request = invocation[k].request
                  /\ invocation'[k].status = invocation[k].status
                  /\ ~invocation'[k].result
  <2>1. invocation'[k] = IF invocation[k] = None THEN None ELSE [invocation[k] EXCEPT !.result = FALSE]
    BY DEF Revokes
  <2>2. CASE invocation[k] = None
    BY <2>1, <2>2
  <2>3. CASE invocation[k] # None
    <3>1. invocation[k] \in Invocation
      BY <1>0, <2>3 DEF ToolTypeOK
    <3>2. invocation'[k] \in Invocation
      BY <2>1, <2>3, <3>1 DEF Invocation
    <3> QED
      BY <2>1, <2>3, <3>1, <3>2 DEF Invocation
  <2> QED
    BY <2>2, <2>3
<1>3. ToolTypeOK'
  <2>1. invocation' \in [Keys -> Invocation \cup {None}]
    BY <1>2 DEF Revokes
  <2> QED
    BY <1>0, <1>1, <2>1 DEF ToolTypeOK
<1>4. OwnersInv'
  BY <1>0, <1>1, <1>2 DEF OwnersInv, Owns
<1>5. SentInv'
  BY <1>0, <1>1, <1>2 DEF SentInv, Owns, ToolTypeOK
<1>6. \A k \in Keys : Happened(k) => Happened(k)'
  BY <1>1, <1>2 DEF Happened
<1>7. ResultsInv'
  <2>1. ASSUME NEW d \in Calls, At(d, "completes") PROVE (d \in sent /\ done[Key[d]])'
    BY <1>0, <1>1, <2>1 DEF ResultsInv
  <2>2. ASSUME NEW k \in Keys, (invocation[k] # None /\ invocation[k].status = "completed")'
        PROVE  Happened(k)'
    BY <1>0, <1>2, <1>6, <2>2 DEF ResultsInv
  <2>3. ASSUME NEW d \in Calls, At(d, "replays") \/ told[d] = "result"
        PROVE  (Happened(Key[d]) /\ invocation[Key[d]].request = Request[d])'
    <3>1. Happened(Key[d]) /\ invocation[Key[d]].request = Request[d]
      BY <1>0, <2>3 DEF ResultsInv
    <3>2. invocation[Key[d]] # None
      BY <3>1 DEF Happened
    <3> QED
      BY <1>2, <1>6, <3>1, <3>2
  <2> QED
    BY <1>1, <2>1, <2>2, <2>3 DEF ResultsInv, At
<1>8. RevokedHasNoResults'
  BY <1>2 DEF RevokedHasNoResults
<1> QED
  BY <1>3, <1>4, <1>5, <1>7, <1>8 DEF ToolInv

\* The end of the process ends its calls; time changes no place.
LEMMA ClockPreserves == ASSUME ToolInv, Crashes \/ Tick PROVE ToolInv'
<1>0. /\ ToolTypeOK /\ OwnersInv /\ SentInv /\ ResultsInv /\ RevokedHasNoResults
  BY DEF ToolInv
<1>1. UNCHANGED <<invocation, revoked, told, sent, done>>
  BY DEF Crashes, Tick
<1>2. call' \in [Calls -> Call]
  <2>1. CASE Crashes
    <3>1. \A c \in Calls : (IF At(c, "new") THEN call[c] ELSE [call[c] EXCEPT !.at = "ended"]) \in Call
      BY <1>0 DEF ToolTypeOK, Call, Places
    <3> QED
      BY <2>1, <3>1 DEF Crashes
  <2>2. CASE Tick
    <3> DEFINE next(c) == [call[c] EXCEPT !.age = IF At(c, "ended") THEN @ ELSE @ + 1,
                                          !.spent = IF Running(c) THEN @ + 1 ELSE @]
    <3>1. ASSUME NEW c \in Calls PROVE next(c) \in Call
      <4>1. call[c] \in Call /\ call[c].age < MaxTime /\ (Running(c) => call[c].spent < Deadline)
        BY <1>0, <2>2 DEF Tick, ToolTypeOK
      <4>2. (IF At(c, "ended") THEN call[c].age ELSE call[c].age + 1) \in 0..MaxTime
        BY <4>1 DEF Call
      <4>3. (IF Running(c) THEN call[c].spent + 1 ELSE call[c].spent) \in 0..Deadline
        BY <4>1 DEF Call
      <4> QED
        BY <4>1, <4>2, <4>3 DEF Call
    <3>2. call' = [c \in Calls |-> next(c)]
      BY <2>2 DEF Tick
    <3> HIDE DEF next
    <3> QED
      BY <3>1, <3>2
  <2> QED
    BY <2>1, <2>2
<1>3. ASSUME NEW c \in Calls PROVE call'[c].at \in {call[c].at, "ended"}
  <2>1. CASE Crashes
    BY <1>0, <2>1 DEF Crashes, ToolTypeOK, Call
  <2>2. CASE Tick
    <3>1. call[c] \in Call
      BY <1>0 DEF ToolTypeOK
    <3>2. call'[c] = [call[c] EXCEPT !.age = IF At(c, "ended") THEN @ ELSE @ + 1,
                                    !.spent = IF Running(c) THEN @ + 1 ELSE @]
      BY <2>2 DEF Tick
    <3> QED
      BY <3>1, <3>2 DEF Call
  <2> QED
    BY <2>1, <2>2
<1>4. ToolTypeOK'
  BY <1>0, <1>1, <1>2 DEF ToolTypeOK
<1>5. \A c \in Calls : Owns(c)' => Owns(c)
  BY <1>3 DEF Owns
<1>6. OwnersInv'
  BY <1>0, <1>1, <1>5 DEF OwnersInv
<1>7. SentInv'
  BY <1>0, <1>1, <1>3, <1>5 DEF SentInv, ToolTypeOK
<1>8. \A k \in Keys : Happened(k)' <=> Happened(k)
  BY <1>1 DEF Happened
<1>9. ResultsInv'
  BY <1>0, <1>1, <1>3, <1>8 DEF ResultsInv, At
<1>10. RevokedHasNoResults'
  BY <1>0, <1>1 DEF RevokedHasNoResults
<1> QED
  BY <1>4, <1>6, <1>7, <1>9, <1>10 DEF ToolInv

-----------------------------------------------------------------------------
\* ToolInv is inductive.
THEOREM ToolInvInductive ==
  /\ ToolInit => ToolInv
  /\ ToolInv /\ [ToolNext]_toolVars => ToolInv'
<1>1. ASSUME ToolInv, NEW c \in Calls, Arrives(c) \/ Step(c) \/ TimesOut(c) PROVE ToolInv'
  BY <1>1, MovesPreserve, ClaimPreserves, OwnersPreserve DEF Step
<1>2. ASSUME ToolInv, UNCHANGED toolVars PROVE ToolInv'
  BY <1>2 DEF toolVars, ToolInv, ToolTypeOK, OwnersInv, SentInv, ResultsInv, RevokedHasNoResults,
              Owns, At, Happened
<1> QED
  BY <1>1, <1>2, InitToolInv, RevokesPreserves, ClockPreserves DEF ToolNext

\* What the runs check is part of ToolInv.
LEMMA ToolInvImpliesSafe == ToolInv => ToolsAreSafe
<1> SUFFICES ASSUME ToolInv PROVE ToolsAreSafe
  OBVIOUS
<1>1. ResultsAreTrue
  BY DEF ToolInv, ResultsInv, ResultsAreTrue, Happened
<1>2. SentOnce
  BY DEF ToolInv, ToolTypeOK, SentInv, SentOnce
<1> QED
  BY <1>1, <1>2 DEF ToolInv, ToolsAreSafe

\* Whatever is lost, retried, timed out or revoked, of any number of calls: the request of a
\* key leaves once, a result that is told is that of the request, and a revoked connection
\* has none.
THEOREM ToolsSafe == ToolSpec => []ToolsAreSafe
<1>1. ToolInv /\ [ToolNext]_toolVars => ToolInv'
  BY ToolInvInductive
<1> QED
  BY <1>1, ToolInvInductive, ToolInvImpliesSafe, PTL DEF ToolSpec

-----------------------------------------------------------------------------
(***************************************************************************)
(* Private payloads.                                                        *)
(***************************************************************************)

(***************************************************************************)
(* The database d, the one in use or that of a backup, against the keys,    *)
(* the journal and the clock, which no restore rewinds.                     *)
(***************************************************************************)
Minted(d) == \A o \in Objects : d.row[o] # Nothing => key[o] # Nothing

OrphansOK(d) == \A o \in Objects : d.orphan[o] # 0 => key[o] # Nothing /\ d.row[o] = Nothing

PendingOK(d) == \A o \in Objects :
    d.row[o] # Nothing /\ d.row[o].state = "pending" => d.row[o].retired = 0

\* What an owner points to is its own, adopted and not retired.
PointersOK(d) == \A w \in Owners : d.point[w] # Nothing =>
    LET o == d.point[w]
    IN  /\ key[o] = w /\ d.claim[w] = "owned"
        /\ d.row[o] # Nothing /\ d.row[o].state = "adopted" /\ d.row[o].retired = 0

ClaimsOK(d) == \A w \in Owners : d.claim[w] # "owned" => w \in journal

SweptOK(d) == \A w \in Owners, o \in Objects :
    d.claim[w] = "swept" /\ key[o] = w /\ d.row[o] # Nothing => d.row[o].until <= clock

Sound(d) == Minted(d) /\ OrphansOK(d) /\ PendingOK(d) /\ PointersOK(d) /\ ClaimsOK(d) /\ SweptOK(d)

SoundInv == Sound(db) /\ \A b \in backups : Sound(b.db)

KnownInv == \A o \in store \cup late : key[o] # Nothing

WritersInv == \A o \in Objects : writer[o] # "none" =>
    /\ Registered(o)
    /\ writer[o] = "writing" => clock < db.row[o].until

ErasedInv == serving => \A w \in acked : db.claim[w] # "owned"

PayloadsInv ==
    /\ PayloadTypeOK /\ IsFiniteSet(backups)
    /\ SoundInv /\ KnownInv /\ WritersInv /\ ErasedInv

-----------------------------------------------------------------------------
\* What a step other than a restore may do to the database.
RowMoves(r, s) ==
    /\ s.until = r.until
    /\ r.retired # 0 => s.retired = r.retired
    /\ s.retired = r.retired \/ s.retired = clock
    /\ s.state = "pending" => r.state = "pending" /\ s.retired = r.retired

RowsMove == \A o \in Objects :
    db.row[o] # Nothing => db'.row[o] # Nothing /\ RowMoves(db.row[o], db'.row[o])

RowsStart == \A o \in Objects : db.row[o] = Nothing /\ db'.row[o] # Nothing =>
    /\ key[o] = Nothing /\ key'[o] \in Owners /\ db.claim[key'[o]] = "owned" /\ db'.claim = db.claim
    /\ db'.row[o].retired = 0

KeysGrow == \A o \in Objects : key[o] # Nothing => key'[o] = key[o]

OrphansMove == \A o \in Objects :
    \/ db'.orphan[o] = db.orphan[o]
    \/ /\ db'.orphan[o] = clock /\ db.orphan[o] = 0
       /\ db'.row[o] = Nothing /\ key'[o] # Nothing

Stays(w) == /\ db'.point[w] = db.point[w] /\ db'.claim[w] = db.claim[w]
            /\ db'.row[db.point[w]] = db.row[db.point[w]]

Adopts(w, o) == /\ db'.point[w] = o /\ key[o] = w /\ key'[o] = w /\ db'.claim[w] = "owned"
                /\ writer[o] = "ready" /\ Writable(o)
                /\ db'.row[o] # Nothing /\ db'.row[o].state = "adopted" /\ db'.row[o].retired = 0

PointersMove == \A w \in Owners :
    db'.point[w] # Nothing => Stays(w) \/ \E o \in Objects : Adopts(w, o)

ClaimsMove == \A w \in Owners :
    \/ db'.claim[w] = db.claim[w]
    \/ /\ db'.claim[w] # "owned" /\ w \in journal'
       /\ db'.claim[w] = "swept" => WindowsClosed(w) /\ db'.row = db.row /\ key' = key

TimeMoves == clock <= clock' /\ journal \subseteq journal'

DatabaseMoves == /\ RowsMove /\ RowsStart /\ KeysGrow /\ OrphansMove
                 /\ PointersMove /\ ClaimsMove /\ TimeMoves

-----------------------------------------------------------------------------
\* The parts of a database, of a row.
LEMMA Parts ==
    ASSUME NEW d \in Database
    PROVE  /\ d.row \in [Objects -> Row \cup {Nothing}]
           /\ d.point \in [Owners -> Objects \cup {Nothing}]
           /\ d.orphan \in [Objects -> Instant]
           /\ d.claim \in [Owners -> Claims]
           /\ d.floor \in Instant
BY DEF Database

LEMMA RowParts ==
    ASSUME NEW r \in Row
    PROVE  /\ r.state \in {"pending", "adopted", "deleting", "deleted"} /\ r.until \in Times
           /\ r.verified \in BOOLEAN /\ r.retired \in Instant
BY DEF Row

LEMMA FreshRow ==
    ASSUME PayloadConstants, PayloadTypeOK, clock + Window <= LastTime
    PROVE  Fresh \in Row /\ Fresh # Nothing /\ Fresh.retired = 0
<1>1. clock + Window \in Times
  BY DEF PayloadTypeOK, Times, PayloadConstants
<1>2. Fresh \in Row /\ Fresh.retired = 0
  BY <1>1 DEF Fresh, Row, Instant
<1> QED
  BY <1>2 DEF PayloadConstants

\* A row is retired once, when its owner leaves it.
LEMMA RetireRows ==
    ASSUME NEW rows \in [Objects -> Row \cup {Nothing}], NEW w \in Owners,
           db.point[w] \in Objects \cup {Nothing}, clock \in Times,
           db.point[w] # Nothing => rows[db.point[w]] \in Row
    PROVE  /\ Retire(rows, w) \in [Objects -> Row \cup {Nothing}]
           /\ \A o \in Objects : o # db.point[w] => Retire(rows, w)[o] = rows[o]
           /\ db.point[w] # Nothing =>
                  LET s == Retire(rows, w)[db.point[w]]  r == rows[db.point[w]]
                  IN  /\ s \in Row /\ s.state = r.state /\ s.until = r.until /\ s.verified = r.verified
                      /\ s.retired = IF r.retired = 0 /\ r.state = "adopted" THEN clock ELSE r.retired
<1>1. CASE db.point[w] = Nothing
  BY <1>1 DEF Retire
<1>2. CASE db.point[w] # Nothing
  <2>1. PICK o \in Objects : o = db.point[w]
    BY <1>2
  <2>2. DEFINE s == [rows[o] EXCEPT !.retired = IF @ = 0 /\ rows[o].state = "adopted" THEN clock ELSE @]
  <2>3. Retire(rows, w) = [rows EXCEPT ![o] = s]
    BY <1>2, <2>1 DEF Retire
  <2>4. rows[o] \in Row
    BY <1>2, <2>1
  <2>5. /\ s \in Row /\ s.state = rows[o].state /\ s.until = rows[o].until /\ s.verified = rows[o].verified
        /\ s.retired = IF rows[o].retired = 0 /\ rows[o].state = "adopted" THEN clock ELSE rows[o].retired
    BY <2>4 DEF Row, Instant
  <2> QED
    BY <1>2, <2>1, <2>3, <2>5
<1> QED
  BY <1>1, <1>2
-----------------------------------------------------------------------------
\* Steps that leave the database alone.
LEMMA DatabaseStays ==
    ASSUME db' = db, key' = key, clock <= clock', journal \subseteq journal'
    PROVE  DatabaseMoves
BY DEF DatabaseMoves, RowsMove, RowMoves, RowsStart, KeysGrow, OrphansMove, PointersMove, Stays,
       ClaimsMove, TimeMoves

LEMMA RegistersMoves ==
    ASSUME PayloadConstants, PayloadTypeOK, Sound(db), NEW o \in Objects, NEW w \in Owners, Registers(o, w)
    PROVE  PayloadTypeOK' /\ DatabaseMoves
<1>1. /\ db \in Database /\ clock \in Times /\ key[o] = Nothing /\ w # Nothing
      /\ db.row \in [Objects -> Row \cup {Nothing}] /\ key \in [Objects -> Owners \cup {Nothing}]
  BY Parts DEF PayloadTypeOK, Registers, PayloadConstants
<1>2. Fresh \in Row /\ Fresh # Nothing /\ Fresh.retired = 0
  BY FreshRow DEF Registers
<1>3. /\ db' \in Database /\ db'.row = [db.row EXCEPT ![o] = Fresh] /\ db'.point = db.point
      /\ db'.claim = db.claim /\ db'.orphan = db.orphan
  BY <1>1, <1>2 DEF Registers, Database
<1>4. db.row[o] = Nothing
  BY <1>1 DEF Sound, Minted
<1>5. PayloadTypeOK'
  BY <1>1, <1>3 DEF Registers, PayloadTypeOK, OutsideUnchanged, WriterPhases
<1>6. RowsMove /\ RowsStart /\ KeysGrow /\ OrphansMove /\ ClaimsMove /\ TimeMoves
  <2>1. RowsMove
    BY <1>1, <1>3, <1>4 DEF RowsMove, RowMoves
  <2>2. RowsStart
    BY <1>1, <1>2, <1>3 DEF RowsStart, Registers
  <2>3. KeysGrow /\ OrphansMove /\ ClaimsMove
    BY <1>1, <1>3 DEF KeysGrow, OrphansMove, ClaimsMove, Registers
  <2>4. TimeMoves
    BY <1>1 DEF TimeMoves, Registers, OutsideUnchanged, Times
  <2> QED
    BY <2>1, <2>2, <2>3, <2>4
<1>7. PointersMove
  <2> SUFFICES ASSUME NEW v \in Owners, db'.point[v] # Nothing
               PROVE  Stays(v)
    BY DEF PointersMove
  <2>1. db.row[db.point[v]] # Nothing /\ db.point[v] \in Objects
    BY <1>1, <1>3, Parts DEF Sound, PointersOK
  <2> QED
    BY <1>1, <1>3, <1>4, <2>1 DEF Stays
<1> QED
  BY <1>5, <1>6, <1>7 DEF DatabaseMoves

LEMMA WriterMoves ==
    ASSUME PayloadConstants, PayloadTypeOK, NEW o \in Objects,
           StartsPut(o) \/ PutLands(o) \/ WriterStops(o) \/ LatePut(o)
    PROVE  PayloadTypeOK' /\ DatabaseMoves
<1>1. db' = db /\ key' = key /\ clock' = clock /\ journal' = journal
  BY DEF StartsPut, PutLands, WriterStops, LatePut, OutsideUnchanged
<1>2. clock \in Nat
  BY DEF PayloadTypeOK, Times
<1>3. PayloadTypeOK'
  BY <1>1 DEF StartsPut, PutLands, WriterStops, LatePut, OutsideUnchanged, PayloadTypeOK, Abandoned,
              WriterPhases
<1> QED
  BY <1>1, <1>2, <1>3, DatabaseStays

LEMMA VerifiesMoves ==
    ASSUME PayloadConstants, PayloadTypeOK, Sound(db), NEW o \in Objects, Verifies(o)
    PROVE  PayloadTypeOK' /\ DatabaseMoves
<1>1. /\ db \in Database /\ clock \in Times
      /\ db.row \in [Objects -> Row \cup {Nothing}] /\ db.row[o] \in Row /\ db.row[o] # Nothing
      /\ db.row[o].state = "pending"
  BY Parts DEF PayloadTypeOK, Verifies, Writable, Registered
<1> DEFINE s == [db.row[o] EXCEPT !.verified = TRUE]
<1>2. s \in Row /\ s # Nothing /\ s.retired = db.row[o].retired /\ s.until = db.row[o].until
      /\ s.state = db.row[o].state
  BY <1>1 DEF Row, PayloadConstants
<1>3. /\ db' \in Database /\ db'.row = [db.row EXCEPT ![o] = s] /\ db'.point = db.point
      /\ db'.claim = db.claim /\ db'.orphan = db.orphan
  BY <1>1, <1>2 DEF Verifies, Database
<1>4. PayloadTypeOK'
  BY <1>1, <1>3 DEF Verifies, PayloadTypeOK, OutsideUnchanged, WriterPhases
<1> HIDE DEF s
<1>5. RowsMove /\ RowsStart
  BY <1>1, <1>2, <1>3 DEF RowsMove, RowMoves, RowsStart
<1>6. KeysGrow /\ OrphansMove /\ ClaimsMove /\ TimeMoves
  BY <1>1, <1>3 DEF KeysGrow, OrphansMove, ClaimsMove, TimeMoves, Verifies, OutsideUnchanged, Times
<1>7. PointersMove
  <2> SUFFICES ASSUME NEW v \in Owners, db'.point[v] # Nothing
               PROVE  Stays(v)
    BY DEF PointersMove
  <2>1. db.row[db.point[v]].state = "adopted" /\ db.point[v] \in Objects
    BY <1>1, <1>3, Parts DEF Sound, PointersOK
  <2> QED
    BY <1>1, <1>3, <2>1 DEF Stays
<1> QED
  BY <1>4, <1>5, <1>6, <1>7 DEF DatabaseMoves

\* An owner gives up its object, by itself or with all it has.
LEMMA LeavingMoves ==
    ASSUME PayloadConstants, PayloadTypeOK, Sound(db), NEW w \in Owners, NEW c \in Claims,
           c = db.claim[w] \/ (c \in {"asked", "queued"} /\ w \in journal'),
           db'.row = Retire(db.row, w), db'.point = [db.point EXCEPT ![w] = Nothing],
           db'.claim = [db.claim EXCEPT ![w] = c], db'.orphan = db.orphan,
           key' = key, clock' = clock, journal \subseteq journal'
    PROVE  DatabaseMoves
<1>1. /\ db.row \in [Objects -> Row \cup {Nothing}] /\ db.point \in [Owners -> Objects \cup {Nothing}]
      /\ db.claim \in [Owners -> Claims] /\ clock \in Times /\ Nothing \notin Row
  BY Parts DEF PayloadTypeOK, PayloadConstants
<1>2. db.point[w] # Nothing => /\ db.row[db.point[w]] \in Row /\ key[db.point[w]] = w
                               /\ db.row[db.point[w]].retired = 0
                               /\ db.row[db.point[w]].state = "adopted"
  BY <1>1 DEF Sound, PointersOK
<1>3. /\ \A o \in Objects : o # db.point[w] => db'.row[o] = db.row[o]
      /\ db.point[w] # Nothing =>
             LET s == db'.row[db.point[w]]
             IN  s \in Row /\ s.state = "adopted" /\ s.until = db.row[db.point[w]].until /\ s.retired = clock
  BY <1>1, <1>2, RetireRows
<1>4. \A o \in Objects : /\ db.row[o] # Nothing => db'.row[o] # Nothing /\ RowMoves(db.row[o], db'.row[o])
                         /\ db.row[o] = Nothing => db'.row[o] = Nothing
  <2> SUFFICES ASSUME NEW o \in Objects
               PROVE  /\ db.row[o] # Nothing => db'.row[o] # Nothing /\ RowMoves(db.row[o], db'.row[o])
                      /\ db.row[o] = Nothing => db'.row[o] = Nothing
    OBVIOUS
  <2>1. CASE o # db.point[w]
    BY <1>3, <2>1 DEF RowMoves
  <2>2. CASE o = db.point[w]
    <3>1. o # Nothing
      BY DEF PayloadConstants
    <3>2. /\ db.row[o] \in Row /\ db.row[o].retired = 0
          /\ db'.row[o] \in Row /\ db'.row[o].state = "adopted"
          /\ db'.row[o].until = db.row[o].until /\ db'.row[o].retired = clock
      BY <1>2, <1>3, <2>2, <3>1
    <3> QED
      BY <1>1, <3>2 DEF RowMoves
  <2> QED
    BY <2>1, <2>2
<1>5. RowsMove /\ RowsStart /\ KeysGrow /\ OrphansMove /\ ClaimsMove /\ TimeMoves
  <2>1. RowsMove /\ RowsStart
    BY <1>4 DEF RowsMove, RowsStart
  <2>2. KeysGrow /\ OrphansMove /\ ClaimsMove /\ TimeMoves
    BY <1>1 DEF KeysGrow, OrphansMove, ClaimsMove, TimeMoves, Times
  <2> QED
    BY <2>1, <2>2
<1>6. PointersMove
  <2> SUFFICES ASSUME NEW v \in Owners, db'.point[v] # Nothing
               PROVE  Stays(v)
    BY DEF PointersMove
  <2>1. v # w /\ db'.point[v] = db.point[v] /\ db'.claim[v] = db.claim[v]
    BY <1>1
  <2>2. db.point[v] \in Objects /\ key[db.point[v]] = v
    BY <1>1, <2>1 DEF Sound, PointersOK
  <2>3. db.point[v] # db.point[w]
    BY <1>2, <2>1, <2>2
  <2> QED
    BY <1>3, <2>1, <2>2, <2>3 DEF Stays
<1> QED
  BY <1>5, <1>6 DEF DatabaseMoves

LEMMA WithdrawsMoves ==
    ASSUME PayloadConstants, PayloadTypeOK, Sound(db), NEW w \in Owners, Withdraws(w)
    PROVE  PayloadTypeOK' /\ DatabaseMoves
<1>1. /\ db \in Database /\ db.claim \in [Owners -> Claims] /\ clock \in Times
      /\ db.row \in [Objects -> Row \cup {Nothing}] /\ db.point \in [Owners -> Objects \cup {Nothing}]
      /\ Nothing \notin Row
  BY Parts DEF PayloadTypeOK, PayloadConstants
<1>2. Retire(db.row, w) \in [Objects -> Row \cup {Nothing}]
  <2>1. db.point[w] # Nothing => db.row[db.point[w]] \in Row
    BY <1>1 DEF Sound, PointersOK
  <2> QED
    BY <1>1, <2>1, RetireRows
<1>3. /\ db' \in Database /\ db'.row = Retire(db.row, w) /\ db'.point = [db.point EXCEPT ![w] = Nothing]
      /\ db'.claim = [db.claim EXCEPT ![w] = db.claim[w]] /\ db'.orphan = db.orphan
  BY <1>1, <1>2 DEF Withdraws, Database
<1>4. key' = key /\ clock' = clock /\ journal' = journal
  BY DEF Withdraws, OutsideUnchanged
<1>5. PayloadTypeOK'
  BY <1>3 DEF Withdraws, OutsideUnchanged, PayloadTypeOK
<1>6. db.claim[w] \in Claims
  BY <1>1
<1> QED
  BY <1>3, <1>4, <1>5, <1>6, LeavingMoves

LEMMA PublishesMoves ==
    ASSUME PayloadConstants, PayloadTypeOK, Sound(db), NEW o \in Objects, Publishes(o)
    PROVE  PayloadTypeOK' /\ DatabaseMoves
<1> DEFINE w == key[o]
           r == [db.row[o] EXCEPT !.state = "adopted"]
           rows == [db.row EXCEPT ![o].state = "adopted"]
           p == db.point[w]
<1>1. /\ db \in Database /\ db.claim \in [Owners -> Claims] /\ clock \in Times
      /\ db.row \in [Objects -> Row \cup {Nothing}] /\ db.point \in [Owners -> Objects \cup {Nothing}]
      /\ Nothing \notin Row /\ Nothing \notin Objects
      /\ key \in [Objects -> Owners \cup {Nothing}]
  BY Parts DEF PayloadTypeOK, PayloadConstants
<1>2. /\ db.row[o] \in Row /\ db.row[o].state = "pending" /\ Writable(o) /\ writer[o] = "ready"
      /\ db.claim[w] = "owned"
  BY <1>1 DEF Publishes, Writable, Registered
<1>3. w \in Owners /\ db.row[o].retired = 0
  BY <1>1, <1>2 DEF Sound, Minted, PendingOK
<1>4. /\ r \in Row /\ r.state = "adopted" /\ r.until = db.row[o].until /\ r.retired = 0
      /\ rows = [db.row EXCEPT ![o] = r]
  BY <1>1, <1>2, <1>3 DEF Row
<1>5. p # Nothing => /\ db.row[p] \in Row /\ p \in Objects /\ p # o /\ key[p] = w /\ db.row[p].retired = 0
                     /\ db.row[p].state = "adopted"
  BY <1>1, <1>2, <1>3 DEF Sound, PointersOK
<1> HIDE DEF r
<1>6. /\ rows \in [Objects -> Row \cup {Nothing}] /\ rows[o] = r
      /\ p # Nothing => rows[p] = db.row[p] /\ rows[p] \in Row
      /\ \A q \in Objects : q # o => rows[q] = db.row[q]
  BY <1>1, <1>4, <1>5
<1> HIDE DEF rows
<1>7. /\ Retire(rows, w) \in [Objects -> Row \cup {Nothing}]
      /\ \A q \in Objects : q # p => Retire(rows, w)[q] = rows[q]
      /\ p # Nothing => LET s == Retire(rows, w)[p]
                        IN  s \in Row /\ s.state = "adopted" /\ s.until = db.row[p].until /\ s.retired = clock
  BY <1>1, <1>3, <1>5, <1>6, RetireRows
<1>8. /\ db' \in Database /\ db'.row = Retire(rows, w) /\ db'.point = [db.point EXCEPT ![w] = o]
      /\ db'.claim = db.claim /\ db'.orphan = db.orphan
  BY <1>1, <1>3, <1>7 DEF Publishes, Database, rows
<1>9. key' = key /\ clock' = clock /\ journal' = journal
  BY DEF Publishes, OutsideUnchanged
<1>10. PayloadTypeOK'
  BY <1>1, <1>8 DEF Publishes, OutsideUnchanged, PayloadTypeOK, WriterPhases
<1>11. /\ db'.row[o] = r
       /\ p # Nothing => db'.row[p] \in Row /\ db'.row[p].state = "adopted"
                         /\ db'.row[p].until = db.row[p].until /\ db'.row[p].retired = clock
       /\ \A q \in Objects : q # o /\ q # p => db'.row[q] = db.row[q]
  BY <1>1, <1>5, <1>6, <1>7, <1>8
<1> HIDE DEF p, w
<1>12. RowsMove
  BY <1>1, <1>2, <1>3, <1>4, <1>5, <1>11 DEF RowsMove, RowMoves
<1>13. RowsStart
  BY <1>1, <1>2, <1>5, <1>11 DEF RowsStart
<1>14. KeysGrow /\ OrphansMove /\ ClaimsMove /\ TimeMoves
  BY <1>1, <1>8, <1>9 DEF KeysGrow, OrphansMove, ClaimsMove, TimeMoves, Times
<1>15. PointersMove
  <2> SUFFICES ASSUME NEW v \in Owners, db'.point[v] # Nothing
               PROVE  Stays(v) \/ \E q \in Objects : Adopts(v, q)
    BY DEF PointersMove
  <2>1. CASE v = w
    <3>1. key[o] = v /\ db'.point[v] = o
      BY <1>1, <1>3, <1>8, <2>1 DEF w
    <3>2. Adopts(v, o)
      BY <1>1, <1>2, <1>4, <1>8, <1>9, <1>11, <2>1, <3>1 DEF Adopts
    <3> QED
      BY <3>2
  <2>2. CASE v # w
    <3>1. db'.point[v] = db.point[v] /\ db'.claim[v] = db.claim[v]
      BY <1>1, <1>8, <2>2
    <3>2. db.point[v] \in Objects /\ key[db.point[v]] = v /\ db.row[db.point[v]].state = "adopted"
      BY <1>1, <3>1 DEF Sound, PointersOK
    <3>3. db.point[v] # o /\ db.point[v] # p
      BY <1>2, <1>5, <2>2, <3>1, <3>2
    <3> QED
      BY <1>11, <3>1, <3>2, <3>3 DEF Stays
  <2> QED
    BY <2>1, <2>2
<1> QED
  BY <1>10, <1>12, <1>13, <1>14, <1>15 DEF DatabaseMoves
\* The collector changes the row of an object that nothing points to.
LEMMA CollectingMoves ==
    ASSUME PayloadConstants, PayloadTypeOK, Sound(db), NEW o \in Objects, NEW s \in Row,
           ~Referenced(o), db.row[o] # Nothing, RowMoves(db.row[o], s),
           db'.row = [db.row EXCEPT ![o] = s], db'.point = db.point, db'.claim = db.claim,
           db'.orphan = db.orphan, key' = key, clock' = clock, journal' = journal
    PROVE  DatabaseMoves
<1>1. /\ db.row \in [Objects -> Row \cup {Nothing}] /\ db.point \in [Owners -> Objects \cup {Nothing}]
      /\ clock \in Times /\ s # Nothing
  BY Parts DEF PayloadTypeOK, PayloadConstants
<1>2. RowsMove /\ RowsStart
  BY <1>1 DEF RowsMove, RowMoves, RowsStart
<1>3. KeysGrow /\ OrphansMove /\ ClaimsMove /\ TimeMoves
  BY <1>1 DEF KeysGrow, OrphansMove, ClaimsMove, TimeMoves, Times
<1>4. PointersMove
  <2> SUFFICES ASSUME NEW v \in Owners, db'.point[v] # Nothing
               PROVE  Stays(v)
    BY DEF PointersMove
  <2>1. db.point[v] # o /\ db.point[v] \in Objects
    BY <1>1 DEF Referenced
  <2> QED
    BY <1>1, <2>1 DEF Stays
<1> QED
  BY <1>2, <1>3, <1>4 DEF DatabaseMoves

LEMMA QuarantinesMoves ==
    ASSUME PayloadConstants, PayloadTypeOK, Sound(db), NEW o \in Objects, Quarantines(o)
    PROVE  PayloadTypeOK' /\ DatabaseMoves
<1> DEFINE s == [db.row[o] EXCEPT !.state = "deleting", !.retired = clock]
<1>1. /\ db \in Database /\ clock \in Times /\ db.row \in [Objects -> Row \cup {Nothing}]
      /\ db.row[o] \in Row /\ db.row[o] # Nothing /\ db.row[o].retired = 0 /\ ~Referenced(o)
  BY Parts DEF PayloadTypeOK, PayloadConstants, Quarantines, Idle, Registered
<1>2. s \in Row /\ RowMoves(db.row[o], s)
  <2>1. clock \in Instant
    BY <1>1 DEF Instant
  <2> QED
    BY <1>1, <2>1 DEF Row, RowMoves
<1>3. /\ db' \in Database /\ db'.row = [db.row EXCEPT ![o] = s] /\ db'.point = db.point
      /\ db'.claim = db.claim /\ db'.orphan = db.orphan
  BY <1>1, <1>2 DEF Quarantines, Database
<1>4. key' = key /\ clock' = clock /\ journal' = journal
  BY DEF Quarantines, CollectorUnchanged, OutsideUnchanged
<1>5. PayloadTypeOK'
  BY <1>3 DEF Quarantines, CollectorUnchanged, OutsideUnchanged, PayloadTypeOK
<1> QED
  BY <1>1, <1>2, <1>3, <1>4, <1>5, CollectingMoves

LEMMA RemovesMoves ==
    ASSUME PayloadConstants, PayloadTypeOK, Sound(db), NEW o \in Objects, Removes(o)
    PROVE  PayloadTypeOK' /\ DatabaseMoves
<1>1. /\ db \in Database /\ clock \in Times /\ db.row \in [Objects -> Row \cup {Nothing}]
      /\ db.row[o] \in Row /\ db.row[o] # Nothing /\ ~Referenced(o)
  BY Parts DEF PayloadTypeOK, PayloadConstants, Removes, Idle, Registered
<1>2. PICK t \in {"deleting", "deleted"} : db' = [db EXCEPT !.row[o].state = t]
  BY DEF Removes
<1> DEFINE s == [db.row[o] EXCEPT !.state = t]
<1>3. s \in Row /\ RowMoves(db.row[o], s)
  BY <1>1 DEF Row, RowMoves
<1>4. /\ db' \in Database /\ db'.row = [db.row EXCEPT ![o] = s] /\ db'.point = db.point
      /\ db'.claim = db.claim /\ db'.orphan = db.orphan
  BY <1>1, <1>2, <1>3 DEF Database
<1>5. key' = key /\ clock' = clock /\ journal' = journal
  BY DEF Removes, CollectorUnchanged, OutsideUnchanged
<1>6. PayloadTypeOK'
  BY <1>4 DEF Removes, CollectorUnchanged, OutsideUnchanged, PayloadTypeOK
<1> QED
  BY <1>1, <1>3, <1>4, <1>5, <1>6, CollectingMoves

LEMMA DiscoversMoves ==
    ASSUME PayloadConstants, PayloadTypeOK, Sound(db), KnownInv, NEW o \in Objects, Discovers(o)
    PROVE  PayloadTypeOK' /\ DatabaseMoves
<1>1. /\ db \in Database /\ clock \in Times /\ clock \in Instant /\ db.orphan \in [Objects -> Instant]
      /\ db.row[o] = Nothing /\ db.orphan[o] = 0 /\ key[o] # Nothing
  BY Parts DEF PayloadTypeOK, PayloadConstants, Discovers, Registered, KnownInv, Instant
<1>2. /\ db' \in Database /\ db'.row = db.row /\ db'.point = db.point
      /\ db'.claim = db.claim /\ db'.orphan = [db.orphan EXCEPT ![o] = clock]
  BY <1>1 DEF Discovers, Database
<1>3. key' = key /\ clock' = clock /\ journal' = journal
  BY DEF Discovers, CollectorUnchanged, OutsideUnchanged
<1>4. PayloadTypeOK'
  BY <1>2 DEF Discovers, CollectorUnchanged, OutsideUnchanged, PayloadTypeOK
<1>5. RowsMove /\ RowsStart /\ KeysGrow
  BY <1>2, <1>3 DEF RowsMove, RowMoves, RowsStart, KeysGrow
<1>6. OrphansMove
  BY <1>1, <1>2, <1>3 DEF OrphansMove
<1>7. PointersMove /\ ClaimsMove /\ TimeMoves
  BY <1>1, <1>2, <1>3 DEF PointersMove, Stays, ClaimsMove, TimeMoves, Times
<1> QED
  BY <1>4, <1>5, <1>6, <1>7 DEF DatabaseMoves

LEMMA RemovesOrphanMoves ==
    ASSUME PayloadConstants, PayloadTypeOK, NEW o \in Objects, RemovesOrphan(o)
    PROVE  PayloadTypeOK' /\ DatabaseMoves
<1>1. db' = db /\ key' = key /\ clock' = clock /\ journal' = journal /\ clock \in Nat
  BY DEF RemovesOrphan, CollectorUnchanged, OutsideUnchanged, PayloadTypeOK, Times
<1>2. PayloadTypeOK'
  BY <1>1 DEF RemovesOrphan, CollectorUnchanged, OutsideUnchanged, PayloadTypeOK
<1> QED
  BY <1>1, <1>2, DatabaseStays

\* The journal remembers an erasure before the database does.
LEMMA AsksErasureMoves ==
    ASSUME PayloadConstants, PayloadTypeOK, Sound(db), NEW w \in Erasable, AsksErasure(w)
    PROVE  PayloadTypeOK' /\ DatabaseMoves
<1>1. /\ db \in Database /\ db.claim \in [Owners -> Claims] /\ clock \in Times /\ w \in Owners
      /\ db.row \in [Objects -> Row \cup {Nothing}] /\ db.point \in [Owners -> Objects \cup {Nothing}]
      /\ Nothing \notin Row /\ journal \subseteq Erasable /\ acked \subseteq journal
  BY Parts DEF PayloadTypeOK, PayloadConstants
<1>2. /\ key' = key /\ clock' = clock /\ journal' = journal \cup {w}
      /\ UNCHANGED <<store, late, writer, backups, restores, serving, lineage, forked>>
  BY DEF AsksErasure
<1>3. CASE UNCHANGED <<db, acked>>
  <2>1. PayloadTypeOK'
    BY <1>1, <1>2, <1>3 DEF PayloadTypeOK
  <2>2. clock <= clock'
    BY <1>1, <1>2 DEF Times
  <2> QED
    BY <1>2, <1>3, <2>1, <2>2, DatabaseStays
<1>4. CASE acked' = acked \cup {w} /\ \E c \in {"asked", "queued"} :
               db' = [db EXCEPT !.row = Retire(db.row, w), !.point[w] = Nothing, !.claim[w] = c]
  <2>1. PICK c \in {"asked", "queued"} :
            db' = [db EXCEPT !.row = Retire(db.row, w), !.point[w] = Nothing, !.claim[w] = c]
    BY <1>4
  <2>2. Retire(db.row, w) \in [Objects -> Row \cup {Nothing}]
    <3>1. db.point[w] # Nothing => db.row[db.point[w]] \in Row
      BY <1>1 DEF Sound, PointersOK
    <3> QED
      BY <1>1, <3>1, RetireRows
  <2>3. c \in Claims
    BY DEF Claims
  <2>4. /\ db' \in Database /\ db'.row = Retire(db.row, w)
        /\ db'.point = [db.point EXCEPT ![w] = Nothing]
        /\ db'.claim = [db.claim EXCEPT ![w] = c] /\ db'.orphan = db.orphan
    BY <1>1, <2>1, <2>2, <2>3 DEF Database
  <2>5. PayloadTypeOK'
    BY <1>1, <1>2, <1>4, <2>4 DEF PayloadTypeOK
  <2>6. w \in journal' /\ journal \subseteq journal'
    BY <1>2
  <2>7. DatabaseMoves
    BY <1>1, <1>2, <2>3, <2>4, <2>6, LeavingMoves
  <2> QED
    BY <2>5, <2>7
<1> QED
  BY <1>3, <1>4 DEF AsksErasure

LEMMA ReconcilesMoves ==
    ASSUME PayloadConstants, PayloadTypeOK, Sound(db), NEW w \in Erasable, Reconciles(w)
    PROVE  PayloadTypeOK' /\ DatabaseMoves
<1>1. /\ db \in Database /\ db.claim \in [Owners -> Claims] /\ clock \in Times /\ w \in Owners
      /\ db.row \in [Objects -> Row \cup {Nothing}] /\ db.point \in [Owners -> Objects \cup {Nothing}]
      /\ Nothing \notin Row
  BY Parts DEF PayloadTypeOK, PayloadConstants
<1>2. Retire(db.row, w) \in [Objects -> Row \cup {Nothing}]
  <2>1. db.point[w] # Nothing => db.row[db.point[w]] \in Row
    BY <1>1 DEF Sound, PointersOK
  <2> QED
    BY <1>1, <2>1, RetireRows
<1>3. "queued" \in Claims
  BY DEF Claims
<1>4. /\ db' \in Database /\ db'.row = Retire(db.row, w)
      /\ db'.point = [db.point EXCEPT ![w] = Nothing]
      /\ db'.claim = [db.claim EXCEPT ![w] = "queued"] /\ db'.orphan = db.orphan
  BY <1>1, <1>2, <1>3 DEF Reconciles, Database
<1>5. key' = key /\ clock' = clock /\ journal' = journal /\ w \in journal
  BY DEF Reconciles, ServiceUnchanged
<1>6. PayloadTypeOK'
  BY <1>4 DEF Reconciles, ServiceUnchanged, PayloadTypeOK
<1>7. DatabaseMoves
  BY <1>1, <1>3, <1>4, <1>5, LeavingMoves
<1> QED
  BY <1>6, <1>7

\* An erasure is queued, or swept; a sweep takes objects.
LEMMA ErasureMoves ==
    ASSUME PayloadConstants, PayloadTypeOK, Sound(db), NEW w \in Erasable,
           QueuesErasure(w) \/ Sweeps(w) \/ SweepFails(w)
    PROVE  PayloadTypeOK' /\ DatabaseMoves
<1>1. /\ db \in Database /\ db.claim \in [Owners -> Claims] /\ clock \in Times /\ w \in Owners
      /\ w \in journal
  <2>1. /\ db \in Database /\ db.claim \in [Owners -> Claims] /\ clock \in Times /\ w \in Owners
    BY Parts DEF PayloadTypeOK, PayloadConstants
  <2> QED
    BY <2>1 DEF Sound, ClaimsOK, QueuesErasure, Sweeps, SweepFails
<1>2. key' = key /\ clock' = clock /\ journal' = journal /\ clock \in Nat
  BY <1>1 DEF QueuesErasure, Sweeps, SweepFails, CollectorUnchanged, OutsideUnchanged, Times
<1>3. CASE SweepFails(w)
  <2>1. db' = db /\ store' \subseteq store
    BY <1>3 DEF SweepFails
  <2>2. PayloadTypeOK'
    BY <1>3, <2>1 DEF SweepFails, CollectorUnchanged, OutsideUnchanged, PayloadTypeOK
  <2> QED
    BY <1>2, <2>1, <2>2, DatabaseStays
<1>4. CASE QueuesErasure(w) \/ Sweeps(w)
  <2>1. PICK c \in {"queued", "swept"} : /\ db' = [db EXCEPT !.claim[w] = c]
                                         /\ c = "swept" => WindowsClosed(w)
    BY <1>4 DEF QueuesErasure, Sweeps
  <2>2. /\ db' \in Database /\ db'.row = db.row /\ db'.point = db.point
        /\ db'.claim = [db.claim EXCEPT ![w] = c] /\ db'.orphan = db.orphan
    BY <1>1, <2>1 DEF Database, Claims
  <2>3. PayloadTypeOK'
    BY <1>4, <2>2 DEF QueuesErasure, Sweeps, CollectorUnchanged, OutsideUnchanged, PayloadTypeOK
  <2>4. RowsMove /\ RowsStart /\ KeysGrow /\ OrphansMove /\ TimeMoves
    BY <1>2, <2>2 DEF RowsMove, RowMoves, RowsStart, KeysGrow, OrphansMove, TimeMoves
  <2>5. ClaimsMove
    BY <1>1, <1>2, <2>1, <2>2 DEF ClaimsMove
  <2>6. PointersMove
    <3> SUFFICES ASSUME NEW v \in Owners, db'.point[v] # Nothing
                 PROVE  Stays(v)
      BY DEF PointersMove
    <3>1. db.claim[w] # "owned" /\ db.claim[v] = "owned"
      BY <1>4, <2>2 DEF QueuesErasure, Sweeps, Sound, PointersOK
    <3> QED
      BY <1>1, <2>2, <3>1 DEF Stays
  <2> QED
    BY <2>3, <2>4, <2>5, <2>6 DEF DatabaseMoves
<1> QED
  BY <1>3, <1>4

LEMMA TicksMoves ==
    ASSUME PayloadConstants, PayloadTypeOK, Ticks
    PROVE  PayloadTypeOK' /\ DatabaseMoves
<1>1. db' = db /\ key' = key /\ clock' = clock + 1 /\ journal' = journal /\ clock \in Nat
  BY DEF Ticks, PayloadTypeOK, Times
<1>2. clock' \in Times
  BY <1>1 DEF Ticks, PayloadTypeOK, Times, PayloadConstants
<1>3. PayloadTypeOK'
  BY <1>1, <1>2 DEF Ticks, PayloadTypeOK, Abandoned, WriterPhases
<1> QED
  BY <1>1, <1>3, DatabaseStays

LEMMA ServiceMoves ==
    ASSUME PayloadConstants, PayloadTypeOK, Stops \/ Serves
    PROVE  PayloadTypeOK' /\ DatabaseMoves
<1>1. db' = db /\ key' = key /\ clock' = clock /\ journal' = journal /\ clock \in Nat
  BY DEF Stops, Serves, ServiceUnchanged, PayloadTypeOK, Times
<1>2. PayloadTypeOK'
  BY <1>1 DEF Stops, Serves, Halt, ServiceUnchanged, PayloadTypeOK, Abandoned, WriterPhases
<1> QED
  BY <1>1, <1>2, DatabaseStays

LEMMA BackupsMove ==
    ASSUME PayloadConstants, PayloadTypeOK, IsFiniteSet(backups),
           BacksUp \/ \E b \in backups : Expires(b)
    PROVE  PayloadTypeOK' /\ IsFiniteSet(backups)' /\ DatabaseMoves
<1>1. db' = db /\ key' = key /\ clock' = clock /\ journal' = journal /\ clock \in Nat
  BY DEF BacksUp, Expires, ServiceUnchanged, PayloadTypeOK, Times
<1>2. backups' \subseteq Backup /\ IsFiniteSet(backups') /\ Cardinality(backups') <= MaxBackups
  <2>1. CASE BacksUp
    <3> DEFINE b == [start |-> clock, db |-> db]
    <3>1. b \in Backup
      BY DEF PayloadTypeOK, Backup
    <3>2. Cardinality(backups) \in Nat /\ Cardinality(backups) < MaxBackups /\ MaxBackups \in Nat
      BY <2>1, FS_CardinalityType DEF BacksUp, PayloadConstants
    <3>3. /\ IsFiniteSet(backups \cup {b})
          /\ \/ Cardinality(backups \cup {b}) = Cardinality(backups)
             \/ Cardinality(backups \cup {b}) = Cardinality(backups) + 1
      BY FS_AddElement
    <3> QED
      BY <2>1, <3>1, <3>2, <3>3 DEF BacksUp, PayloadTypeOK
  <2>2. CASE \E b \in backups : Expires(b)
    <3>1. backups' \subseteq backups
      BY <2>2 DEF Expires
    <3>2. /\ IsFiniteSet(backups') /\ Cardinality(backups') <= Cardinality(backups)
          /\ Cardinality(backups') \in Nat /\ Cardinality(backups) \in Nat
      BY <3>1, FS_Subset, FS_CardinalityType
    <3> QED
      BY <3>1, <3>2 DEF PayloadTypeOK, PayloadConstants
  <2> QED
    BY <2>1, <2>2
<1>3. PayloadTypeOK'
  <2>1. lineage' \subseteq backups' /\ forked' = forked
    BY DEF BacksUp, Expires, PayloadTypeOK
  <2> QED
    BY <1>1, <1>2, <2>1 DEF BacksUp, Expires, ServiceUnchanged, PayloadTypeOK
<1> QED
  BY <1>1, <1>2, <1>3, DatabaseStays

LEMMA ProbesMoves ==
    ASSUME PayloadConstants, PayloadTypeOK, NEW b \in backups, Probes(b)
    PROVE  PayloadTypeOK' /\ DatabaseMoves
<1>1. key' = key /\ clock' = clock /\ journal' = journal /\ clock \in Nat
  BY DEF Probes, ServiceUnchanged, PayloadTypeOK, Times
<1>2. db \in Database /\ b.start \in Instant
  BY DEF PayloadTypeOK, Backup, Instant
<1>3. /\ db' \in Database /\ db'.row = db.row /\ db'.point = db.point /\ db'.claim = db.claim
      /\ db'.orphan = db.orphan
  BY <1>2 DEF Probes, Database
<1>4. PayloadTypeOK'
  BY <1>3 DEF Probes, ServiceUnchanged, PayloadTypeOK
<1>5. DatabaseMoves
  BY <1>1, <1>3 DEF DatabaseMoves, RowsMove, RowMoves, RowsStart, KeysGrow, OrphansMove, PointersMove,
                    Stays, ClaimsMove, TimeMoves
<1> QED
  BY <1>4, <1>5
-----------------------------------------------------------------------------
(***************************************************************************)
(* What holds of a database goes on to hold, under whatever the step does   *)
(* to it, and of the databases in the backups, since keys, the journal and  *)
(* the clock only grow.                                                     *)
(***************************************************************************)
LEMMA SoundMoves ==
    ASSUME PayloadConstants, PayloadTypeOK, PayloadTypeOK', Sound(db), DatabaseMoves
    PROVE  Sound(db)'
<1>1. /\ RowsMove /\ RowsStart /\ KeysGrow /\ OrphansMove /\ PointersMove /\ ClaimsMove /\ TimeMoves
      /\ Minted(db) /\ OrphansOK(db) /\ PendingOK(db) /\ PointersOK(db) /\ ClaimsOK(db) /\ SweptOK(db)
  BY DEF DatabaseMoves, Sound
<1>2. Nothing \notin Owners /\ Nothing \notin Objects
  BY DEF PayloadConstants
<1>3. Minted(db)'
  BY <1>1, <1>2 DEF Minted, RowsStart, KeysGrow
<1>4. OrphansOK(db)'
  <2> SUFFICES ASSUME NEW o \in Objects, db'.orphan[o] # 0
               PROVE  key'[o] # Nothing /\ db'.row[o] = Nothing
    BY DEF OrphansOK
  <2>1. CASE db'.orphan[o] = db.orphan[o]
    <3>1. key[o] # Nothing /\ db.row[o] = Nothing
      BY <1>1, <2>1 DEF OrphansOK
    <3> QED
      BY <1>1, <3>1 DEF KeysGrow, RowsStart
  <2>2. CASE db'.row[o] = Nothing /\ key'[o] # Nothing
    BY <2>2
  <2> QED
    BY <1>1, <2>1, <2>2 DEF OrphansMove
<1>5. PendingOK(db)'
  <2> SUFFICES ASSUME NEW o \in Objects, db'.row[o] # Nothing, db'.row[o].state = "pending"
               PROVE  db'.row[o].retired = 0
    BY DEF PendingOK
  <2>1. CASE db.row[o] = Nothing
    BY <1>1, <2>1 DEF RowsStart
  <2>2. CASE db.row[o] # Nothing
    BY <1>1, <2>2 DEF RowsMove, RowMoves, PendingOK
  <2> QED
    BY <2>1, <2>2
<1>6. PointersOK(db)'
  <2> SUFFICES ASSUME NEW w \in Owners, db'.point[w] # Nothing
               PROVE  /\ key'[db'.point[w]] = w /\ db'.claim[w] = "owned"
                      /\ db'.row[db'.point[w]] # Nothing /\ db'.row[db'.point[w]].state = "adopted"
                      /\ db'.row[db'.point[w]].retired = 0
    BY DEF PointersOK
  <2>1. CASE Stays(w)
    <3>1. /\ db.point[w] \in Objects /\ key[db.point[w]] = w /\ db.claim[w] = "owned"
          /\ db.row[db.point[w]] # Nothing /\ db.row[db.point[w]].state = "adopted"
          /\ db.row[db.point[w]].retired = 0
      BY <1>1, <2>1, Parts DEF Stays, PointersOK, PayloadTypeOK
    <3>2. key'[db.point[w]] = w
      BY <1>1, <1>2, <3>1 DEF KeysGrow
    <3> QED
      BY <2>1, <3>1, <3>2 DEF Stays
  <2>2. CASE \E o \in Objects : Adopts(w, o)
    BY <2>2 DEF Adopts
  <2> QED
    BY <1>1, <2>1, <2>2 DEF PointersMove
<1>7. ClaimsOK(db)'
  BY <1>1 DEF ClaimsOK, ClaimsMove, TimeMoves
<1>8. SweptOK(db)'
  <2> SUFFICES ASSUME NEW w \in Owners, NEW o \in Objects, db'.claim[w] = "swept", key'[o] = w,
                      db'.row[o] # Nothing
               PROVE  db'.row[o].until <= clock'
    BY DEF SweptOK
  <2>1. CASE db.row[o] = Nothing
    <3>1. key'[o] \in Owners /\ db.claim[w] = "owned" /\ db'.claim[w] = db.claim[w]
      BY <1>1, <2>1 DEF RowsStart
    <3> QED
      BY <3>1
  <2>2. CASE db.row[o] # Nothing
    <3>1. key[o] = w /\ db'.row[o].until = db.row[o].until
      BY <1>1, <2>2 DEF RowsMove, RowMoves, Minted, KeysGrow
    <3>2. db.row[o].until <= clock
      <4>1. CASE db'.claim[w] = db.claim[w]
        BY <1>1, <2>2, <3>1, <4>1 DEF SweptOK
      <4>2. CASE db'.claim[w] = "swept" /\ WindowsClosed(w)
        BY <2>2, <3>1, <4>2 DEF WindowsClosed, ObjectsOf, Registered
      <4> QED
        BY <1>1, <4>1, <4>2 DEF ClaimsMove
    <3>3. clock \in Nat /\ clock' \in Nat /\ db.row[o].until \in Nat /\ clock <= clock'
      <4>1. db.row[o] \in Row
        BY <2>2, Parts DEF PayloadTypeOK
      <4> QED
        BY <1>1, <4>1, RowParts DEF TimeMoves, PayloadTypeOK, Times
    <3> QED
      BY <3>1, <3>2, <3>3
  <2> QED
    BY <2>1, <2>2
<1> QED
  BY <1>3, <1>4, <1>5, <1>6, <1>7, <1>8 DEF Sound

LEMMA SoundKept ==
    ASSUME PayloadConstants, PayloadTypeOK, PayloadTypeOK', KeysGrow, TimeMoves,
           NEW d \in Database, Sound(d)
    PROVE  Sound(d)'
<1>1. /\ Minted(d) /\ OrphansOK(d) /\ PendingOK(d) /\ PointersOK(d) /\ ClaimsOK(d) /\ SweptOK(d)
      /\ Nothing \notin Owners /\ clock \in Nat /\ clock' \in Nat /\ clock <= clock'
  BY DEF Sound, PayloadConstants, PayloadTypeOK, Times, TimeMoves
<1>2. Minted(d)' /\ OrphansOK(d)' /\ PendingOK(d)'
  BY <1>1 DEF Minted, OrphansOK, PendingOK, KeysGrow
<1>3. PointersOK(d)'
  <2> SUFFICES ASSUME NEW w \in Owners, d.point[w] # Nothing
               PROVE  key'[d.point[w]] = w
    BY <1>1 DEF PointersOK
  <2>1. d.point[w] \in Objects /\ key[d.point[w]] = w
    BY <1>1, Parts DEF PointersOK
  <2> QED
    BY <1>1, <2>1 DEF KeysGrow
<1>4. ClaimsOK(d)'
  BY <1>1 DEF ClaimsOK, TimeMoves
<1>5. SweptOK(d)'
  <2> SUFFICES ASSUME NEW w \in Owners, NEW o \in Objects, d.claim[w] = "swept", key'[o] = w,
                      d.row[o] # Nothing
               PROVE  d.row[o].until <= clock'
    BY DEF SweptOK
  <2>1. key[o] = w
    BY <1>1 DEF Minted, KeysGrow
  <2>2. d.row[o].until \in Nat /\ d.row[o].until <= clock
    <3>1. d.row[o] \in Row
      BY Parts
    <3> QED
      BY <1>1, <2>1, <3>1, RowParts DEF SweptOK, Times
  <2> QED
    BY <1>1, <2>2
<1> QED
  BY <1>2, <1>3, <1>4, <1>5 DEF Sound
-----------------------------------------------------------------------------
\* A restore brings back the database of a backup and ends every writer.
LEMMA RestoresTyped ==
    ASSUME PayloadConstants, PayloadTypeOK, IsFiniteSet(backups), NEW b \in backups, Restores(b)
    PROVE  PayloadTypeOK' /\ IsFiniteSet(backups)' /\ KeysGrow /\ TimeMoves
<1>1. /\ key' = key /\ clock' = clock /\ journal' = journal /\ backups' = backups /\ store' = store
      /\ acked' = acked /\ db' = b.db /\ restores' = restores + 1 /\ restores < MaxRestores
      /\ serving' = FALSE /\ writer' = [o \in Objects |-> "none"] /\ late' = late \cup Abandoned(Objects)
      /\ lineage' \subseteq lineage /\ forked' \in BOOLEAN
  BY DEF Restores, Halt, ServiceUnchanged, PayloadTypeOK
<1>2. clock \in Nat /\ restores \in Nat /\ MaxRestores \in Nat
  BY DEF PayloadTypeOK, Times, PayloadConstants
<1>3. b.db \in Database
  BY DEF PayloadTypeOK, Backup
<1>4. PayloadTypeOK'
  <2>1. restores' \in 0 .. MaxRestores
    BY <1>1, <1>2
  <2>2. late' \subseteq Objects /\ writer' \in [Objects -> WriterPhases]
    BY <1>1 DEF PayloadTypeOK, Abandoned, WriterPhases
  <2> QED
    BY <1>1, <1>3, <2>1, <2>2 DEF PayloadTypeOK
<1> QED
  BY <1>1, <1>2, <1>4 DEF KeysGrow, TimeMoves

\* Every step is a restore or moves the database.
LEMMA StepMoves ==
    ASSUME PayloadConstants, PayloadTypeOK, IsFiniteSet(backups), Sound(db), KnownInv, PayloadNext,
           \A b \in backups : ~Restores(b)
    PROVE  PayloadTypeOK' /\ IsFiniteSet(backups)' /\ DatabaseMoves
<1>1. CASE PublicationNext
  <2>1. backups' = backups
    BY <1>1 DEF PublicationNext, Registers, StartsPut, PutLands, Verifies, Publishes, WriterStops,
                LatePut, Withdraws, OutsideUnchanged
  <2> QED
    BY <1>1, <2>1, RegistersMoves, WriterMoves, VerifiesMoves, PublishesMoves, WithdrawsMoves
    DEF PublicationNext
<1>2. CASE CollectionNext
  <2>1. backups' = backups
    BY <1>2 DEF CollectionNext, Quarantines, Removes, Discovers, RemovesOrphan, CollectorUnchanged,
                OutsideUnchanged
  <2> QED
    BY <1>2, <2>1, QuarantinesMoves, RemovesMoves, DiscoversMoves, RemovesOrphanMoves DEF CollectionNext
<1>3. CASE ErasureNext
  <2>1. backups' = backups
    BY <1>3 DEF ErasureNext, AsksErasure, QueuesErasure, Sweeps, SweepFails, CollectorUnchanged,
                OutsideUnchanged
  <2> QED
    BY <1>3, <2>1, AsksErasureMoves, ErasureMoves DEF ErasureNext
<1>4. CASE Ticks \/ Stops \/ Serves
  <2>1. backups' = backups
    BY <1>4 DEF Ticks, Stops, Serves
  <2> QED
    BY <1>4, <2>1, TicksMoves, ServiceMoves
<1>5. CASE BacksUp \/ \E b \in backups : Expires(b)
  BY <1>5, BackupsMove
<1>6. CASE \E b \in backups : Probes(b)
  <2>1. backups' = backups
    BY <1>6 DEF Probes
  <2> QED
    BY <1>6, <2>1, ProbesMoves
<1>7. CASE \E w \in Erasable : Reconciles(w)
  <2>1. backups' = backups
    BY <1>7 DEF Reconciles
  <2> QED
    BY <1>7, <2>1, ReconcilesMoves
<1> QED
  BY <1>1, <1>2, <1>3, <1>4, <1>5, <1>6, <1>7 DEF PayloadNext, OperationsNext

\* The backups after a step are backups of before, and one of the database if it is BacksUp.
LEMMA BackupsFollow ==
    ASSUME PayloadNext, NEW b \in backups', b \notin backups
    PROVE  BacksUp /\ b = [start |-> clock, db |-> db]
BY DEF PayloadNext, PublicationNext, CollectionNext, ErasureNext, OperationsNext,
       Registers, StartsPut, PutLands, Verifies, Publishes, WriterStops, LatePut, Withdraws,
       Quarantines, Removes, Discovers, RemovesOrphan, AsksErasure, QueuesErasure, Sweeps, SweepFails,
       Ticks, BacksUp, Stops, Serves, Expires, Probes, Restores, Reconciles,
       CollectorUnchanged, OutsideUnchanged

LEMMA SoundStep ==
    ASSUME PayloadConstants, PayloadsInv, PayloadNext
    PROVE  PayloadTypeOK' /\ IsFiniteSet(backups)' /\ SoundInv' /\ KeysGrow /\ TimeMoves
<1>1. PayloadTypeOK /\ IsFiniteSet(backups) /\ Sound(db) /\ KnownInv /\ \A b \in backups : Sound(b.db)
  BY DEF PayloadsInv, SoundInv
<1>2. /\ PayloadTypeOK' /\ IsFiniteSet(backups)' /\ KeysGrow /\ TimeMoves
      /\ DatabaseMoves \/ \E b \in backups : Restores(b)
  <2>1. CASE \E b \in backups : Restores(b)
    BY <1>1, <2>1, RestoresTyped
  <2>2. CASE \A b \in backups : ~Restores(b)
    BY <1>1, <2>2, StepMoves DEF DatabaseMoves
  <2> QED
    BY <2>1, <2>2
<1>3. \A b \in backups : b.db \in Database
  BY <1>1 DEF PayloadTypeOK, Backup
<1>4. \A b \in backups : Sound(b.db)'
  BY <1>1, <1>2, <1>3, SoundKept
<1>5. Sound(db)'
  <2>1. CASE DatabaseMoves
    BY <1>1, <1>2, <2>1, SoundMoves
  <2>2. CASE \E b \in backups : Restores(b)
    <3>1. PICK b \in backups : db' = b.db
      BY <2>2 DEF Restores
    <3>2. Sound(b.db)'
      BY <1>4
    <3> QED
      BY <3>1, <3>2
  <2> QED
    BY <1>2, <2>1, <2>2
<1>6. ASSUME NEW b \in backups' PROVE Sound(b.db)'
  <2>1. CASE b \in backups
    BY <1>4, <2>1
  <2>2. CASE b \notin backups
    <3>1. b.db = db /\ db' = db
      BY <2>2, BackupsFollow DEF BacksUp
    <3> QED
      BY <1>5, <3>1
  <2> QED
    BY <2>1, <2>2
<1> QED
  BY <1>2, <1>5, <1>6 DEF SoundInv
-----------------------------------------------------------------------------
\* What an object service or an upload holds has an owner in its key.
LEMMA KnownStep ==
    ASSUME PayloadConstants, PayloadsInv, PayloadNext, PayloadTypeOK', KeysGrow
    PROVE  KnownInv'
<1>1. /\ \A o \in store \cup late : key[o] # Nothing
      /\ \A o \in Objects : writer[o] = "writing" => key[o] # Nothing
      /\ store \subseteq Objects /\ late \subseteq Objects
  BY DEF PayloadsInv, SoundInv, Sound, Minted, KnownInv, WritersInv, Registered, PayloadTypeOK
<1>2. \A o \in store' \cup late' : o \in store \cup late \/ (o \in Objects /\ writer[o] = "writing")
  BY <1>1 DEF PayloadNext, PublicationNext, CollectionNext, ErasureNext, OperationsNext,
              Registers, StartsPut, PutLands, Verifies, Publishes, WriterStops, LatePut, Withdraws,
              Quarantines, Removes, Discovers, RemovesOrphan, AsksErasure, QueuesErasure, Sweeps,
              SweepFails, Ticks, BacksUp, Stops, Serves, Expires, Probes, Restores, Reconciles,
              Halt, Abandoned, ServiceUnchanged, CollectorUnchanged, OutsideUnchanged
<1>3. \A o \in store' \cup late' : o \in Objects
  BY DEF PayloadTypeOK
<1> QED
  BY <1>1, <1>2, <1>3 DEF KnownInv, KeysGrow

\* How the process of an object goes on.
WriterGoes(o) ==
    \/ writer'[o] = "none"
    \/ writer'[o] = writer[o] /\ clock' = clock
    \/ /\ writer'[o] = writer[o] /\ clock' = clock + 1 /\ db' = db
       /\ writer[o] = "writing" /\ Registered(o) => ~(db.row[o].until <= clock + 1)
    \/ writer'[o] = "holds" /\ Registered(o)'
    \/ writer'[o] = "writing" /\ Writable(o) /\ clock' = clock
    \/ writer'[o] = "wrote" /\ writer[o] = "writing" /\ o \in store'
    \/ writer'[o] = "ready" /\ writer[o] = "wrote" /\ store' = store
LEMMA WritersGo ==
    ASSUME PayloadConstants, PayloadTypeOK, PayloadNext, NEW o \in Objects
    PROVE  WriterGoes(o)
<1>1. /\ writer \in [Objects -> WriterPhases] /\ db.row \in [Objects -> Row \cup {Nothing}] /\ db \in Database
      /\ clock \in Nat
  BY Parts DEF PayloadTypeOK, Times
<1>2. ASSUME NEW q \in Objects, NEW w \in Owners, Registers(q, w)
      PROVE  WriterGoes(o)
  <2>1. CASE q = o
    <3>2. Fresh # Nothing
      BY <1>2, FreshRow DEF Registers
    <3>3. db'.row[o] = Fresh /\ writer'[o] = "holds"
      BY <1>1, <1>2, <2>1 DEF Registers, Database
    <3> QED
      BY <3>2, <3>3 DEF WriterGoes, Registered
  <2>2. CASE q # o
    BY <1>1, <1>2, <2>2 DEF Registers, OutsideUnchanged, WriterGoes
  <2> QED
    BY <2>1, <2>2
<1>3. ASSUME NEW q \in Objects, StartsPut(q) \/ PutLands(q) \/ Verifies(q) \/ Publishes(q) \/ WriterStops(q)
                                \/ LatePut(q)
      PROVE  WriterGoes(o)
  BY <1>1, <1>3 DEF StartsPut, PutLands, Verifies, Publishes, WriterStops, LatePut, OutsideUnchanged, WriterGoes
<1>4. CASE \/ \E w \in Owners : Withdraws(w)
           \/ CollectionNext \/ ErasureNext
           \/ BacksUp \/ Serves
           \/ \E b \in backups : Expires(b) \/ Probes(b)
           \/ \E w \in Erasable : Reconciles(w)
  BY <1>4 DEF Withdraws, CollectionNext, Quarantines, Removes, Discovers, RemovesOrphan, ErasureNext,
              AsksErasure, QueuesErasure, Sweeps, SweepFails, BacksUp, Serves, Expires, Probes,
              Reconciles, ServiceUnchanged, CollectorUnchanged, OutsideUnchanged, WriterGoes
<1>5. CASE Stops \/ \E b \in backups : Restores(b)
  BY <1>5 DEF Stops, Restores, Halt, WriterGoes
<1>6. CASE Ticks
  BY <1>1, <1>6 DEF Ticks, Abandoned, WriterGoes
<1> QED
  BY <1>2, <1>3, <1>4, <1>5, <1>6 DEF PayloadNext, PublicationNext, OperationsNext

LEMMA WritersStep ==
    ASSUME PayloadConstants, PayloadsInv, PayloadNext
    PROVE  WritersInv'
<1>1. CASE \E b \in backups : Restores(b)
  BY <1>1 DEF Restores, Halt, WritersInv
<1>2. CASE \A b \in backups : ~Restores(b)
  <2>1. PayloadTypeOK /\ PayloadTypeOK' /\ RowsMove /\ WritersInv
    BY <1>2, StepMoves DEF PayloadsInv, SoundInv, DatabaseMoves
  <2> SUFFICES ASSUME NEW o \in Objects, writer'[o] # "none"
               PROVE  /\ db'.row[o] # Nothing
                      /\ writer'[o] = "writing" => clock' < db'.row[o].until
    BY DEF WritersInv, Registered
  <2>2. db.row[o] # Nothing => /\ db'.row[o] # Nothing /\ db'.row[o].until = db.row[o].until
                               /\ db.row[o].until \in Nat
    <3>1. db.row[o] # Nothing => db.row[o] \in Row
      BY <2>1, Parts DEF PayloadTypeOK
    <3> QED
      BY <2>1, <3>1, RowParts DEF RowsMove, RowMoves, Times
  <2>3. WriterGoes(o) /\ clock \in Nat
    BY <2>1, WritersGo DEF PayloadsInv, PayloadTypeOK, Times
  <2>4. writer[o] # "none" => db.row[o] # Nothing /\ (writer[o] = "writing" => clock < db.row[o].until)
    BY <2>1 DEF WritersInv, Registered
  <2> QED
    BY <2>2, <2>3, <2>4 DEF WriterGoes, Writable, Registered
<1> QED
  BY <1>1, <1>2

\* An erasure that was acknowledged is asked for while the application serves.
LEMMA ErasedStep ==
    ASSUME PayloadConstants, PayloadsInv, PayloadNext
    PROVE  ErasedInv'
<1>1. CASE \E b \in backups : Restores(b)
  BY <1>1 DEF Restores, Halt, ErasedInv
<1>2. CASE Serves
  BY <1>2 DEF Serves, Reconciled, ServiceUnchanged, ErasedInv, PayloadsInv, PayloadTypeOK
<1>3. CASE \E w \in Erasable : AsksErasure(w)
  <2>1. PICK w \in Erasable : AsksErasure(w)
    BY <1>3
  <2>2. /\ db \in Database /\ db.claim \in [Owners -> Claims] /\ w \in Owners
        /\ \A v \in acked : v \in Owners
    BY Parts DEF PayloadsInv, PayloadTypeOK, PayloadConstants
  <2>3. \/ db' = db /\ acked' = acked
        \/ acked' = acked \cup {w} /\ \E c \in {"asked", "queued"} : db'.claim = [db.claim EXCEPT ![w] = c]
    BY <2>1, <2>2 DEF AsksErasure, Database
  <2> QED
    BY <2>1, <2>2, <2>3 DEF AsksErasure, ErasedInv, PayloadsInv
<1>4. CASE ~Serves /\ (\A w \in Erasable : ~AsksErasure(w)) /\ \A b \in backups : ~Restores(b)
  <2>1. /\ ClaimsMove /\ ErasedInv /\ \A v \in acked : v \in Owners
    BY <1>4, StepMoves DEF PayloadsInv, SoundInv, DatabaseMoves, PayloadTypeOK, PayloadConstants
  <2>2. acked' = acked /\ serving' \in {serving, FALSE}
    <3>1. CASE PublicationNext
      BY <3>1 DEF PublicationNext, Registers, StartsPut, PutLands, Verifies, Publishes, WriterStops,
                  LatePut, Withdraws, OutsideUnchanged
    <3>2. CASE CollectionNext
      BY <3>2 DEF CollectionNext, Quarantines, Removes, Discovers, RemovesOrphan, CollectorUnchanged,
                  OutsideUnchanged
    <3>3. CASE ErasureNext
      BY <1>4, <3>3 DEF ErasureNext, QueuesErasure, Sweeps, SweepFails, CollectorUnchanged,
                        OutsideUnchanged
    <3>4. CASE OperationsNext
      BY <1>4, <3>4 DEF OperationsNext, Ticks, BacksUp, Stops, Expires, Probes, Reconciles, Halt,
                        ServiceUnchanged
    <3> QED
      BY <3>1, <3>2, <3>3, <3>4 DEF PayloadNext
  <2> QED
    BY <2>1, <2>2 DEF ErasedInv, ClaimsMove
<1> QED
  BY <1>1, <1>2, <1>3, <1>4

\* The inductive invariant, for any number of restores.
THEOREM PayloadsInvInductive ==
    ASSUME PayloadConstants
    PROVE  PayloadSpec => []PayloadsInv
<1>1. PayloadInit => PayloadsInv
  <2> SUFFICES ASSUME PayloadInit
               PROVE  PayloadsInv
    OBVIOUS
  <2>1. PayloadTypeOK /\ IsFiniteSet(backups)
    <3>1. IsFiniteSet(backups) /\ Cardinality(backups) = 0
      BY FS_EmptySet DEF PayloadInit
    <3>2. lineage \subseteq backups /\ forked \in BOOLEAN /\ serving \in BOOLEAN
      BY DEF PayloadInit
    <3>3. db \in Database /\ clock \in Times /\ key \in [Objects -> Owners \cup {Nothing}]
          /\ writer \in [Objects -> WriterPhases]
      BY DEF PayloadInit, PayloadConstants, Database, Instant, Times, Claims, WriterPhases
    <3> QED
      BY <3>1, <3>2, <3>3 DEF PayloadInit, PayloadTypeOK, PayloadConstants
  <2>2. SoundInv
    BY DEF PayloadInit, SoundInv, Sound, Minted, OrphansOK, PendingOK, PointersOK, ClaimsOK, SweptOK
  <2>3. KnownInv /\ WritersInv /\ ErasedInv
    BY DEF PayloadInit, KnownInv, WritersInv, ErasedInv
  <2> QED
    BY <2>1, <2>2, <2>3 DEF PayloadsInv
<1>2. PayloadsInv /\ [PayloadNext]_payloadVars => PayloadsInv'
  <2> SUFFICES ASSUME PayloadsInv, [PayloadNext]_payloadVars
               PROVE  PayloadsInv'
    OBVIOUS
  <2>1. CASE PayloadNext
    <3>1. PayloadTypeOK' /\ IsFiniteSet(backups)' /\ SoundInv' /\ KeysGrow /\ TimeMoves
      BY <2>1, SoundStep
    <3>2. KnownInv' /\ WritersInv' /\ ErasedInv'
      BY <2>1, <3>1, KnownStep, WritersStep, ErasedStep
    <3> QED
      BY <3>1, <3>2 DEF PayloadsInv
  <2>2. CASE UNCHANGED payloadVars
    BY <2>2 DEF payloadVars, PayloadsInv, PayloadTypeOK, SoundInv, Sound, Minted, OrphansOK, PendingOK,
                PointersOK, ClaimsOK, SweptOK, KnownInv, WritersInv, Registered, ErasedInv
  <2> QED
    BY <2>1, <2>2
<1> QED
  BY <1>1, <1>2, PTL DEF PayloadSpec
\* What the journal remembers is not undone by a restore, however many there are; and no
\* writer is left when a sweep is complete.
LEMMA ErasuresStand ==
    ASSUME PayloadConstants, PayloadsInv
    PROVE  PayloadTypeOK /\ ErasureSurvivesRestore /\ SweptHasNoWriter
<1>1. /\ PayloadTypeOK /\ Sound(db) /\ WritersInv /\ ErasedInv /\ db \in Database /\ clock \in Nat
      /\ \A w \in acked : w \in journal
  BY DEF PayloadsInv, SoundInv, PayloadTypeOK, Times
<1>2. ErasureSurvivesRestore
  <2> SUFFICES ASSUME serving, NEW w \in acked
               PROVE  db.point[w] = Nothing /\ db.claim[w] # "owned"
    BY DEF ErasureSurvivesRestore
  <2>1. db.claim[w] # "owned"
    BY <1>1 DEF ErasedInv
  <2>2. w \in Owners
    BY <1>1 DEF PayloadTypeOK, PayloadConstants
  <2> QED
    BY <1>1, <2>1, <2>2 DEF Sound, PointersOK
<1>3. SweptHasNoWriter
  <2> SUFFICES ASSUME NEW o \in Objects, key[o] # Nothing, writer[o] = "writing", db.claim[key[o]] = "swept"
               PROVE  FALSE
    BY DEF SweptHasNoWriter
  <2>1. key[o] \in Owners /\ db.row[o] # Nothing /\ clock < db.row[o].until
    BY <1>1 DEF PayloadTypeOK, WritersInv, Registered
  <2>2. db.row[o].until <= clock /\ db.row[o].until \in Nat
    <3>1. db.row[o] \in Row
      BY <1>1, <2>1, Parts
    <3> QED
      BY <1>1, <2>1, <3>1, RowParts DEF Sound, SweptOK, Times
  <2> QED
    BY <1>1, <2>1, <2>2
<1> QED
  BY <1>1, <1>2, <1>3
-----------------------------------------------------------------------------
(***************************************************************************)
(* What is stored.  Nothing that a retained backup points to was retired,   *)
(* or found without a row, before the backup began.  That is true of the    *)
(* database in use and of every backup it descends from, so that it is true *)
(* after the restore of one of them, however many there were.               *)
(***************************************************************************)
Written == \A o \in Objects : writer[o] \in {"wrote", "ready"} /\ Writable(o) => o \in store

Floors == /\ db.floor <= clock
          /\ \A b \in backups : /\ b.start <= clock /\ db.floor <= b.start
                                /\ \A c \in backups : b.db.floor <= c.start

Keeps(d, b) == \A w \in Owners : b.db.point[w] # Nothing =>
    LET o == b.db.point[w]
    IN  /\ d.row[o] # Nothing /\ d.row[o].retired # 0 => b.start <= d.row[o].retired
        /\ d.orphan[o] # 0 => b.start <= d.orphan[o]

\* What d retired, e has retired; what d found without a row, e has not registered.
Past(d, e) == \A o \in Objects :
    /\ d.row[o] # Nothing /\ d.row[o].retired # 0 => e.row[o] # Nothing /\ e.row[o].retired # 0
    /\ d.orphan[o] # 0 => e.row[o] = Nothing

RetainedInv == \A b \in backups : Keeps(db, b)

\* The backups that the database descends from are of its past, and of each other's.
LineageInv == \A a \in lineage :
    /\ Past(a.db, db)
    /\ \A b \in lineage : a.start <= b.start => Past(a.db, b.db)
    /\ \A c \in backups : Keeps(a.db, c)

StoredInv ==
    /\ Written /\ Floors
    /\ ~forked => PointersAreStored /\ BackupsAreRecoverable /\ RetainedInv /\ LineageInv

\* When an object leaves the service.
LEMMA StoreShrinks ==
    ASSUME PayloadConstants, PayloadTypeOK, PayloadNext, NEW o \in Objects, o \in store, o \notin store'
    PROVE  /\ db'.point = db.point
           /\ \/ Idle(o) /\ Expired(db.row[o].retired)
              \/ Expired(db.orphan[o])
              \/ \E w \in Erasable : key[o] = w /\ db.claim[w] # "owned" /\ WindowsClosed(w)
<1>1. db \in Database
  BY DEF PayloadTypeOK
<1>2. CASE PublicationNext
  BY <1>2 DEF PublicationNext, Registers, StartsPut, PutLands, Verifies, Publishes, WriterStops,
              LatePut, Withdraws, OutsideUnchanged
<1>3. CASE CollectionNext
  <2>1. PICK q \in Objects : Quarantines(q) \/ Removes(q) \/ Discovers(q) \/ RemovesOrphan(q)
    BY <1>3 DEF CollectionNext
  <2>2. q = o /\ (Removes(o) \/ RemovesOrphan(o))
    BY <2>1 DEF Quarantines, Removes, Discovers, RemovesOrphan
  <2>3. db'.point = db.point
    BY <1>1, <2>2 DEF Removes, RemovesOrphan, Database
  <2> QED
    BY <2>2, <2>3 DEF Removes, RemovesOrphan
<1>4. CASE ErasureNext
  <2>1. PICK w \in Erasable : AsksErasure(w) \/ QueuesErasure(w) \/ Sweeps(w) \/ SweepFails(w)
    BY <1>4 DEF ErasureNext
  <2>2. /\ Sweeps(w) \/ SweepFails(w)
        /\ key[o] = w
    BY <2>1 DEF AsksErasure, QueuesErasure, Sweeps, SweepFails, ObjectsOf
  <2>3. db'.point = db.point
    BY <1>1, <2>2 DEF Sweeps, SweepFails, Database
  <2> QED
    BY <2>2, <2>3 DEF Sweeps, SweepFails
<1>5. CASE OperationsNext
  BY <1>5 DEF OperationsNext, Ticks, BacksUp, Stops, Serves, Expires, Probes, Restores, Reconciles,
              ServiceUnchanged
<1> QED
  BY <1>2, <1>3, <1>4, <1>5 DEF PayloadNext

\* The floor is the start of the oldest backup, once that was looked at.
LEMMA FloorMoves ==
    ASSUME PayloadTypeOK, PayloadNext, \A b \in backups : ~Restores(b)
    PROVE  /\ restores' = restores
           /\ \/ db'.floor = db.floor
              \/ \E b \in backups : Oldest(b) /\ db'.floor = b.start /\ backups' = backups /\ clock' = clock
<1>1. db \in Database
  BY DEF PayloadTypeOK
<1>2. CASE PublicationNext
  BY <1>1, <1>2 DEF PublicationNext, Registers, StartsPut, PutLands, Verifies, Publishes, WriterStops,
                    LatePut, Withdraws, OutsideUnchanged, Database
<1>3. CASE CollectionNext
  BY <1>1, <1>3 DEF CollectionNext, Quarantines, Removes, Discovers, RemovesOrphan, CollectorUnchanged,
                    OutsideUnchanged, Database
<1>4. CASE ErasureNext
  BY <1>1, <1>4 DEF ErasureNext, AsksErasure, QueuesErasure, Sweeps, SweepFails, CollectorUnchanged,
                    OutsideUnchanged, Database
<1>5. CASE OperationsNext
  BY <1>1, <1>5 DEF OperationsNext, Ticks, BacksUp, Stops, Serves, Expires, Probes, Reconciles,
                    ServiceUnchanged, Database
<1> QED
  BY <1>2, <1>3, <1>4, <1>5 DEF PayloadNext

LEMMA ServingMoves ==
    ASSUME PayloadNext, ~Serves
    PROVE  serving' \in {serving, FALSE}
<1>1. CASE PublicationNext
  BY <1>1 DEF PublicationNext, Registers, StartsPut, PutLands, Verifies, Publishes, WriterStops,
              LatePut, Withdraws, OutsideUnchanged
<1>2. CASE CollectionNext
  BY <1>2 DEF CollectionNext, Quarantines, Removes, Discovers, RemovesOrphan, CollectorUnchanged,
              OutsideUnchanged
<1>3. CASE ErasureNext
  BY <1>3 DEF ErasureNext, AsksErasure, QueuesErasure, Sweeps, SweepFails, CollectorUnchanged,
              OutsideUnchanged
<1>4. CASE OperationsNext
  BY <1>4 DEF OperationsNext, Ticks, BacksUp, Stops, Expires, Probes, Restores, Reconciles, Halt,
              ServiceUnchanged
<1> QED
  BY <1>1, <1>2, <1>3, <1>4 DEF PayloadNext

\* What the parts of the invariants say of one object.
LEMMA Facts ==
    ASSUME PayloadConstants, PayloadsInv
    PROVE  /\ PayloadTypeOK /\ db \in Database
           /\ clock \in Nat /\ IsFiniteSet(backups) /\ KnownInv /\ WritersInv
           /\ Sound(db) /\ \A b \in backups : Sound(b.db) /\ b.db \in Database /\ b.start \in Nat
           /\ db.floor \in Nat
           /\ \A o \in Objects : db.orphan[o] \in Nat
           /\ \A o \in Objects : db.row[o] # Nothing =>
                  db.row[o] \in Row /\ db.row[o].retired \in Nat /\ db.row[o].until \in Nat
<1>1. PayloadTypeOK /\ db \in Database /\ clock \in Nat
  BY DEF PayloadsInv, PayloadTypeOK, Times
<1>2. \A b \in backups : b.db \in Database /\ b.start \in Nat
  BY <1>1 DEF PayloadTypeOK, Backup, Times
<1>3. db.floor \in Nat /\ \A o \in Objects : db.orphan[o] \in Nat
  BY <1>1, Parts DEF Instant, Times
<1>4. \A o \in Objects : db.row[o] # Nothing => db.row[o] \in Row
  BY <1>1, Parts
<1>5. \A r \in Row : r.retired \in Nat /\ r.until \in Nat
  BY RowParts DEF Instant, Times
<1> QED
  BY <1>1, <1>2, <1>3, <1>4, <1>5 DEF PayloadsInv, SoundInv

LEMMA ObjectFacts ==
    ASSUME PayloadConstants, PayloadsInv, NEW o \in Objects
    PROVE  /\ clock \in Nat /\ db.orphan[o] \in Nat
           /\ db.row[o] # Nothing =>
                  db.row[o] \in Row /\ db.row[o].retired \in Nat /\ db.row[o].until \in Nat
BY Facts

\* An object that was uploaded in time stays until it is adopted.
LEMMA WrittenStep ==
    ASSUME PayloadConstants, PayloadsInv, Written, PayloadNext
    PROVE  Written'
<1>1. CASE \E b \in backups : Restores(b)
  BY <1>1 DEF Restores, Halt, Written
<1>2. CASE \A b \in backups : ~Restores(b)
  <2>1. RowsMove /\ TimeMoves /\ PayloadTypeOK'
    BY <1>2, StepMoves, Facts DEF DatabaseMoves
  <2> SUFFICES ASSUME NEW o \in Objects, writer'[o] \in {"wrote", "ready"}, Writable(o)', o \notin store'
               PROVE  FALSE
    BY DEF Written
  <2>0. writer[o] \in {"wrote", "ready"}
    <3>1. WriterGoes(o)
      BY Facts, WritersGo
    <3> QED
      BY <3>1 DEF WriterGoes
  <2>2. Writable(o)
    <3>1. db.row[o] # Nothing
      BY <2>0, Facts DEF WritersInv, Registered
    <3>2. RowMoves(db.row[o], db'.row[o]) /\ clock <= clock' /\ clock' \in Nat
      BY <2>1, <3>1 DEF RowsMove, TimeMoves, PayloadTypeOK, Times
    <3>3. clock \in Nat /\ db.row[o].until \in Nat
      BY <3>1, ObjectFacts
    <3>4. db'.row[o].state = "pending" /\ clock' < db'.row[o].until
      BY DEF Writable
    <3> QED
      BY <3>1, <3>2, <3>3, <3>4 DEF RowMoves, Writable, Registered
  <2>3. o \in store
    BY <2>0, <2>2 DEF Written
  <2>4. \/ Idle(o)
        \/ db.orphan[o] # 0
        \/ \E w \in Erasable : key[o] = w /\ WindowsClosed(w)
    BY <2>3, StoreShrinks, Facts DEF Expired
  <2>5. ~Idle(o) /\ db.orphan[o] = 0
    BY <2>2, Facts DEF Idle, Writable, Registered, Sound, OrphansOK
  <2>6. \A w \in Erasable : key[o] = w => ~WindowsClosed(w)
    <3>1. clock \in Nat /\ db.row[o].until \in Nat /\ clock < db.row[o].until /\ Registered(o)
      BY <2>2, ObjectFacts DEF Writable, Registered
    <3> QED
      BY <3>1 DEF WindowsClosed, ObjectsOf
  <2> QED
    BY <2>4, <2>5, <2>6
<1> QED
  BY <1>1, <1>2

LEMMA PointersAreStoredStep ==
    ASSUME PayloadConstants, PayloadsInv, PayloadsInv', Written, PointersAreStored,
           BackupsAreRecoverable, PayloadNext
    PROVE  PointersAreStored'
<1> SUFFICES ASSUME NEW w \in Owners, db'.point[w] # Nothing, serving' \/ w \notin journal'
             PROVE  db'.point[w] \in store'
  BY DEF PointersAreStored
<1>1. CASE \E b \in backups : Restores(b)
  BY <1>1 DEF Restores, Halt, ServiceUnchanged, BackupsAreRecoverable
<1>2. CASE \A b \in backups : ~Restores(b)
  <2>1. DatabaseMoves
    BY <1>2, StepMoves, Facts
  <2>2. CASE Stays(w)
    <3>1. serving \/ w \notin journal
      <4>1. CASE Serves
        <5>1. db.claim[w] = "owned"
          BY <2>2, Facts DEF Stays, Sound, PointersOK
        <5> QED
          BY <4>1, <5>1 DEF Serves, Reconciled
      <4>2. CASE ~Serves
        BY <2>1, <4>2, ServingMoves DEF DatabaseMoves, TimeMoves
      <4> QED
        BY <4>1, <4>2
    <3>2. PICK o \in Objects : o = db.point[w] /\ db'.point[w] = o
      BY <2>2, Facts, Parts DEF Stays
    <3>3. o \in store
      BY <2>2, <3>1, <3>2 DEF Stays, PointersAreStored
    <3>4. o \in store'
      <4> SUFFICES ASSUME o \notin store'
                   PROVE  FALSE
        OBVIOUS
      <4>1. \/ ~Referenced(o)
            \/ db.orphan[o] # 0
            \/ \E v \in Erasable : key[o] = v /\ db.claim[v] # "owned"
        BY <3>3, StoreShrinks, Facts DEF Expired, Idle
      <4>2. /\ Referenced(o) /\ db.orphan[o] = 0 /\ key[o] = w /\ db.claim[w] = "owned"
        BY <2>2, <3>2, Facts DEF Stays, Referenced, Sound, PointersOK, OrphansOK
      <4> QED
        BY <4>1, <4>2
    <3> QED
      BY <3>2, <3>4
  <2>3. CASE \E o \in Objects : Adopts(w, o)
    <3>1. PICK o \in Objects : Adopts(w, o)
      BY <2>3
    <3>2. o \in store
      BY <3>1 DEF Adopts, Written
    <3>3. db.point[w] # o
      BY <3>1, Facts DEF Adopts, Writable, Sound, PointersOK, PayloadConstants
    <3>4. o \in store'
      BY <3>1, <3>2, <3>3, StoreShrinks, Facts DEF Adopts
    <3> QED
      BY <3>1, <3>4 DEF Adopts
  <2> QED
    BY <2>1, <2>2, <2>3 DEF DatabaseMoves, PointersMove
<1> QED
  BY <1>1, <1>2

LEMMA BackupsAreRecoverableStep ==
    ASSUME PayloadConstants, PayloadsInv, PayloadsInv', PointersAreStored,
           BackupsAreRecoverable, Floors, RetainedInv, PayloadNext
    PROVE  BackupsAreRecoverable'
<1> SUFFICES ASSUME NEW b \in backups', NEW w \in Owners \ journal', b.db.point[w] # Nothing
             PROVE  b.db.point[w] \in store'
  BY DEF BackupsAreRecoverable
<1>1. w \notin journal
  BY SoundStep DEF TimeMoves
<1>2. CASE b \notin backups
  <2>1. b.db = db /\ store' = store
    BY <1>2, BackupsFollow DEF BacksUp, ServiceUnchanged
  <2> QED
    BY <1>1, <2>1 DEF PointersAreStored
<1>3. CASE b \in backups
  <2>1. PICK o \in Objects : o = b.db.point[w]
    BY <1>3, Facts, Parts
  <2>2. o \in store
    BY <1>1, <1>3, <2>1 DEF BackupsAreRecoverable
  <2> SUFFICES ASSUME o \notin store'
               PROVE  FALSE
    BY <2>1
  <2>3. \/ db.row[o] # Nothing /\ Expired(db.row[o].retired)
        \/ Expired(db.orphan[o])
        \/ \E v \in Erasable : key[o] = v /\ db.claim[v] # "owned"
    BY <2>2, StoreShrinks, Facts DEF Idle, Registered
  <2>4. db.floor <= b.start /\ Keeps(db, b)
    BY <1>3 DEF Floors, RetainedInv
  <2>0. b.start \in Nat /\ db.floor \in Nat /\ b.db.point[w] = o /\ o # Nothing /\ w \in Owners
    BY <1>3, <2>1, Facts
  <2>5. ~(db.row[o] # Nothing /\ Expired(db.row[o].retired))
    <3>1. db.row[o] # Nothing => db.row[o].retired \in Nat
      BY <2>1, ObjectFacts
    <3> QED
      BY <2>0, <2>4, <3>1 DEF Keeps, Expired
  <2>6. ~Expired(db.orphan[o])
    <3>1. db.orphan[o] \in Nat
      BY <2>1, ObjectFacts
    <3> QED
      BY <2>0, <2>4, <3>1 DEF Keeps, Expired
  <2>7. key[o] = w /\ db.claim[w] = "owned"
    BY <1>1, <1>3, <2>1, Facts DEF Sound, PointersOK, ClaimsOK
  <2> QED
    BY <2>3, <2>5, <2>6, <2>7
<1> QED
  BY <1>2, <1>3

LEMMA FloorsStep ==
    ASSUME PayloadConstants, PayloadsInv, PayloadsInv', Floors, PayloadNext
    PROVE  Floors'
<1>1. clock <= clock' /\ clock \in Nat /\ clock' \in Nat
  BY SoundStep DEF TimeMoves, PayloadsInv, PayloadTypeOK, Times
<1>2. ASSUME NEW b \in backups', b \notin backups
      PROVE  /\ b.start = clock /\ b.db = db /\ db' = db /\ clock' = clock
             /\ backups' = backups \cup {b}
  BY <1>2, BackupsFollow DEF BacksUp, ServiceUnchanged
<1>3. CASE \E b \in backups : Restores(b)
  <2>1. PICK b \in backups : db' = b.db /\ backups' = backups /\ clock' = clock
    BY <1>3 DEF Restores, ServiceUnchanged
  <2>2. b.db.floor <= b.start /\ b.start <= clock /\ b.start \in Nat /\ b.db.floor \in Nat
    <3>1. b.db.floor \in Instant
      BY <2>1, Facts, Parts
    <3> QED
      BY <2>1, <3>1, Facts DEF Floors, Instant, Times
  <2> QED
    BY <1>1, <2>1, <2>2 DEF Floors
<1>4. CASE \A b \in backups : ~Restores(b)
  <2>1. \/ db'.floor = db.floor
        \/ \E b \in backups : Oldest(b) /\ db'.floor = b.start /\ backups' = backups /\ clock' = clock
    BY <1>4, FloorMoves, Facts
  <2>2. CASE \E b \in backups : Oldest(b) /\ db'.floor = b.start /\ backups' = backups /\ clock' = clock
    BY <2>2, Facts DEF Floors, Oldest
  <2>3. CASE db'.floor = db.floor
    <3>1. db'.floor <= clock'
      BY <1>1, <2>3, Facts DEF Floors
    <3>2. ASSUME NEW b \in backups'
          PROVE  b.start <= clock' /\ db'.floor <= b.start
      <4>1. CASE b \in backups
        BY <1>1, <2>3, <4>1, Facts DEF Floors
      <4>2. CASE b \notin backups
        BY <1>1, <1>2, <2>3, <4>2 DEF Floors
      <4> QED
        BY <4>1, <4>2
    <3>3. ASSUME NEW b \in backups', NEW c \in backups'
          PROVE  b.db.floor <= c.start
      <4>1. CASE b \in backups /\ c \in backups
        BY <4>1 DEF Floors
      <4>2. CASE b \notin backups
        BY <1>2, <3>2, <4>2
      <4>3. CASE b \in backups /\ c \notin backups
        <5>1. b.db.floor <= b.start /\ b.start <= clock /\ b.start \in Nat /\ b.db.floor \in Nat
          <6>1. b.db.floor \in Instant
            BY <4>3, Facts, Parts
          <6> QED
            BY <4>3, <6>1, Facts DEF Floors, Instant, Times
        <5> QED
          BY <1>1, <1>2, <4>3, <5>1
      <4> QED
        BY <4>1, <4>2, <4>3
    <3> QED
      BY <3>1, <3>2, <3>3 DEF Floors
  <2> QED
    BY <2>1, <2>2, <2>3
<1> QED
  BY <1>3, <1>4
\* A backup keeps what was in use when it began.
LEMMA BegunKeeps ==
    ASSUME PayloadConstants, PayloadsInv, NEW d \in Database, Past(d, db), NEW c \in Backup, c.db = db
    PROVE  Keeps(d, c)
<1> SUFFICES ASSUME NEW w \in Owners, db.point[w] # Nothing
             PROVE  /\ ~(d.row[db.point[w]] # Nothing /\ d.row[db.point[w]].retired # 0)
                    /\ d.orphan[db.point[w]] = 0
  BY DEF Keeps
<1>1. PICK o \in Objects : o = db.point[w]
  BY Facts, Parts
<1>2. db.row[o] # Nothing /\ db.row[o].retired = 0
  BY <1>1, Facts DEF Sound, PointersOK
<1> QED
  BY <1>1, <1>2 DEF Past

LEMMA PresentIsPast ==
    ASSUME Sound(db)
    PROVE  Past(db, db)
BY DEF Sound, OrphansOK, Past

\* A backup that is older than a step still keeps what it points to.
LEMMA RetainedStep ==
    ASSUME PayloadConstants, PayloadsInv, Floors, RetainedInv, LineageInv, PayloadNext, ~forked'
    PROVE  RetainedInv'
<1>1. CASE \E b \in backups : Restores(b)
  <2>1. PICK b \in lineage : db' = b.db /\ backups' = backups
    BY <1>1 DEF Restores, ServiceUnchanged
  <2> QED
    BY <2>1 DEF LineageInv, RetainedInv, Keeps
<1>2. CASE \A b \in backups : ~Restores(b)
  <2>1. RowsMove /\ RowsStart /\ OrphansMove
    BY <1>2, StepMoves, Facts DEF DatabaseMoves
  <2> SUFFICES ASSUME NEW b \in backups'
               PROVE  Keeps(db', b)
    BY DEF RetainedInv, Keeps
  <2>2. CASE b \in backups
    <3>1. Keeps(db, b) /\ b.start <= clock /\ b.start \in Nat /\ clock \in Nat
      BY <2>2, Facts DEF RetainedInv, Floors
    <3> SUFFICES ASSUME NEW w \in Owners, b.db.point[w] # Nothing, NEW o \in Objects, o = b.db.point[w]
                 PROVE  /\ db'.row[o] # Nothing /\ db'.row[o].retired # 0 => b.start <= db'.row[o].retired
                        /\ db'.orphan[o] # 0 => b.start <= db'.orphan[o]
      <4>1. \A w \in Owners : b.db.point[w] # Nothing => b.db.point[w] \in Objects
        BY <2>2, Facts, Parts
      <4> QED
        BY <4>1 DEF Keeps
    <3>2. /\ db.row[o] # Nothing /\ db.row[o].retired # 0 => b.start <= db.row[o].retired
          /\ db.orphan[o] # 0 => b.start <= db.orphan[o]
      BY <3>1 DEF Keeps
    <3>3. CASE db.row[o] = Nothing
      BY <2>1, <3>1, <3>2, <3>3 DEF RowsStart, OrphansMove
    <3>4. CASE db.row[o] # Nothing
      BY <2>1, <3>1, <3>2, <3>4 DEF RowsMove, RowMoves, OrphansMove
    <3> QED
      BY <3>3, <3>4
  <2>3. CASE b \notin backups
    <3>1. db' = db /\ b.db = db /\ b \in Backup
      <4>1. BacksUp /\ b = [start |-> clock, db |-> db]
        BY <2>3, BackupsFollow
      <4>2. clock \in Times /\ db \in Database
        BY Facts DEF PayloadTypeOK
      <4> QED
        BY <4>1, <4>2 DEF BacksUp, Backup
    <3>2. Keeps(db, b)
      BY <3>1, Facts, PresentIsPast, BegunKeeps
    <3> QED
      BY <3>1, <3>2
  <2> QED
    BY <2>2, <2>3
<1> QED
  BY <1>1, <1>2

\* What the database descends from: a new backup is of the database as it is, and a restore
\* leaves those that the restored one descends from, and itself.
LEMMA LineageMoves ==
    ASSUME PayloadTypeOK, PayloadNext
    PROVE  /\ ~forked' => ~forked
           /\ \A a \in lineage' \ lineage : BacksUp /\ a = [start |-> clock, db |-> db]
<1>1. CASE PublicationNext
  <2>1. UNCHANGED <<lineage, forked>>
    BY <1>1 DEF PublicationNext, Registers, StartsPut, PutLands, Verifies, Publishes, WriterStops,
                LatePut, Withdraws, OutsideUnchanged
  <2> QED
    BY <2>1
<1>2. CASE CollectionNext
  <2>1. UNCHANGED <<lineage, forked>>
    BY <1>2 DEF CollectionNext, Quarantines, Removes, Discovers, RemovesOrphan, CollectorUnchanged,
                OutsideUnchanged
  <2> QED
    BY <2>1
<1>3. CASE ErasureNext
  <2>1. UNCHANGED <<lineage, forked>>
    BY <1>3 DEF ErasureNext, AsksErasure, QueuesErasure, Sweeps, SweepFails, CollectorUnchanged,
                OutsideUnchanged
  <2> QED
    BY <2>1
<1>4. CASE Ticks \/ Stops \/ Serves \/ (\E b \in backups : Probes(b)) \/ \E w \in Erasable : Reconciles(w)
  <2>1. UNCHANGED <<lineage, forked>>
    BY <1>4 DEF Ticks, Stops, Serves, Probes, Reconciles
  <2> QED
    BY <2>1
<1>5. CASE BacksUp
  <2>1. lineage' = lineage \cup {[start |-> clock, db |-> db]} /\ forked' = forked
    BY <1>5 DEF BacksUp
  <2> QED
    BY <1>5, <2>1
<1>6. CASE \E b \in backups : Expires(b)
  <2>1. lineage' \subseteq lineage /\ forked' = forked
    BY <1>6 DEF Expires
  <2> QED
    BY <2>1
<1>7. CASE \E b \in backups : Restores(b)
  <2>1. PICK b \in backups : forked' = (forked \/ b \notin lineage) /\ lineage' \subseteq lineage
    BY <1>7 DEF Restores
  <2>2. ~forked' => ~forked
    BY <2>1 DEF PayloadTypeOK
  <2> QED
    BY <2>1, <2>2
<1> QED
  BY <1>1, <1>2, <1>3, <1>4, <1>5, <1>6, <1>7 DEF PayloadNext, OperationsNext

\* Of the past of a database, and so of the past of what a step makes of it.
LEMMA PastStep ==
    ASSUME RowsMove, RowsStart, NEW d, OrphansOK(d), Past(d, db)
    PROVE  Past(d, db')
<1> SUFFICES ASSUME NEW o \in Objects
             PROVE  /\ d.row[o] # Nothing /\ d.row[o].retired # 0 =>
                           db'.row[o] # Nothing /\ db'.row[o].retired # 0
                    /\ d.orphan[o] # 0 => db'.row[o] = Nothing
  BY DEF Past
<1>1. /\ d.row[o] # Nothing /\ d.row[o].retired # 0 => db.row[o] # Nothing /\ db.row[o].retired # 0
      /\ d.orphan[o] # 0 => db.row[o] = Nothing /\ key[o] # Nothing
  BY DEF Past, OrphansOK
<1> QED
  BY <1>1 DEF RowsMove, RowMoves, RowsStart

LEMMA LineageStep ==
    ASSUME PayloadConstants, PayloadsInv, Floors, RetainedInv, LineageInv, PayloadNext, ~forked'
    PROVE  LineageInv'
<1>0. lineage \subseteq backups
  BY Facts DEF PayloadTypeOK
<1>1. CASE \E b \in backups : Restores(b)
  <2>1. PICK b \in lineage : /\ db' = b.db /\ backups' = backups
                             /\ lineage' = {a \in lineage : a.start <= b.start}
    BY <1>1 DEF Restores, ServiceUnchanged
  <2> SUFFICES ASSUME NEW a \in lineage'
               PROVE  /\ Past(a.db, b.db)
                      /\ \A c \in lineage' : a.start <= c.start => Past(a.db, c.db)
                      /\ \A c \in backups' : Keeps(a.db, c)
    BY <2>1 DEF LineageInv, Keeps, Past
  <2> QED
    BY <2>1 DEF LineageInv
<1>2. CASE \A b \in backups : ~Restores(b)
  <2>1. RowsMove /\ RowsStart
    BY <1>2, StepMoves, Facts DEF DatabaseMoves
  <2>2. ASSUME NEW b, b \in backups' \ backups \/ b \in lineage' \ lineage
        PROVE  /\ b.db = db /\ b.start = clock /\ db' = db /\ b \in Backup
               /\ \A c \in lineage : c.start # clock /\ c.start <= clock
    <3>1. BacksUp /\ b = [start |-> clock, db |-> db]
      BY <2>2, BackupsFollow, LineageMoves, Facts
    <3>2. clock \in Times /\ db \in Database
      BY Facts DEF PayloadTypeOK
    <3> QED
      BY <1>0, <3>1, <3>2 DEF BacksUp, Backup, Floors
  <2>3. \A a \in lineage : OrphansOK(a.db) /\ a.db \in Database /\ a.start \in Nat
    BY <1>0, Facts DEF Sound
  <2>4. ASSUME NEW a \in lineage'
        PROVE  Past(a.db, db) /\ a.db \in Database /\ OrphansOK(a.db)
    <3>1. CASE a \in lineage
      BY <2>3, <3>1 DEF LineageInv
    <3>2. CASE a \notin lineage
      BY <2>2, <3>2, Facts, PresentIsPast DEF Sound
    <3> QED
      BY <3>1, <3>2
  <2>5. ASSUME NEW a \in lineage'
        PROVE  Past(a.db, db')
    BY <2>1, <2>4, PastStep
  <2>6. ASSUME NEW a \in lineage', NEW b \in lineage', a.start <= b.start
        PROVE  Past(a.db, b.db)
    <3>1. CASE b \notin lineage
      BY <2>2, <2>4, <3>1
    <3>2. CASE b \in lineage /\ a \in lineage
      BY <2>6, <3>2 DEF LineageInv
    <3>3. CASE b \in lineage /\ a \notin lineage
      <4>1. a.start = clock /\ b.start # clock /\ b.start <= clock
        BY <2>2, <3>3
      <4>2. clock \in Nat /\ b.start \in Nat
        BY <2>3, <3>3, Facts
      <4> QED
        BY <2>6, <4>1, <4>2
    <3> QED
      BY <3>1, <3>2, <3>3
  <2>7. ASSUME NEW a \in lineage', NEW c \in backups'
        PROVE  Keeps(a.db, c)
    <3>1. CASE c \notin backups
      BY <2>2, <2>4, <3>1, BegunKeeps
    <3>2. CASE c \in backups /\ a \in lineage
      BY <3>2 DEF LineageInv
    <3>3. CASE c \in backups /\ a \notin lineage
      BY <2>2, <3>3 DEF RetainedInv
    <3> QED
      BY <3>1, <3>2, <3>3
  <2> QED
    BY <2>5, <2>6, <2>7 DEF LineageInv, Past, Keeps
<1> QED
  BY <1>1, <1>2

\* What is stored, as long as the database goes back only to backups it descends from.
LEMMA StoredStep ==
    ASSUME PayloadConstants, PayloadsInv, PayloadsInv', StoredInv, [PayloadNext]_payloadVars
    PROVE  StoredInv'
<1>1. CASE PayloadNext
  <2>1. Written' /\ Floors'
    BY <1>1, WrittenStep, FloorsStep DEF StoredInv
  <2>2. ASSUME ~forked'
        PROVE  PointersAreStored' /\ BackupsAreRecoverable' /\ RetainedInv' /\ LineageInv'
    <3>1. ~forked
      BY <1>1, <2>2, LineageMoves, Facts
    <3> QED
      BY <1>1, <2>2, <3>1, PointersAreStoredStep, BackupsAreRecoverableStep, RetainedStep, LineageStep
      DEF StoredInv
  <2> QED
    BY <2>1, <2>2 DEF StoredInv
<1>2. CASE UNCHANGED payloadVars
  BY <1>2 DEF payloadVars, StoredInv, Written, Writable, Registered, PointersAreStored,
              BackupsAreRecoverable, Floors, RetainedInv, LineageInv, Keeps, Past
<1> QED
  BY <1>1, <1>2

\* For any numbers of objects, owners, backups and restores: as long as the database goes back only
\* to backups it descends from, what an owner points to, now or in any retained backup, the service
\* holds (publication.ts, collection.ts); and what was erased stays so, whatever is restored.
THEOREM PayloadsSafe ==
    ASSUME PayloadConstants
    PROVE  PayloadSpec => []PayloadsAreSafe
<1>1. PayloadInit => StoredInv
  BY DEF PayloadInit, StoredInv, Written, PointersAreStored, BackupsAreRecoverable, Floors,
         RetainedInv, LineageInv
<1>2. PayloadsInv /\ PayloadsInv' /\ StoredInv /\ [PayloadNext]_payloadVars => StoredInv'
  BY StoredStep
<1>3. PayloadSpec => []PayloadsInv
  BY PayloadsInvInductive
<1>4. PayloadsInv /\ StoredInv => PayloadsAreSafe
  BY ErasuresStand DEF StoredInv, PayloadsAreSafe
<1> QED
  BY <1>1, <1>2, <1>3, <1>4, PTL DEF PayloadSpec

(***************************************************************************)
(* The deletion of accounts.                                                *)
(***************************************************************************)

\* What a copy of the accounts says was erased is nowhere, and is not of a person who is in it.
LedgerInv(d, kept, logins) ==
    \A u \in Users :
        /\ \A s \in Surfaces : d.ledger[u][s] # "none" => u \notin d.alive
        /\ d.ledger[u]["vaultwarden"] = "erased" => u \notin kept
        /\ d.ledger[u]["whatsapp"] = "erased" => u \notin logins

\* Whoever was erased is in the journal, and out of the accounts once the replay has come to them.
DeletionInv ==
    /\ DeletionTypeOK
    /\ LedgerInv(accounts, vaults, linked)
    /\ backup # Nobody =>
          LedgerInv(backup, vaults, linked) /\ accounts.alive \subseteq backup.alive
    /\ ~Works => handler = [h \in Handlers |-> NoRequest]
    /\ erased \cup startup.left \subseteq tombstones
    /\ \A h \in Handlers : handler[h].at = "erases" => Asks[h] \in tombstones
    /\ \A u \in erased : Works \/ u \notin startup.left => u \notin accounts.alive

\* A request that is about to be refused is of a person who is there.
ReceiptInv ==
    /\ \A u \in erased : Works \/ u \notin startup.left =>
          accounts.request[u] = "pending_external" /\ u \in accounts.expires
    /\ \A h \in Handlers : handler[h].at = "blocks" => Asks[h] \in accounts.alive

\* The companies that a deletion has read are all those of its account, nobody else holds
\* them while it erases, and none of them needs the account.
HoldsCompanies(h) ==
    /\ handler[h].at \in {"locks", "erases"} => Of(Asks[h]) \subseteq handler[h].frontier
    /\ handler[h].at = "erases" =>
          /\ ~SoleOwner(Asks[h])
          /\ \A i \in Handlers \ {h} : handler[i].at = "erases" =>
                handler[i].frontier \cap handler[h].frontier = {}

PlacesInv ==
    \A c \in Companies, u \in Users :
        /\ accounts.role[c][u] # "none" => u \in accounts.alive
        /\ <<c, u>> \in accounts.invited => c \in accounts.open
        /\ c \notin accounts.open => accounts.place[c][u] = "none"
        /\ c \in accounts.open /\ u \notin Removals => accounts.place[c][u] = accounts.role[c][u]

CompanyInv ==
    /\ Works
    /\ CompanyKeepsAdmin
    /\ PlacesInv
    /\ \A h \in Handlers : HoldsCompanies(h)

CompaniesInv == restarts = 0 /\ ~LateJoins => CompanyInv

\* The tables after each operation, column by column.
SameRoles == accounts'.role = accounts.role /\ accounts'.place = accounts.place
SameRest == /\ accounts'.alive = accounts.alive /\ accounts'.request = accounts.request
            /\ accounts'.expires = accounts.expires /\ accounts'.ledger = accounts.ledger

LEMMA AccountsFields ==
    ASSUME NEW d \in Accounts
    PROVE  /\ d.alive \in SUBSET Users /\ d.role \in [Companies -> [Users -> Roles]]
           /\ d.place \in [Companies -> [Users -> Roles]] /\ d.open \in SUBSET Companies
           /\ d.invited \in SUBSET (Companies \X Users) /\ d.paired \in SUBSET Users
           /\ d.request \in [Users -> {"none", "blocked", "pending_external"}]
           /\ d.expires \in SUBSET Users
           /\ d.ledger \in [Users -> [Surfaces -> {"none", "pending_external", "erased"}]]
BY DEF Accounts

LEMMA CreatesColumns ==
    ASSUME accounts \in Accounts, NEW u \in Users, NEW c \in Companies, Creates(u, c)
    PROVE  /\ accounts' \in Accounts /\ SameRest
           /\ accounts'.open = accounts.open \cup {c} /\ accounts'.invited = accounts.invited
           /\ \A d \in Companies, v \in Users :
                 /\ accounts'.role[d][v] = IF d = c /\ v = u THEN "admin" ELSE accounts.role[d][v]
                 /\ accounts'.place[d][v] = IF d = c /\ v = u THEN "admin" ELSE accounts.place[d][v]
<1> DEFINE role == [accounts.role EXCEPT ![c][u] = "admin"]
           place == [accounts.place EXCEPT ![c][u] = "admin"]
<1>1. role \in [Companies -> [Users -> Roles]] /\ place \in [Companies -> [Users -> Roles]]
  BY AccountsFields DEF Roles
<1>2. \A d \in Companies, v \in Users :
         /\ role[d][v] = IF d = c /\ v = u THEN "admin" ELSE accounts.role[d][v]
         /\ place[d][v] = IF d = c /\ v = u THEN "admin" ELSE accounts.place[d][v]
  BY AccountsFields
<1>3. accounts' = [accounts EXCEPT !.role = role, !.place = place, !.open = @ \cup {c}]
  BY DEF Creates, Accounts
<1> HIDE DEF role, place
<1> QED
  BY <1>1, <1>2, <1>3 DEF Accounts, SameRest

LEMMA InvitesColumns ==
    ASSUME accounts \in Accounts, NEW u \in Users, NEW c \in Companies, NEW v \in Users,
           Invites(u, c, v)
    PROVE  /\ accounts' \in Accounts /\ SameRest /\ SameRoles
           /\ accounts'.open = accounts.open /\ accounts'.invited = accounts.invited \cup {<<c, v>>}
<1> DEFINE invited == accounts.invited \cup {<<c, v>>}
<1>1. invited \in SUBSET (Companies \X Users)
  BY AccountsFields
<1>2. accounts' = [accounts EXCEPT !.invited = invited]
  BY DEF Invites
<1> HIDE DEF invited
<1>3. accounts'.invited = invited
  BY <1>2 DEF Accounts
<1>4. accounts' \in Accounts /\ SameRest /\ SameRoles /\ accounts'.open = accounts.open
  BY <1>1, <1>2 DEF Accounts, SameRest, SameRoles
<1> QED
  BY <1>3, <1>4 DEF invited

LEMMA AcceptsColumns ==
    ASSUME accounts \in Accounts, NEW u \in Users, NEW c \in Companies, Accepts(u, c)
    PROVE  /\ accounts' \in Accounts /\ SameRest
           /\ accounts'.open = accounts.open
           /\ accounts'.invited = accounts.invited \ {<<c, u>>}
           /\ \A d \in Companies, v \in Users :
                 /\ accounts'.role[d][v] =
                       IF d = c /\ v = u /\ accounts.role[c][u] = "none" THEN "member"
                       ELSE accounts.role[d][v]
                 /\ accounts'.place[d][v] =
                       IF d = c /\ v = u /\ accounts.place[c][u] = "none" THEN "member"
                       ELSE accounts.place[d][v]
<1> DEFINE role == [accounts.role EXCEPT ![c][u] = IF @ = "none" THEN "member" ELSE @]
           place == [accounts.place EXCEPT ![c][u] = IF @ = "none" THEN "member" ELSE @]
<1>1. role \in [Companies -> [Users -> Roles]] /\ place \in [Companies -> [Users -> Roles]]
  BY AccountsFields DEF Roles
<1>2. \A d \in Companies, v \in Users :
         /\ role[d][v] = IF d = c /\ v = u /\ accounts.role[c][u] = "none" THEN "member"
                         ELSE accounts.role[d][v]
         /\ place[d][v] = IF d = c /\ v = u /\ accounts.place[c][u] = "none" THEN "member"
                          ELSE accounts.place[d][v]
  BY AccountsFields
<1>3. accounts' = [accounts EXCEPT !.invited = @ \ {<<c, u>>}, !.role = role, !.place = place]
  BY DEF Accepts, Accounts
<1> HIDE DEF role, place
<1> QED
  BY <1>1, <1>2, <1>3 DEF Accounts, SameRest

LEMMA RemovesColumns ==
    ASSUME accounts \in Accounts, NEW u \in Users, NEW c \in Companies, NEW v \in Users,
           RemovesMember(u, c, v)
    PROVE  /\ accounts' \in Accounts /\ SameRest
           /\ accounts'.open = accounts.open /\ accounts'.role = accounts.role
           /\ accounts'.invited = accounts.invited \ {<<c, v>>}
           /\ \A d \in Companies, w \in Users :
                 accounts'.place[d][w] = IF d = c /\ w = v THEN "none" ELSE accounts.place[d][w]
<1> DEFINE place == [accounts.place EXCEPT ![c][v] = "none"]
<1>1. place \in [Companies -> [Users -> Roles]]
  BY AccountsFields DEF Roles
<1>2. \A d \in Companies, w \in Users :
         place[d][w] = IF d = c /\ w = v THEN "none" ELSE accounts.place[d][w]
  BY AccountsFields
<1>3. accounts' = [accounts EXCEPT !.place = place, !.invited = @ \ {<<c, v>>}]
  BY DEF RemovesMember, Accounts
<1> HIDE DEF place
<1> QED
  BY <1>1, <1>2, <1>3 DEF Accounts, SameRest

LEMMA TransfersColumns ==
    ASSUME accounts \in Accounts, NEW u \in Users, NEW c \in Companies, NEW v \in Users,
           Transfers(u, c, v)
    PROVE  /\ accounts' \in Accounts /\ SameRest /\ u # v
           /\ accounts'.open = accounts.open /\ accounts'.invited = accounts.invited
           /\ \A d \in Companies, w \in Users :
                 /\ accounts'.role[d][w] = IF d = c /\ w = u THEN "member"
                                           ELSE IF d = c /\ w = v THEN "admin"
                                           ELSE accounts.role[d][w]
                 /\ accounts'.place[d][w] =
                       IF d = c /\ w = u THEN "member"
                       ELSE IF d = c /\ w = v /\ accounts.place[c][v] = "member" THEN "admin"
                       ELSE accounts.place[d][w]
<1> DEFINE role == [accounts.role EXCEPT ![c][u] = "member", ![c][v] = "admin"]
           place == [accounts.place EXCEPT ![c][u] = "member",
                                           ![c][v] = IF @ = "member" THEN "admin" ELSE @]
<1>1. u # v
  BY DEF Transfers
<1>2. /\ role \in [Companies -> [Users -> Roles]]
      /\ \A d \in Companies, w \in Users :
            role[d][w] = IF d = c /\ w = u THEN "member"
                         ELSE IF d = c /\ w = v THEN "admin"
                         ELSE accounts.role[d][w]
  BY <1>1, AccountsFields DEF Roles
<1>3. /\ place \in [Companies -> [Users -> Roles]]
      /\ \A d \in Companies, w \in Users :
            place[d][w] = IF d = c /\ w = u THEN "member"
                          ELSE IF d = c /\ w = v /\ accounts.place[c][v] = "member" THEN "admin"
                          ELSE accounts.place[d][w]
  <2>1. CASE accounts.place[c][v] = "member"
    <3>1. place = [accounts.place EXCEPT ![c][u] = "member", ![c][v] = "admin"]
      BY <1>1, <2>1, AccountsFields
    <3> HIDE DEF place
    <3> QED
      BY <1>1, <2>1, <3>1, AccountsFields DEF Roles
  <2>2. CASE accounts.place[c][v] # "member"
    <3>1. place = [accounts.place EXCEPT ![c][u] = "member"]
      BY <1>1, <2>2, AccountsFields
    <3> HIDE DEF place
    <3> QED
      BY <1>1, <2>2, <3>1, AccountsFields DEF Roles
  <2> QED
    BY <2>1, <2>2
<1>4. accounts' = [accounts EXCEPT !.role = role, !.place = place]
  BY DEF Transfers, Accounts
<1> HIDE DEF role, place
<1> QED
  BY <1>1, <1>2, <1>3, <1>4 DEF Accounts, SameRest

LEMMA ClosesColumns ==
    ASSUME accounts \in Accounts, NEW u \in Users, NEW c \in Companies, Closes(u, c)
    PROVE  /\ accounts' \in Accounts /\ SameRest
           /\ accounts'.open = accounts.open \ {c} /\ accounts'.role = accounts.role
           /\ accounts'.invited = {i \in accounts.invited : i[1] # c}
           /\ \A d \in Companies, v \in Users :
                 accounts'.place[d][v] = IF d = c THEN "none" ELSE accounts.place[d][v]
<1> DEFINE place == [accounts.place EXCEPT ![c] = [v \in Users |-> "none"]]
<1>1. place \in [Companies -> [Users -> Roles]]
  BY AccountsFields DEF Roles
<1>2. \A d \in Companies, v \in Users :
         place[d][v] = IF d = c THEN "none" ELSE accounts.place[d][v]
  BY AccountsFields
<1>3. accounts' = [accounts EXCEPT !.open = @ \ {c}, !.place = place,
                                   !.invited = {i \in @ : i[1] # c}]
  BY DEF Closes, Accounts
<1> HIDE DEF place
<1> QED
  BY <1>1, <1>2, <1>3 DEF Accounts, SameRest

LEMMA ErasedColumns ==
    ASSUME accounts \in Accounts, NEW u \in Users
    PROVE  /\ Erased(u) \in Accounts /\ Erased(u).alive = accounts.alive \ {u}
           /\ Erased(u).open = accounts.open
           /\ Erased(u).invited = {i \in accounts.invited : i[2] # u}
           /\ Erased(u).expires = accounts.expires \cup {u}
           /\ \A v \in Users :
                 /\ Erased(u).request[v] = IF v = u THEN "pending_external" ELSE accounts.request[v]
                 /\ \A s \in Surfaces : Erased(u).ledger[v][s] =
                       IF v = u THEN "pending_external" ELSE accounts.ledger[v][s]
                 /\ \A c \in Companies :
                       /\ Erased(u).role[c][v] = IF v = u THEN "none" ELSE accounts.role[c][v]
                       /\ Erased(u).place[c][v] = IF v = u THEN "none" ELSE accounts.place[c][v]
<1> DEFINE role == [c \in Companies |-> [accounts.role[c] EXCEPT ![u] = "none"]]
           place == [c \in Companies |-> [accounts.place[c] EXCEPT ![u] = "none"]]
           request == [accounts.request EXCEPT ![u] = "pending_external"]
           ledger == [accounts.ledger EXCEPT ![u] = [s \in Surfaces |-> "pending_external"]]
<1>1. /\ role \in [Companies -> [Users -> Roles]] /\ place \in [Companies -> [Users -> Roles]]
      /\ request \in [Users -> {"none", "blocked", "pending_external"}]
      /\ ledger \in [Users -> [Surfaces -> {"none", "pending_external", "erased"}]]
  BY AccountsFields DEF Roles
<1>2. \A v \in Users :
         /\ request[v] = IF v = u THEN "pending_external" ELSE accounts.request[v]
         /\ \A s \in Surfaces :
               ledger[v][s] = IF v = u THEN "pending_external" ELSE accounts.ledger[v][s]
         /\ \A c \in Companies :
               /\ role[c][v] = IF v = u THEN "none" ELSE accounts.role[c][v]
               /\ place[c][v] = IF v = u THEN "none" ELSE accounts.place[c][v]
  BY AccountsFields
<1>3. Erased(u) = [accounts EXCEPT !.alive = @ \ {u}, !.role = role, !.place = place,
                     !.invited = {i \in @ : i[2] # u}, !.paired = @ \ {u},
                     !.request = request, !.expires = @ \cup {u}, !.ledger = ledger]
  BY DEF Erased, Accounts
<1> DEFINE invited == {i \in accounts.invited : i[2] # u}
<1>4. /\ invited \in SUBSET (Companies \X Users) /\ accounts.alive \ {u} \in SUBSET Users
      /\ accounts.paired \ {u} \in SUBSET Users /\ accounts.expires \cup {u} \in SUBSET Users
      /\ accounts.open \in SUBSET Companies
  BY AccountsFields
<1> HIDE DEF role, place, request, ledger, invited
<1>5. /\ Erased(u).role = role /\ Erased(u).place = place /\ Erased(u).request = request
      /\ Erased(u).ledger = ledger
  BY <1>3 DEF Accounts
<1>6. /\ Erased(u).alive = accounts.alive \ {u}
      /\ Erased(u).open = accounts.open
      /\ Erased(u).invited = {i \in accounts.invited : i[2] # u}
      /\ Erased(u).expires = accounts.expires \cup {u}
  BY <1>3 DEF Accounts
<1>7. Erased(u) \in Accounts
  <2>1. Erased(u) = [accounts EXCEPT !.alive = @ \ {u}, !.role = role, !.place = place,
                       !.invited = invited, !.paired = @ \ {u},
                       !.request = request, !.expires = @ \cup {u}, !.ledger = ledger]
    BY <1>3 DEF invited
  <2> QED
    BY <1>1, <1>4, <2>1 DEF Accounts
<1> QED
  BY <1>2, <1>5, <1>6, <1>7

\* What a provider's answer changes in the ledger.
LEMMA MarkedColumns ==
    ASSUME accounts \in Accounts, NEW u, NEW vault, NEW whatsapp, NEW handles,
           accounts' = Marked(u, vault, whatsapp, handles)
    PROVE  /\ accounts' \in Accounts /\ SameRoles
           /\ accounts'.alive = accounts.alive /\ accounts'.request = accounts.request
           /\ accounts'.expires = accounts.expires
           /\ accounts'.open = accounts.open /\ accounts'.invited = accounts.invited
           /\ \A v \in Users, s \in Surfaces :
                 accounts'.ledger[v][s] =
                    IF /\ v = u /\ accounts.ledger[v][s] = "pending_external"
                       /\ \/ s = "vaultwarden" /\ vault = "ok"
                          \/ s = "whatsapp" /\ handles /\ whatsapp = "ok"
                    THEN "erased" ELSE accounts.ledger[v][s]
<1> DEFINE Takes(s) == \/ s = "vaultwarden" /\ vault = "ok"
                       \/ s = "whatsapp" /\ handles /\ whatsapp = "ok"
           surface == [s \in Surfaces |->
                         IF accounts.ledger[u][s] = "pending_external" /\ Takes(s)
                         THEN "erased" ELSE accounts.ledger[u][s]]
           ledger == [accounts.ledger EXCEPT ![u] = surface]
<1>1. accounts' = [accounts EXCEPT !.ledger = ledger]
  BY DEF Marked
<1> HIDE DEF Takes
<1>2. u \in Users => surface \in [Surfaces -> {"none", "pending_external", "erased"}]
  BY AccountsFields
<1>3. \A s \in Surfaces :
         surface[s] = IF accounts.ledger[u][s] = "pending_external" /\ Takes(s)
                      THEN "erased" ELSE accounts.ledger[u][s]
  OBVIOUS
<1> HIDE DEF surface
<1>4. ledger \in [Users -> [Surfaces -> {"none", "pending_external", "erased"}]]
  BY <1>2, AccountsFields
<1>5. \A v \in Users : ledger[v] = IF v = u THEN surface ELSE accounts.ledger[v]
  BY AccountsFields
<1> HIDE DEF ledger
<1>6. accounts'.ledger = ledger
  BY <1>1 DEF Accounts
<1>7. \A v \in Users, s \in Surfaces :
         accounts'.ledger[v][s] =
            IF v = u /\ accounts.ledger[v][s] = "pending_external" /\ Takes(s)
            THEN "erased" ELSE accounts.ledger[v][s]
  BY <1>3, <1>5, <1>6
<1>8. /\ accounts' \in Accounts /\ SameRoles
      /\ accounts'.alive = accounts.alive /\ accounts'.request = accounts.request
      /\ accounts'.expires = accounts.expires
      /\ accounts'.open = accounts.open /\ accounts'.invited = accounts.invited
  BY <1>1, <1>4 DEF Accounts, SameRoles
<1> QED
  BY <1>7, <1>8 DEF Takes

LEMMA PairsColumns ==
    ASSUME accounts \in Accounts, NEW u \in Users, Pairs(u)
    PROVE  /\ accounts' \in Accounts /\ SameRest /\ SameRoles
           /\ accounts'.open = accounts.open /\ accounts'.invited = accounts.invited
BY DEF Pairs, Accounts, SameRest, SameRoles

LEMMA BlocksColumns ==
    ASSUME accounts \in Accounts, NEW h \in Handlers, Asks[h] \in Users, Blocks(h)
    PROVE  /\ accounts' \in Accounts /\ SameRoles
           /\ accounts'.open = accounts.open /\ accounts'.invited = accounts.invited
           /\ accounts'.alive = accounts.alive /\ accounts'.ledger = accounts.ledger
           /\ \A u \in Users \ {Asks[h]} :
                 /\ accounts'.request[u] = accounts.request[u]
                 /\ u \in accounts'.expires <=> u \in accounts.expires
<1> DEFINE request == [accounts.request EXCEPT ![Asks[h]] = "blocked"]
           expires == accounts.expires \ {Asks[h]}
<1>1. /\ request \in [Users -> {"none", "blocked", "pending_external"}]
      /\ expires \in SUBSET Users
      /\ \A u \in Users \ {Asks[h]} : /\ request[u] = accounts.request[u]
                                      /\ u \in expires <=> u \in accounts.expires
  BY AccountsFields
<1>2. accounts' = [accounts EXCEPT !.request = request, !.expires = expires]
  BY DEF Blocks
<1> HIDE DEF request, expires
<1> QED
  BY <1>1, <1>2 DEF Accounts, SameRoles

\* A request and the replay note whether there is a login to wipe.
LEMMA Noted ==
    ASSUME NEW u
    PROVE  \E b \in BOOLEAN : b = (u \in accounts.paired)
<1>1. CASE u \in accounts.paired
  <2>1. (u \in accounts.paired) = TRUE
    BY <1>1
  <2> QED
    BY <2>1
<1>2. CASE u \notin accounts.paired
  <2>1. (u \in accounts.paired) = FALSE
    BY <1>2
  <2> QED
    BY <2>1
<1> QED
  BY <1>1, <1>2

LEMMA DeletionTypeStep ==
    ASSUME DeletionConstants, DeletionTypeOK, [DeletionNext]_deletionVars
    PROVE  DeletionTypeOK'
<1>1. CASE UNCHANGED deletionVars
  BY <1>1 DEF deletionVars, DeletionTypeOK
<1> USE DEF DeletionTypeOK
<1>2. ASSUME NEW u \in Users, NEW c \in Companies,
             \/ Creates(u, c) \/ Accepts(u, c) \/ Closes(u, c)
             \/ \E v \in Users : Invites(u, c, v) \/ RemovesMember(u, c, v) \/ Transfers(u, c, v)
      PROVE  DeletionTypeOK'
  <2>1. accounts' \in Accounts
    BY <1>2, CreatesColumns, AcceptsColumns, ClosesColumns, InvitesColumns, RemovesColumns,
       TransfersColumns
  <2>2. OnlyAccounts
    BY <1>2 DEF Creates, Accepts, Closes, Invites, RemovesMember, Transfers
  <2> QED
    BY <2>1, <2>2 DEF OnlyAccounts
<1>3. ASSUME NEW u \in Users, Pairs(u) PROVE DeletionTypeOK'
  BY <1>3, PairsColumns DEF Pairs
<1>4. ASSUME NEW h \in Handlers,
             Begins(h) \/ Admits(h) \/ Refuses(h) \/ Aborts(h)
      PROVE  DeletionTypeOK'
  <2>1. handler' \in [Handlers -> Handler]
    <3>1. NoRequest \in Handler /\ [NoRequest EXCEPT !.at = "blocks"] \in Handler
      BY DEF NoRequest, Handler
    <3>2. [NoRequest EXCEPT !.at = "locks", !.frontier = Of(Asks[h])] \in Handler
      BY DEF NoRequest, Handler, Of
    <3>3. CASE Admits(h)
      <4>1. PICK b \in BOOLEAN : b = (Asks[h] \in accounts.paired)
        BY Noted
      <4>2. handler' = [handler EXCEPT ![h].at = "erases", ![h].handles = b]
        BY <3>3, <4>1 DEF Admits
      <4> QED
        BY <4>2 DEF Handler
    <3>4. CASE Begins(h) \/ Refuses(h) \/ Aborts(h)
      BY <3>1, <3>2, <3>4 DEF Begins, Refuses, Aborts
    <3> QED
      BY <1>4, <3>3, <3>4
  <2> QED
    BY <1>4, <2>1 DEF Begins, Admits, Refuses, Aborts, DeletionConstants
<1>5. ASSUME NEW h \in Handlers, Blocks(h) \/ Erases(h) \/ Wipes(h)
      PROVE  DeletionTypeOK'
  <2>1. Asks[h] \in Users
    BY DEF DeletionConstants
  <2>2. handler' \in [Handlers -> Handler]
    <3>1. NoRequest \in Handler /\ [handler[h] EXCEPT !.at = "wipes", !.frontier = {}] \in Handler
      BY DEF NoRequest, Handler
    <3> QED
      BY <1>5, <3>1 DEF Blocks, Erases, Wipes
  <2>3. accounts' \in Accounts
    BY <1>5, <2>1, BlocksColumns, ErasedColumns, MarkedColumns DEF Erases, Wipes, Wipe
  <2> QED
    BY <1>5, <2>1, <2>2, <2>3 DEF Blocks, Erases, Wipes, Wipe
<1>6. ASSUME NEW u \in Users, ErasesAgain(u) PROVE DeletionTypeOK'
  <2>1. PICK b \in BOOLEAN : b = (u \in accounts.paired)
    BY Noted
  <2>2. startup' = [startup EXCEPT !.at = "wipes", !.left = @ \ {u}, !.user = u, !.handles = b]
    BY <1>6, <2>1 DEF ErasesAgain
  <2>3. startup' \in Startup
    BY <2>2 DEF Startup
  <2> QED
    BY <1>6, <2>3, ErasedColumns DEF ErasesAgain
<1>7. CASE ReplayWipes
  <2>1. startup' \in Startup
    BY <1>7 DEF ReplayWipes, Replaying, Startup
  <2> QED
    BY <1>7, <2>1, MarkedColumns DEF ReplayWipes, Wipe
<1>8. CASE TakesBackup \/ Restarts \/ RestoresAccounts \/ StartsService
  <2>1. [h \in Handlers |-> NoRequest] \in [Handlers -> Handler]
    BY DEF NoRequest, Handler
  <2>2. Replaying \in Startup /\ Serving \in Startup
    BY DEF Replaying, Serving, Startup
  <2>3. startup' \in Startup
    BY <1>8, <2>2 DEF TakesBackup, Restarts, RestoresAccounts, StartsService, Starts
  <2>4. handler' \in [Handlers -> Handler]
    BY <1>8, <2>1 DEF TakesBackup, Restarts, RestoresAccounts, StartsService
  <2> QED
    BY <1>8, <2>3, <2>4 DEF TakesBackup, Restarts, RestoresAccounts, StartsService,
                           DeletionConstants
<1> QED
  BY <1>1, <1>2, <1>3, <1>4, <1>5, <1>6, <1>7, <1>8 DEF DeletionNext, Company, Deletion, Replay

LEMMA DeletionStart ==
    ASSUME DeletionConstants, DeletionInit
    PROVE  /\ DeletionTypeOK /\ accounts.invited = {} /\ accounts.open \subseteq Companies
           /\ vaults = accounts.alive /\ linked = {} /\ Works
           /\ \A u \in Users, s \in Surfaces : accounts.ledger[u][s] = "none"
           /\ \A c \in Companies, u \in Users :
                 /\ accounts.place[c][u] = accounts.role[c][u]
                 /\ c \notin accounts.open => accounts.role[c][u] = "none"
                 /\ accounts.role[c][u] # "none" => u \in accounts.alive
           /\ \A c \in accounts.open : \E u \in Users : accounts.role[c][u] = "admin"
<1>1. PICK people \in SUBSET Users :
         /\ \/ accounts = Accounts0(people, NoRoles, {})
            \/ /\ Administrators # {} /\ Administrators \subseteq people
               /\ accounts = Accounts0(people, Led, Companies)
         /\ vaults = people
  BY DEF DeletionInit
<1>2. PICK roles \in {NoRoles, Led}, companies \in {{}, Companies} :
         /\ accounts = Accounts0(people, roles, companies)
         /\ \/ roles = NoRoles /\ companies = {}
            \/ /\ roles = Led /\ companies = Companies
               /\ Administrators # {} /\ Administrators \subseteq people
  BY <1>1
<1>3. /\ roles \in [Companies -> [Users -> Roles]] /\ companies \in SUBSET Companies
      /\ \A c \in Companies, u \in Users :
            /\ c \notin companies => roles[c][u] = "none"
            /\ roles[c][u] # "none" => u \in people
      /\ \A c \in companies : \E u \in Users : roles[c][u] = "admin"
  BY <1>2 DEF NoRoles, Led, Roles
<1> HIDE DEF NoRoles, Led
<1>4. accounts \in Accounts
  BY <1>2, <1>3 DEF Accounts0, Accounts, Surfaces
<1>5. /\ accounts.alive = people /\ accounts.role = roles /\ accounts.place = roles
      /\ accounts.open = companies /\ accounts.invited = {}
      /\ \A u \in Users, s \in Surfaces : accounts.ledger[u][s] = "none"
  BY <1>2 DEF Accounts0
<1>6. NoRequest \in Handler /\ Serving \in Startup
  BY DEF NoRequest, Handler, Serving, Startup
<1> QED
  BY <1>1, <1>3, <1>4, <1>5, <1>6
     DEF DeletionInit, DeletionTypeOK, Works, Serving, DeletionConstants

\* A vault and a login only go, but for a person who is there.
LEMMA LedgerKept ==
    ASSUME NEW d, NEW kept, NEW logins, NEW keptP, NEW loginsP, LedgerInv(d, kept, logins),
           keptP \subseteq kept, loginsP \subseteq logins \cup d.alive
    PROVE  LedgerInv(d, keptP, loginsP)
BY DEF LedgerInv, Surfaces

LEMMA LedgerErased ==
    ASSUME accounts \in Accounts, NEW u \in Users, LedgerInv(accounts, vaults, linked)
    PROVE  LedgerInv(Erased(u), vaults, linked)
<1> DEFINE d == Erased(u)
<1>1. /\ d.alive = accounts.alive \ {u}
      /\ \A v \in Users, s \in Surfaces :
            d.ledger[v][s] = IF v = u THEN "pending_external" ELSE accounts.ledger[v][s]
  BY ErasedColumns
<1> HIDE DEF d
<1>2. LedgerInv(d, vaults, linked)
  BY <1>1 DEF LedgerInv, Surfaces
<1> QED
  BY <1>2 DEF d

LEMMA LedgerWiped ==
    ASSUME accounts \in Accounts, NEW u, NEW handles, Wipe(u, handles),
           LedgerInv(accounts, vaults, linked)
    PROVE  /\ LedgerInv(accounts, vaults, linked)'
           /\ vaults' \subseteq vaults /\ linked' \subseteq linked
           /\ accounts'.alive = accounts.alive /\ accounts'.request = accounts.request
           /\ accounts'.expires = accounts.expires
           /\ accounts'.open = accounts.open /\ accounts'.invited = accounts.invited /\ SameRoles
<1>1. PICK vault \in Outcomes, whatsapp \in Outcomes :
         /\ vaults' = IF vault = "down" THEN vaults ELSE vaults \ {u}
         /\ linked' = IF handles /\ whatsapp # "down" THEN linked \ {u} ELSE linked
         /\ accounts' = Marked(u, vault, whatsapp, handles)
  BY DEF Wipe
<1>2. /\ accounts'.alive = accounts.alive
      /\ \A v \in Users, s \in Surfaces :
            accounts'.ledger[v][s] =
               IF /\ v = u /\ accounts.ledger[v][s] = "pending_external"
                  /\ \/ s = "vaultwarden" /\ vault = "ok"
                     \/ s = "whatsapp" /\ handles /\ whatsapp = "ok"
               THEN "erased" ELSE accounts.ledger[v][s]
  BY <1>1, MarkedColumns
<1>3. LedgerInv(accounts', vaults', linked')
  BY <1>1, <1>2 DEF LedgerInv, Surfaces
<1> QED
  BY <1>1, <1>3, MarkedColumns DEF LedgerInv

\* What a company does leaves the deletions alone.
LEMMA CompanyColumns ==
    ASSUME accounts \in Accounts, Company
    PROVE  /\ accounts' \in Accounts /\ SameRest /\ Works
           /\ UNCHANGED <<backup, tombstones, vaults, linked, handler, startup, erased, restarts>>
<1>1. PICK u \in Users, c \in Companies :
         \/ Creates(u, c) \/ Accepts(u, c) \/ Closes(u, c)
         \/ \E v \in Users : Invites(u, c, v) \/ RemovesMember(u, c, v) \/ Transfers(u, c, v)
  BY DEF Company
<1>2. accounts' \in Accounts /\ SameRest
  BY <1>1, CreatesColumns, AcceptsColumns, ClosesColumns, InvitesColumns, RemovesColumns,
     TransfersColumns
<1>3. OnlyAccounts /\ Works
  BY <1>1 DEF Creates, Accepts, Closes, Invites, RemovesMember, Transfers
<1> QED
  BY <1>2, <1>3 DEF OnlyAccounts

LEMMA DeletionInvStep ==
    ASSUME DeletionConstants, DeletionInv, [DeletionNext]_deletionVars
    PROVE  DeletionInv'
<1>1. DeletionTypeOK'
  BY DeletionTypeStep DEF DeletionInv
<1>2. accounts \in Accounts /\ handler \in [Handlers -> Handler] /\ startup \in Startup
  BY DEF DeletionInv, DeletionTypeOK
<1>3. CASE UNCHANGED deletionVars
  BY <1>3 DEF deletionVars, DeletionInv, DeletionTypeOK, LedgerInv, Works
<1>4. CASE Company
  <2>1. SameRest
    BY <1>2, <1>4, CompanyColumns
  <2>2. UNCHANGED <<backup, tombstones, vaults, linked, handler, startup, erased, restarts>>
    BY <1>2, <1>4, CompanyColumns
  <2> QED
    BY <1>1, <2>1, <2>2 DEF DeletionInv, LedgerInv, Works, SameRest
<1>5. ASSUME NEW u \in Users, Pairs(u) PROVE DeletionInv'
  <2>1. /\ SameRest /\ linked' = linked \cup {u} /\ u \in accounts.alive
        /\ UNCHANGED <<backup, tombstones, vaults, handler, startup, erased, restarts>>
    BY <1>2, <1>5, PairsColumns DEF Pairs, MayJoin
  <2>2. LedgerInv(accounts, vaults, linked')
    BY <2>1, LedgerKept DEF DeletionInv
  <2>3. LedgerInv(accounts, vaults, linked)'
    BY <2>1, <2>2 DEF LedgerInv, SameRest
  <2>4. backup # Nobody => LedgerInv(backup, vaults, linked')
    BY <2>1, LedgerKept DEF DeletionInv
  <2> QED
    BY <1>1, <2>1, <2>3, <2>4 DEF DeletionInv, Works, SameRest
<1>6. ASSUME NEW h \in Handlers, Deletion,
             \/ Begins(h) \/ Admits(h) \/ Refuses(h) \/ Blocks(h)
             \/ Erases(h) \/ Aborts(h) \/ Wipes(h)
      PROVE  DeletionInv'
  <2>1. Works /\ UNCHANGED <<backup, startup, restarts>> /\ Asks[h] \in Users
    BY <1>6 DEF DeletionInv, DeletionConstants, NoRequest, Begins, Admits, Refuses, Blocks, Erases,
                Aborts, Wipes
  <2>2. CASE Begins(h) \/ Admits(h) \/ Refuses(h) \/ Aborts(h)
    <3>1. /\ UNCHANGED <<accounts, vaults, linked, erased>> /\ tombstones \subseteq tombstones'
          /\ \A i \in Handlers : handler'[i].at = "erases" => Asks[i] \in tombstones'
      <4>1. CASE Begins(h)
        BY <1>2, <4>1 DEF Begins, NoRequest, Handler, DeletionInv
      <4>2. CASE Admits(h)
        BY <1>2, <4>2 DEF Admits, Handler, DeletionInv
      <4>3. CASE Refuses(h) \/ Aborts(h)
        BY <1>2, <4>3 DEF Refuses, Aborts, NoRequest, Handler, DeletionInv
      <4> QED
        BY <2>2, <4>1, <4>2, <4>3
    <3> QED
      BY <1>1, <2>1, <3>1 DEF DeletionInv, Works
  <2>3. CASE Blocks(h)
    <3>1. /\ accounts'.alive = accounts.alive /\ accounts'.ledger = accounts.ledger
          /\ UNCHANGED <<tombstones, vaults, linked, erased>>
      BY <1>2, <2>1, <2>3, BlocksColumns DEF Blocks
    <3>2. \A i \in Handlers : handler'[i].at = "erases" => handler[i].at = "erases"
      BY <1>2, <2>3 DEF Blocks, NoRequest, Handler
    <3> QED
      BY <1>1, <2>1, <3>1, <3>2 DEF DeletionInv, LedgerInv, Works
  <2>4. CASE Erases(h)
    <3>1. /\ accounts'.alive = accounts.alive \ {Asks[h]} /\ erased' = erased \cup {Asks[h]}
          /\ UNCHANGED <<tombstones, vaults, linked>>
      BY <1>2, <2>1, <2>4, ErasedColumns DEF Erases
    <3>2. \A i \in Handlers : handler'[i].at = "erases" => handler[i].at = "erases"
      BY <1>2, <2>4 DEF Erases, Handler
    <3>3. Asks[h] \in tombstones
      BY <2>4 DEF Erases, DeletionInv
    <3>4. LedgerInv(accounts', vaults, linked)
      BY <1>2, <2>1, <2>4, LedgerErased DEF Erases, DeletionInv
    <3>5. LedgerInv(accounts, vaults, linked)'
      BY <3>1, <3>4 DEF LedgerInv
    <3> QED
      BY <1>1, <2>1, <3>1, <3>2, <3>3, <3>5 DEF DeletionInv, Works
  <2>5. CASE Wipes(h)
    <3>1. Wipe(Asks[h], handler[h].handles) /\ UNCHANGED <<tombstones, erased>>
      BY <2>5 DEF Wipes
    <3>2. /\ LedgerInv(accounts, vaults, linked)' /\ accounts'.alive = accounts.alive
          /\ vaults' \subseteq vaults /\ linked' \subseteq linked
      BY <1>2, <3>1, LedgerWiped DEF DeletionInv
    <3>3. backup # Nobody => LedgerInv(backup, vaults', linked')
      BY <3>2, LedgerKept DEF DeletionInv
    <3>4. \A i \in Handlers : handler'[i].at = "erases" => handler[i].at = "erases"
      BY <1>2, <2>5 DEF Wipes, NoRequest, Handler
    <3> QED
      BY <1>1, <2>1, <3>1, <3>2, <3>3, <3>4 DEF DeletionInv, Works
  <2> QED
    BY <1>6, <2>2, <2>3, <2>4, <2>5
<1>7. CASE TakesBackup
  <2>1. /\ backup' = accounts /\ Works
        /\ UNCHANGED <<accounts, tombstones, vaults, linked, handler, startup, erased, restarts>>
    BY <1>7 DEF TakesBackup
  <2> QED
    BY <1>1, <2>1 DEF DeletionInv, LedgerInv, Works
<1>8. CASE Restarts \/ RestoresAccounts
  <2>1. /\ handler' = [h \in Handlers |-> NoRequest] /\ startup' = Replaying
        /\ UNCHANGED <<backup, tombstones, vaults, linked, erased>>
    BY <1>8 DEF Restarts, RestoresAccounts, Starts
  <2>2. LedgerInv(accounts', vaults, linked)
    BY <1>8 DEF Restarts, RestoresAccounts, DeletionInv
  <2>3. LedgerInv(accounts, vaults, linked)'
    BY <2>1, <2>2 DEF LedgerInv
  <2>4. backup' # Nobody => LedgerInv(backup, vaults, linked)' /\ accounts'.alive \subseteq backup'.alive
    <3>1. backup # Nobody => LedgerInv(backup, vaults, linked) /\ accounts'.alive \subseteq backup.alive
      BY <1>8 DEF Restarts, RestoresAccounts, DeletionInv
    <3> QED
      BY <2>1, <3>1 DEF LedgerInv
  <2>5. startup'.left = tombstones /\ ~Works'
    BY <2>1 DEF Replaying, Works
  <2>6. \A h \in Handlers : handler'[h].at # "erases"
    BY <2>1 DEF NoRequest
  <2> QED
    BY <1>1, <2>1, <2>3, <2>4, <2>5, <2>6 DEF DeletionInv
<1>9. ASSUME NEW u \in Users, ErasesAgain(u) PROVE DeletionInv'
  <2>1. /\ accounts'.alive = accounts.alive \ {u} /\ erased' = erased \cup {u}
        /\ UNCHANGED <<backup, tombstones, vaults, linked, handler, restarts>>
    BY <1>2, <1>9, ErasedColumns DEF ErasesAgain
  <2>2. /\ u \in startup.left /\ startup'.left = startup.left \ {u} /\ ~Works /\ ~Works'
    BY <1>2, <1>9 DEF ErasesAgain, Startup, Works
  <2>3. LedgerInv(accounts', vaults, linked)
    BY <1>2, <1>9, LedgerErased DEF ErasesAgain, DeletionInv
  <2>4. LedgerInv(accounts, vaults, linked)'
    BY <2>1, <2>3 DEF LedgerInv
  <2> QED
    BY <1>1, <2>1, <2>2, <2>4 DEF DeletionInv
<1>10. CASE ReplayWipes
  <2>1. Wipe(startup.user, startup.handles) /\ UNCHANGED <<backup, tombstones, handler, erased>>
    BY <1>10 DEF ReplayWipes
  <2>2. startup'.left = startup.left /\ ~Works /\ ~Works'
    BY <1>10 DEF ReplayWipes, Replaying, Works
  <2>3. /\ LedgerInv(accounts, vaults, linked)' /\ accounts'.alive = accounts.alive
        /\ vaults' \subseteq vaults /\ linked' \subseteq linked
    BY <1>2, <2>1, LedgerWiped DEF DeletionInv
  <2>4. backup # Nobody => LedgerInv(backup, vaults', linked')
    BY <2>3, LedgerKept DEF DeletionInv
  <2> QED
    BY <1>1, <2>1, <2>2, <2>3, <2>4 DEF DeletionInv
<1>11. CASE StartsService
  <2>1. /\ startup.left = {} /\ startup'.left = {} /\ ~Works
        /\ UNCHANGED <<accounts, backup, tombstones, vaults, linked, handler, erased>>
    BY <1>11 DEF StartsService, Serving, Works
  <2> QED
    BY <1>1, <2>1 DEF DeletionInv, LedgerInv
<1> QED
  BY <1>3, <1>4, <1>5, <1>6, <1>7, <1>8, <1>9, <1>10, <1>11 DEF DeletionNext, Deletion, Replay

LEMMA DeletionInvInitially ==
    ASSUME DeletionConstants, DeletionInit
    PROVE  DeletionInv
<1>1. /\ DeletionTypeOK /\ Works
      /\ \A u \in Users, s \in Surfaces : accounts.ledger[u][s] = "none"
  BY DeletionStart
<1>2. backup = Nobody /\ tombstones = {} /\ erased = {} /\ startup.left = {}
  BY DEF DeletionInit, Serving
<1>3. \A h \in Handlers : handler[h].at = "idle"
  BY DEF DeletionInit, NoRequest
<1> QED
  BY <1>1, <1>2, <1>3 DEF DeletionInv, LedgerInv, Surfaces

LEMMA ReceiptsInitially ==
    ASSUME DeletionInit
    PROVE  ReceiptInv
<1>1. erased = {} /\ \A h \in Handlers : handler[h].at = "idle"
  BY DEF DeletionInit, NoRequest
<1> QED
  BY <1>1 DEF ReceiptInv

\* Only the request that was refused writes over a receipt, and not that of a deleted account.
LEMMA ReceiptStep ==
    ASSUME DeletionConstants, OneRequestEach, DeletionInv, ReceiptInv,
           [DeletionNext]_deletionVars
    PROVE  ReceiptInv'
<1>1. accounts \in Accounts /\ handler \in [Handlers -> Handler] /\ startup \in Startup
  BY DEF DeletionInv, DeletionTypeOK
<1>2. CASE UNCHANGED deletionVars
  BY <1>2 DEF deletionVars, ReceiptInv, Works
<1>3. CASE Company \/ \E u \in Users : Pairs(u)
  <2>1. SameRest /\ UNCHANGED <<handler, startup, erased>>
    BY <1>1, <1>3, CompanyColumns, PairsColumns DEF Pairs
  <2> QED
    BY <2>1 DEF ReceiptInv, Works, SameRest
<1>4. ASSUME NEW h \in Handlers,
             \/ Begins(h) \/ Admits(h) \/ Refuses(h) \/ Blocks(h)
             \/ Erases(h) \/ Aborts(h) \/ Wipes(h)
      PROVE  ReceiptInv'
  <2>1. Works /\ UNCHANGED startup /\ Asks[h] \in Users
    BY <1>4 DEF DeletionInv, DeletionConstants, NoRequest, Begins, Admits, Refuses, Blocks, Erases,
                Aborts, Wipes
  <2>2. CASE Begins(h) \/ Admits(h) \/ Refuses(h) \/ Aborts(h)
    <3>1. UNCHANGED <<accounts, erased>>
      BY <2>2 DEF Begins, Admits, Refuses, Aborts
    <3>2. \A i \in Handlers : handler'[i].at = "blocks" => Asks[i] \in accounts.alive
      <4>1. CASE Begins(h) \/ Admits(h)
        BY <1>1, <4>1 DEF Begins, Admits, NoRequest, Handler, ReceiptInv
      <4>2. CASE Refuses(h) \/ Aborts(h)
        BY <1>1, <4>2 DEF Refuses, Aborts, NoRequest, Handler, ReceiptInv
      <4> QED
        BY <2>2, <4>1, <4>2
    <3> QED
      BY <2>1, <3>1, <3>2 DEF ReceiptInv, Works
  <2>3. CASE Blocks(h)
    <3>1. /\ accounts'.alive = accounts.alive /\ UNCHANGED erased
          /\ \A u \in Users \ {Asks[h]} :
                /\ accounts'.request[u] = accounts.request[u]
                /\ u \in accounts'.expires <=> u \in accounts.expires
      BY <1>1, <2>1, <2>3, BlocksColumns DEF Blocks
    <3>2. Asks[h] \in accounts.alive
      BY <2>3 DEF Blocks, ReceiptInv
    <3>3. Asks[h] \notin erased /\ erased \subseteq Users
      BY <2>1, <3>2 DEF DeletionInv, DeletionTypeOK
    <3>4. \A i \in Handlers : handler'[i].at = "blocks" => handler[i].at = "blocks"
      BY <1>1, <2>3 DEF Blocks, NoRequest, Handler
    <3> QED
      BY <2>1, <3>1, <3>3, <3>4 DEF ReceiptInv, Works
  <2>4. CASE Erases(h)
    <3>1. /\ accounts'.alive = accounts.alive \ {Asks[h]} /\ erased' = erased \cup {Asks[h]}
          /\ accounts'.expires = accounts.expires \cup {Asks[h]}
          /\ \A u \in Users : accounts'.request[u] =
                IF u = Asks[h] THEN "pending_external" ELSE accounts.request[u]
      BY <1>1, <2>1, <2>4, ErasedColumns DEF Erases
    <3>2. \A i \in Handlers : handler'[i].at = "blocks" => i # h /\ handler[i].at = "blocks"
      BY <1>1, <2>4 DEF Erases, Handler
    <3>3. \A i \in Handlers : i # h => Asks[i] # Asks[h]
      BY DEF OneRequestEach
    <3>4. erased \subseteq Users
      BY DEF DeletionInv, DeletionTypeOK
    <3> QED
      BY <2>1, <3>1, <3>2, <3>3, <3>4 DEF ReceiptInv, Works
  <2>5. CASE Wipes(h)
    <3>1. Wipe(Asks[h], handler[h].handles) /\ UNCHANGED erased
      BY <2>5 DEF Wipes
    <3>2. /\ accounts'.alive = accounts.alive /\ accounts'.request = accounts.request
          /\ accounts'.expires = accounts.expires
      BY <1>1, <3>1, LedgerWiped DEF DeletionInv
    <3>3. \A i \in Handlers : handler'[i].at = "blocks" => handler[i].at = "blocks"
      BY <1>1, <2>5 DEF Wipes, NoRequest, Handler
    <3> QED
      BY <2>1, <3>1, <3>2, <3>3 DEF ReceiptInv, Works
  <2> QED
    BY <1>4, <2>2, <2>3, <2>4, <2>5
<1>5. CASE TakesBackup
  BY <1>5 DEF TakesBackup, ReceiptInv, Works
<1>6. CASE Restarts \/ RestoresAccounts
  <2>1. startup'.left = tombstones /\ ~Works' /\ erased' = erased
    BY <1>6 DEF Restarts, RestoresAccounts, Starts, Replaying, Works
  <2>2. \A h \in Handlers : handler'[h].at # "blocks"
    BY <1>6 DEF Restarts, RestoresAccounts, NoRequest
  <2> QED
    BY <2>1, <2>2 DEF ReceiptInv, DeletionInv
<1>7. ASSUME ~Works PROVE \A h \in Handlers : handler[h].at # "blocks"
  BY <1>7 DEF DeletionInv, NoRequest
<1>8. ASSUME NEW u \in Users, ErasesAgain(u) PROVE ReceiptInv'
  <2>1. /\ accounts'.expires = accounts.expires \cup {u} /\ erased' = erased \cup {u}
        /\ \A v \in Users : accounts'.request[v] =
              IF v = u THEN "pending_external" ELSE accounts.request[v]
    BY <1>1, <1>8, ErasedColumns DEF ErasesAgain
  <2>2. startup'.left = startup.left \ {u} /\ ~Works /\ ~Works' /\ UNCHANGED handler
    BY <1>1, <1>8 DEF ErasesAgain, Startup, Works
  <2>3. erased \subseteq Users
    BY DEF DeletionInv, DeletionTypeOK
  <2> QED
    BY <1>7, <2>1, <2>2, <2>3 DEF ReceiptInv
<1>9. CASE ReplayWipes
  <2>1. Wipe(startup.user, startup.handles) /\ UNCHANGED <<handler, erased>>
    BY <1>9 DEF ReplayWipes
  <2>2. startup'.left = startup.left /\ ~Works /\ ~Works'
    BY <1>9 DEF ReplayWipes, Replaying, Works
  <2>3. accounts'.request = accounts.request /\ accounts'.expires = accounts.expires
    BY <1>1, <2>1, LedgerWiped DEF DeletionInv
  <2> QED
    BY <1>7, <2>1, <2>2, <2>3 DEF ReceiptInv
<1>10. CASE StartsService
  <2>1. startup.left = {} /\ startup'.left = {} /\ ~Works /\ UNCHANGED <<accounts, handler, erased>>
    BY <1>10 DEF StartsService, Serving, Works
  <2> QED
    BY <1>7, <2>1 DEF ReceiptInv
<1> QED
  BY <1>2, <1>3, <1>4, <1>5, <1>6, <1>8, <1>9, <1>10 DEF DeletionNext, Deletion, Replay

LEMMA CompaniesInitially ==
    ASSUME DeletionConstants, DeletionInit
    PROVE  CompanyInv
<1>1. \A h \in Handlers : handler[h].at = "idle"
  BY DEF DeletionInit, NoRequest
<1> QED
  BY <1>1, DeletionStart DEF CompanyInv, CompanyKeepsAdmin, PlacesInv, HoldsCompanies

\* While nobody joins during a deletion, what happens to a company that a deletion does not
\* hold leaves the companies of its account and their administrators alone.
LEMMA HoldsKept ==
    ASSUME DeletionConstants, NEW h \in Handlers, HoldsCompanies(h), UNCHANGED handler,
           accounts'.open \cap Of(Asks[h]) \subseteq accounts.open,
           handler[h].at \in {"locks", "erases"} => Of(Asks[h])' \subseteq Of(Asks[h]),
           handler[h].at = "erases" =>
              \A c \in Of(Asks[h]), v \in Users : accounts'.role[c][v] = accounts.role[c][v]
    PROVE  HoldsCompanies(h)'
<1>1. Asks[h] \in Users
  BY DEF DeletionConstants
<1>2. ASSUME handler[h].at = "erases", SoleOwner(Asks[h])' PROVE FALSE
  <2>1. PICK c \in Companies :
           /\ accounts'.role[c][Asks[h]] = "admin"
           /\ \A v \in Users \ {Asks[h]} : accounts'.role[c][v] # "admin"
           /\ \/ c \in accounts'.open
              \/ \E v \in Users \ {Asks[h]} : accounts'.role[c][v] # "none"
    BY <1>2 DEF SoleOwner
  <2>2. c \in Of(Asks[h])
    BY <1>1, <1>2, <2>1 DEF Of
  <2>3. \A v \in Users : accounts.role[c][v] = accounts'.role[c][v]
    BY <1>2, <2>2
  <2>4. SoleOwner(Asks[h])
    <3>1. /\ accounts.role[c][Asks[h]] = "admin"
          /\ \A v \in Users \ {Asks[h]} : accounts.role[c][v] # "admin"
      BY <1>1, <2>1, <2>3
    <3>2. c \in accounts.open \/ \E v \in Users \ {Asks[h]} : accounts.role[c][v] # "none"
      BY <2>1, <2>2, <2>3
    <3> QED
      BY <3>1, <3>2 DEF SoleOwner
  <2> QED
    BY <1>2, <2>4 DEF HoldsCompanies
<1>3. handler'[h].at \in {"locks", "erases"} => Of(Asks[h])' \subseteq handler'[h].frontier
  BY DEF HoldsCompanies
<1> QED
  BY <1>2, <1>3 DEF HoldsCompanies

\* A company that is not locked has none of the accounts that are being erased.
LEMMA FreeCompany ==
    ASSUME NEW h \in Handlers, NEW c \in Companies, HoldsCompanies(h), ~Locked(c),
           handler[h].at = "erases"
    PROVE  c \notin Of(Asks[h])
BY DEF HoldsCompanies, Locked

LEMMA CompaniesCreated ==
    ASSUME DeletionConstants, ~LateJoins, accounts \in Accounts, CompanyInv,
           NEW u \in Users, NEW c \in Companies, Creates(u, c)
    PROVE  CompanyInv'
<1>1. /\ SameRest /\ accounts'.open = accounts.open \cup {c}
      /\ accounts'.invited = accounts.invited
      /\ \A d \in Companies, v \in Users :
            /\ accounts'.role[d][v] = IF d = c /\ v = u THEN "admin" ELSE accounts.role[d][v]
            /\ accounts'.place[d][v] = IF d = c /\ v = u THEN "admin" ELSE accounts.place[d][v]
  BY CreatesColumns
<1>2. /\ u \in accounts.alive /\ ~Leaving(u) /\ c \notin accounts.open
      /\ \A v \in Users : accounts.role[c][v] = "none"
      /\ UNCHANGED <<startup, handler>>
  BY DEF Creates, MayJoin, OnlyAccounts
<1>3. CompanyKeepsAdmin'
  <2>1. ASSUME NEW d \in Companies,
               d \in accounts'.open \/ \E v \in Users : accounts'.role[d][v] # "none"
        PROVE  \E v \in Users : accounts'.role[d][v] = "admin"
    <3>1. CASE d = c
      BY <1>1, <3>1
    <3>2. CASE d # c
      BY <1>1, <2>1, <3>2 DEF CompanyInv, CompanyKeepsAdmin
    <3> QED
      BY <3>1, <3>2
  <2> QED
    BY <2>1 DEF CompanyKeepsAdmin
<1>4. PlacesInv'
  <2>1. ASSUME NEW d \in Companies, NEW v \in Users
        PROVE  /\ accounts'.role[d][v] # "none" => v \in accounts'.alive
               /\ <<d, v>> \in accounts'.invited => d \in accounts'.open
               /\ d \notin accounts'.open => accounts'.place[d][v] = "none"
               /\ d \in accounts'.open /\ v \notin Removals =>
                     accounts'.place[d][v] = accounts'.role[d][v]
    BY <1>1, <1>2 DEF CompanyInv, PlacesInv, SameRest
  <2> QED
    BY <2>1 DEF PlacesInv
<1>5. ASSUME NEW h \in Handlers PROVE HoldsCompanies(h)'
  <2>1. Asks[h] \in Users /\ HoldsCompanies(h)
    BY DEF DeletionConstants, CompanyInv
  <2>2. CASE handler[h].at \in {"locks", "erases"}
    <3>1. Asks[h] # u
      BY <1>2, <2>2 DEF Leaving
    <3>2. Of(Asks[h])' \subseteq Of(Asks[h]) /\ c \notin Of(Asks[h])
      BY <1>1, <1>2, <2>1, <3>1 DEF Of
    <3>3. \A d \in Of(Asks[h]), v \in Users : accounts'.role[d][v] = accounts.role[d][v]
      BY <1>1, <3>2 DEF Of
    <3> QED
      BY <1>1, <1>2, <2>1, <3>2, <3>3, HoldsKept
  <2>3. CASE handler[h].at \notin {"locks", "erases"}
    BY <1>2, <2>3 DEF HoldsCompanies
  <2> QED
    BY <2>2, <2>3
<1> QED
  BY <1>2, <1>3, <1>4, <1>5 DEF CompanyInv, Works

LEMMA CompaniesAccepted ==
    ASSUME DeletionConstants, ~LateJoins, accounts \in Accounts, CompanyInv,
           NEW u \in Users, NEW c \in Companies, Accepts(u, c)
    PROVE  CompanyInv'
<1>1. /\ SameRest /\ accounts'.open = accounts.open
      /\ accounts'.invited = accounts.invited \ {<<c, u>>}
      /\ \A d \in Companies, v \in Users :
            /\ accounts'.role[d][v] =
                  IF d = c /\ v = u /\ accounts.role[c][u] = "none" THEN "member"
                  ELSE accounts.role[d][v]
            /\ accounts'.place[d][v] =
                  IF d = c /\ v = u /\ accounts.place[c][u] = "none" THEN "member"
                  ELSE accounts.place[d][v]
  BY AcceptsColumns
<1>2. /\ u \in accounts.alive /\ ~Leaving(u) /\ ~Locked(c) /\ UNCHANGED <<startup, handler>>
      /\ c \in accounts.open
  BY DEF Accepts, MayJoin, OnlyAccounts, CompanyInv, PlacesInv
<1>3. CompanyKeepsAdmin'
  <2>1. ASSUME NEW d \in Companies,
               d \in accounts'.open \/ \E v \in Users : accounts'.role[d][v] # "none"
        PROVE  \E v \in Users : accounts'.role[d][v] = "admin"
    <3>1. d \in accounts.open \/ \E v \in Users : accounts.role[d][v] # "none"
      BY <1>1, <1>2, <2>1
    <3>2. PICK v \in Users : accounts.role[d][v] = "admin"
      BY <3>1 DEF CompanyInv, CompanyKeepsAdmin
    <3> QED
      BY <1>1, <3>2
  <2> QED
    BY <2>1 DEF CompanyKeepsAdmin
<1>4. PlacesInv'
  <2>1. ASSUME NEW d \in Companies, NEW v \in Users
        PROVE  /\ accounts'.role[d][v] # "none" => v \in accounts'.alive
               /\ <<d, v>> \in accounts'.invited => d \in accounts'.open
               /\ d \notin accounts'.open => accounts'.place[d][v] = "none"
               /\ d \in accounts'.open /\ v \notin Removals =>
                     accounts'.place[d][v] = accounts'.role[d][v]
    BY <1>1, <1>2 DEF CompanyInv, PlacesInv, SameRest
  <2> QED
    BY <2>1 DEF PlacesInv
<1>5. ASSUME NEW h \in Handlers PROVE HoldsCompanies(h)'
  <2>1. Asks[h] \in Users /\ HoldsCompanies(h)
    BY DEF DeletionConstants, CompanyInv
  <2>2. CASE handler[h].at \in {"locks", "erases"}
    <3>1. Asks[h] # u
      BY <1>2, <2>2 DEF Leaving
    <3>2. Of(Asks[h])' \subseteq Of(Asks[h])
      BY <1>1, <2>1, <3>1 DEF Of
    <3>3. handler[h].at = "erases" =>
             \A d \in Of(Asks[h]), v \in Users : accounts'.role[d][v] = accounts.role[d][v]
      BY <1>1, <1>2, <2>1, FreeCompany DEF Of
    <3> QED
      BY <1>1, <1>2, <2>1, <3>2, <3>3, HoldsKept
  <2>3. CASE handler[h].at \notin {"locks", "erases"}
    BY <1>2, <2>3 DEF HoldsCompanies
  <2> QED
    BY <2>2, <2>3
<1> QED
  BY <1>2, <1>3, <1>4, <1>5 DEF CompanyInv, Works

\* Invitations, removals from a workspace and the end of a company take nobody's role away.
LEMMA CompaniesManaged ==
    ASSUME DeletionConstants, accounts \in Accounts, CompanyInv,
           NEW u \in Users, NEW c \in Companies,
           Closes(u, c) \/ \E v \in Users : Invites(u, c, v) \/ RemovesMember(u, c, v)
    PROVE  CompanyInv'
<1>1. /\ SameRest /\ accounts'.role = accounts.role
      /\ accounts'.open \subseteq accounts.open /\ UNCHANGED <<startup, handler>>
  BY ClosesColumns, InvitesColumns, RemovesColumns
     DEF Closes, Invites, RemovesMember, OnlyAccounts, SameRoles
<1>2. ASSUME NEW d \in Companies, NEW v \in Users
      PROVE  /\ accounts'.role[d][v] # "none" => v \in accounts'.alive
             /\ <<d, v>> \in accounts'.invited => d \in accounts'.open
             /\ d \notin accounts'.open => accounts'.place[d][v] = "none"
             /\ d \in accounts'.open /\ v \notin Removals =>
                   accounts'.place[d][v] = accounts'.role[d][v]
  <2>1. CASE Closes(u, c)
    BY <2>1, ClosesColumns DEF CompanyInv, PlacesInv, SameRest
  <2>2. ASSUME NEW w \in Users, Invites(u, c, w)
        PROVE  /\ accounts'.invited = accounts.invited \cup {<<c, w>>} /\ c \in accounts.open
               /\ accounts'.open = accounts.open /\ accounts'.place = accounts.place
    BY <2>2, InvitesColumns DEF Invites, Manages, SameRoles
  <2>3. ASSUME NEW w \in Users, RemovesMember(u, c, w)
        PROVE  /\ accounts'.invited \subseteq accounts.invited /\ w \in Removals
               /\ accounts'.open = accounts.open
               /\ \A e \in Companies, x \in Users :
                     accounts'.place[e][x] = IF e = c /\ x = w THEN "none" ELSE accounts.place[e][x]
    <3>1. w \in Removals
      BY <2>3 DEF RemovesMember
    <3> QED
      BY <2>3, <3>1, RemovesColumns
  <2> QED
    BY <1>1, <2>1, <2>2, <2>3 DEF CompanyInv, PlacesInv, SameRest
<1>3. CompanyKeepsAdmin'
  BY <1>1 DEF CompanyInv, CompanyKeepsAdmin
<1>4. ASSUME NEW h \in Handlers PROVE HoldsCompanies(h)'
  BY <1>1, HoldsKept DEF CompanyInv, Of
<1> QED
  BY <1>1, <1>2, <1>3, <1>4 DEF CompanyInv, PlacesInv, Works

LEMMA CompaniesTransferred ==
    ASSUME DeletionConstants, accounts \in Accounts, CompanyInv,
           NEW u \in Users, NEW c \in Companies, NEW v \in Users, Transfers(u, c, v)
    PROVE  CompanyInv'
<1>1. /\ SameRest /\ u # v
      /\ accounts'.open = accounts.open /\ accounts'.invited = accounts.invited
      /\ \A d \in Companies, w \in Users :
            /\ accounts'.role[d][w] = IF d = c /\ w = u THEN "member"
                                      ELSE IF d = c /\ w = v THEN "admin"
                                      ELSE accounts.role[d][w]
            /\ accounts'.place[d][w] =
                  IF d = c /\ w = u THEN "member"
                  ELSE IF d = c /\ w = v /\ accounts.place[c][v] = "member" THEN "admin"
                  ELSE accounts.place[d][w]
  BY TransfersColumns
<1>2. /\ c \in accounts.open /\ accounts.role[c][u] = "admin" /\ accounts.role[c][v] = "member"
      /\ ~Locked(c) /\ UNCHANGED <<startup, handler>>
  BY DEF Transfers, Manages, MayLock, Of, OnlyAccounts
<1>3. CompanyKeepsAdmin'
  <2>1. ASSUME NEW d \in Companies,
               d \in accounts'.open \/ \E w \in Users : accounts'.role[d][w] # "none"
        PROVE  \E w \in Users : accounts'.role[d][w] = "admin"
    <3>1. CASE d = c
      BY <1>1, <3>1
    <3>2. CASE d # c
      BY <1>1, <2>1, <3>2 DEF CompanyInv, CompanyKeepsAdmin
    <3> QED
      BY <3>1, <3>2
  <2> QED
    BY <2>1 DEF CompanyKeepsAdmin
<1>4. PlacesInv'
  <2>1. ASSUME NEW d \in Companies, NEW w \in Users
        PROVE  /\ accounts'.role[d][w] # "none" => w \in accounts'.alive
               /\ <<d, w>> \in accounts'.invited => d \in accounts'.open
               /\ d \notin accounts'.open => accounts'.place[d][w] = "none"
               /\ d \in accounts'.open /\ w \notin Removals =>
                     accounts'.place[d][w] = accounts'.role[d][w]
    BY <1>1, <1>2 DEF CompanyInv, PlacesInv, SameRest
  <2> QED
    BY <2>1 DEF PlacesInv
<1>5. ASSUME NEW h \in Handlers PROVE HoldsCompanies(h)'
  <2>1. Asks[h] \in Users /\ HoldsCompanies(h)
    BY DEF DeletionConstants, CompanyInv
  <2>2. Of(Asks[h])' \subseteq Of(Asks[h])
    BY <1>1, <1>2, <2>1 DEF Of
  <2>3. handler[h].at = "erases" =>
           \A d \in Of(Asks[h]), w \in Users : accounts'.role[d][w] = accounts.role[d][w]
    BY <1>1, <1>2, <2>1, FreeCompany DEF Of
  <2> QED
    BY <1>1, <1>2, <2>1, <2>2, <2>3, HoldsKept
<1> QED
  BY <1>2, <1>3, <1>4, <1>5 DEF CompanyInv, Works

\* A deletion takes the roles of an account which no company needs, and which no other
\* deletion that erases has to do with.
LEMMA CompaniesErased ==
    ASSUME DeletionConstants, accounts \in Accounts, handler \in [Handlers -> Handler],
           CompanyInv, NEW h \in Handlers, Erases(h)
    PROVE  CompanyInv'
<1> DEFINE a == Asks[h]
<1>1. /\ a \in Users /\ handler[h].at = "erases"
      /\ accounts'.alive = accounts.alive \ {a} /\ accounts'.open = accounts.open
      /\ accounts'.invited \subseteq accounts.invited
      /\ \A d \in Companies, v \in Users :
            /\ accounts'.role[d][v] = IF v = a THEN "none" ELSE accounts.role[d][v]
            /\ accounts'.place[d][v] = IF v = a THEN "none" ELSE accounts.place[d][v]
  BY ErasedColumns DEF Erases, DeletionConstants
<1>2. /\ UNCHANGED startup
      /\ \A i \in Handlers :
            handler'[i].at \in {"locks", "erases"} => i # h /\ handler'[i] = handler[i]
  BY DEF Erases, Handler
<1>3. ~SoleOwner(a)
  BY <1>1 DEF CompanyInv, HoldsCompanies
<1>4. CompanyKeepsAdmin'
  <2>1. ASSUME NEW d \in Companies,
               d \in accounts'.open \/ \E v \in Users : accounts'.role[d][v] # "none"
        PROVE  \E v \in Users : accounts'.role[d][v] = "admin"
    <3>1. d \in accounts.open \/ \E v \in Users \ {a} : accounts.role[d][v] # "none"
      BY <1>1, <2>1
    <3>2. PICK v \in Users : accounts.role[d][v] = "admin"
      BY <3>1 DEF CompanyInv, CompanyKeepsAdmin
    <3>3. CASE v = a
      <4>1. PICK w \in Users \ {a} : accounts.role[d][w] = "admin"
        BY <1>3, <3>1, <3>2, <3>3 DEF SoleOwner
      <4> QED
        BY <1>1, <4>1
    <3>4. CASE v # a
      BY <1>1, <3>2, <3>4
    <3> QED
      BY <3>3, <3>4
  <2> QED
    BY <2>1 DEF CompanyKeepsAdmin
<1>5. PlacesInv'
  <2>1. ASSUME NEW d \in Companies, NEW v \in Users
        PROVE  /\ accounts'.role[d][v] # "none" => v \in accounts'.alive
               /\ <<d, v>> \in accounts'.invited => d \in accounts'.open
               /\ d \notin accounts'.open => accounts'.place[d][v] = "none"
               /\ d \in accounts'.open /\ v \notin Removals =>
                     accounts'.place[d][v] = accounts'.role[d][v]
    BY <1>1 DEF CompanyInv, PlacesInv
  <2> QED
    BY <2>1 DEF PlacesInv
<1>6. ASSUME NEW i \in Handlers PROVE HoldsCompanies(i)'
  <2>1. Asks[i] \in Users /\ HoldsCompanies(i) /\ HoldsCompanies(h)
    BY DEF DeletionConstants, CompanyInv
  <2>2. CASE handler'[i].at \in {"locks", "erases"}
    <3>1. i # h /\ handler'[i] = handler[i]
      BY <1>2, <2>2
    <3>2. Of(Asks[i])' \subseteq Of(Asks[i])
      BY <1>1, <2>1 DEF Of
    <3>3. ASSUME handler[i].at = "erases" PROVE ~SoleOwner(Asks[i])'
      <4>1. CASE Asks[i] = a
        BY <1>1, <4>1 DEF SoleOwner
      <4>2. ASSUME Asks[i] # a, NEW c \in Companies, accounts'.role[c][Asks[i]] = "admin"
            PROVE  \A v \in Users : accounts'.role[c][v] = accounts.role[c][v]
        <5>1. c \in handler[i].frontier
          BY <1>1, <2>1, <3>3, <4>2 DEF HoldsCompanies, Of
        <5>2. c \notin handler[h].frontier
          BY <1>1, <2>1, <3>1, <3>3, <5>1 DEF HoldsCompanies
        <5>3. accounts.role[c][a] = "none"
          BY <1>1, <2>1, <5>2 DEF HoldsCompanies, Of
        <5> QED
          BY <1>1, <5>3
      <4>3. CASE Asks[i] # a
        <5>1. ASSUME SoleOwner(Asks[i])' PROVE SoleOwner(Asks[i])
          <6>1. PICK c \in Companies :
                   /\ accounts'.role[c][Asks[i]] = "admin"
                   /\ \A v \in Users \ {Asks[i]} : accounts'.role[c][v] # "admin"
                   /\ \/ c \in accounts'.open
                      \/ \E v \in Users \ {Asks[i]} : accounts'.role[c][v] # "none"
            BY <5>1 DEF SoleOwner
          <6>2. \A v \in Users : accounts'.role[c][v] = accounts.role[c][v]
            BY <4>2, <4>3, <6>1
          <6> QED
            BY <1>1, <2>1, <6>1, <6>2 DEF SoleOwner
        <5> QED
          BY <2>1, <3>3, <5>1 DEF HoldsCompanies
      <4> QED
        BY <4>1, <4>3
    <3>4. \A j \in Handlers \ {i} : handler'[i].at = "erases" /\ handler'[j].at = "erases" =>
             handler'[j].frontier \cap handler'[i].frontier = {}
      BY <1>2, <2>1, <3>1 DEF HoldsCompanies
    <3> QED
      BY <2>1, <3>1, <3>2, <3>3, <3>4 DEF HoldsCompanies
  <2>3. CASE handler'[i].at \notin {"locks", "erases"}
    BY <2>3 DEF HoldsCompanies
  <2> QED
    BY <2>2, <2>3
<1> QED
  BY <1>2, <1>4, <1>5, <1>6 DEF CompanyInv, Works

\* The steps of a request before it erases.
LEMMA CompaniesRequested ==
    ASSUME DeletionConstants, handler \in [Handlers -> Handler], CompanyInv,
           NEW h \in Handlers, Begins(h) \/ Admits(h) \/ Refuses(h) \/ Aborts(h)
    PROVE  CompanyInv'
<1>1. UNCHANGED <<accounts, startup>>
  BY DEF Begins, Admits, Refuses, Aborts
<1>2. \A i \in Handlers \ {h} : handler'[i] = handler[i]
  BY DEF Begins, Admits, Refuses, Aborts
<1>3. \/ handler'[h].at \in {"idle", "blocks"}
      \/ handler'[h].at = "locks" /\ handler'[h].frontier = Of(Asks[h])
      \/ /\ handler[h].at = "locks" /\ handler'[h].at = "erases"
         /\ handler'[h].frontier = handler[h].frontier /\ Holds(h) /\ ~SoleOwner(Asks[h])
  <2>1. CASE Begins(h)
    <3> DEFINE begun == [NoRequest EXCEPT !.at = "locks", !.frontier = Of(Asks[h])]
    <3>1. begun.at = "locks" /\ begun.frontier = Of(Asks[h])
      BY DEF NoRequest
    <3>2. handler' = [handler EXCEPT ![h] = begun]
      BY <2>1 DEF Begins
    <3> HIDE DEF begun
    <3> QED
      BY <3>1, <3>2
  <2>2. CASE Admits(h)
    BY <2>2 DEF Admits, Handler
  <2>3. CASE Refuses(h) \/ Aborts(h)
    BY <2>3 DEF Refuses, Aborts, NoRequest, Handler
  <2> QED
    BY <2>1, <2>2, <2>3
<1>4. \A i \in Handlers : Of(Asks[i])' = Of(Asks[i]) /\ (SoleOwner(Asks[i])' <=> SoleOwner(Asks[i]))
  BY <1>1 DEF Of, SoleOwner
<1>5. ASSUME handler'[h].at = "erases", NEW j \in Handlers \ {h}, handler'[j].at = "erases"
      PROVE  handler'[j].frontier \cap handler'[h].frontier = {}
  <2>1. /\ handler'[h].frontier = handler[h].frontier /\ Holds(h)
        /\ handler'[j] = handler[j] /\ handler[j].at = "erases"
    BY <1>2, <1>3, <1>5
  <2>2. handler[h].frontier \subseteq Companies
    BY DEF Handler
  <2> QED
    BY <2>1, <2>2 DEF Holds, Locked
<1>6. HoldsCompanies(h)'
  <2>1. handler'[h].at \in {"locks", "erases"} => Of(Asks[h])' \subseteq handler'[h].frontier
    BY <1>3, <1>4 DEF CompanyInv, HoldsCompanies
  <2>2. handler'[h].at = "erases" => ~SoleOwner(Asks[h])'
    BY <1>3, <1>4
  <2> QED
    BY <1>5, <2>1, <2>2 DEF HoldsCompanies
<1>7. ASSUME NEW i \in Handlers \ {h} PROVE HoldsCompanies(i)'
  <2>1. HoldsCompanies(i) /\ handler'[i] = handler[i]
    BY <1>2 DEF CompanyInv
  <2>2. ASSUME handler'[i].at = "erases", NEW j \in Handlers \ {i}, handler'[j].at = "erases"
        PROVE  handler'[j].frontier \cap handler'[i].frontier = {}
    <3>1. CASE j = h
      BY <1>5, <2>2, <3>1
    <3>2. CASE j # h
      BY <1>2, <2>1, <2>2, <3>2 DEF HoldsCompanies
    <3> QED
      BY <3>1, <3>2
  <2> QED
    BY <1>4, <2>1, <2>2 DEF HoldsCompanies
<1> QED
  BY <1>1, <1>6, <1>7 DEF CompanyInv, CompanyKeepsAdmin, PlacesInv, Works

\* A step which leaves every role, place and request for a company as it was.
LEMMA CompaniesAside ==
    ASSUME CompanyInv, SameRoles, accounts'.alive = accounts.alive, UNCHANGED startup,
           accounts'.open = accounts.open, accounts'.invited = accounts.invited,
           \A i \in Handlers :
              handler'[i].at \in {"locks", "erases"} => handler'[i] = handler[i]
    PROVE  CompanyInv'
<1>1. \A i \in Handlers : Of(Asks[i])' = Of(Asks[i]) /\ (SoleOwner(Asks[i])' <=> SoleOwner(Asks[i]))
  BY DEF Of, SoleOwner, SameRoles
<1>2. \A i \in Handlers : HoldsCompanies(i)'
  BY <1>1 DEF CompanyInv, HoldsCompanies
<1>3. CompanyKeepsAdmin' /\ PlacesInv'
  BY DEF CompanyInv, CompanyKeepsAdmin, PlacesInv, SameRoles
<1> QED
  BY <1>2, <1>3 DEF CompanyInv, Works

\* Until the service restarts every step keeps the companies.
LEMMA CompaniesStep ==
    ASSUME DeletionConstants, DeletionInv, CompaniesInv, [DeletionNext]_deletionVars
    PROVE  CompaniesInv'
<1>1. accounts \in Accounts /\ handler \in [Handlers -> Handler] /\ restarts \in Nat
  BY DEF DeletionInv, DeletionTypeOK, DeletionConstants
<1>2. SUFFICES ASSUME restarts' = 0, ~LateJoins PROVE CompanyInv'
  BY DEF CompaniesInv
<1>3. restarts = 0 /\ CompanyInv /\ Works
  <2>1. restarts' \in {restarts, restarts + 1}
    <3>1. CASE Company
      BY <1>1, <3>1, CompanyColumns
    <3>2. CASE ~Company
      BY <3>2 DEF DeletionNext, deletionVars, Deletion, Replay, Pairs, Begins, Admits, Refuses,
                  Blocks, Erases, Aborts, Wipes, TakesBackup, Restarts, RestoresAccounts, ErasesAgain,
                  ReplayWipes, StartsService
    <3> QED
      BY <3>1, <3>2
  <2>2. restarts = 0
    BY <1>1, <1>2, <2>1
  <2> QED
    BY <1>2, <2>2 DEF CompaniesInv, CompanyInv
<1>4. CASE UNCHANGED deletionVars
  BY <1>3, <1>4, CompaniesAside DEF deletionVars, SameRoles
<1>5. CASE Company
  BY <1>1, <1>2, <1>3, <1>5, CompaniesCreated, CompaniesAccepted, CompaniesManaged,
     CompaniesTransferred DEF Company
<1>6. ASSUME NEW u \in Users, Pairs(u) PROVE CompanyInv'
  <2>1. /\ SameRest /\ SameRoles /\ UNCHANGED <<handler, startup>>
        /\ accounts'.open = accounts.open /\ accounts'.invited = accounts.invited
    BY <1>1, <1>6, PairsColumns DEF Pairs
  <2> QED
    BY <1>3, <2>1, CompaniesAside DEF SameRest
<1>7. ASSUME NEW h \in Handlers,
             \/ Begins(h) \/ Admits(h) \/ Refuses(h) \/ Blocks(h)
             \/ Erases(h) \/ Aborts(h) \/ Wipes(h)
      PROVE  CompanyInv'
  <2>1. CASE Begins(h) \/ Admits(h) \/ Refuses(h) \/ Aborts(h)
    BY <1>1, <1>3, <2>1, CompaniesRequested
  <2>2. CASE Erases(h)
    BY <1>1, <1>3, <2>2, CompaniesErased
  <2>3. CASE Blocks(h) \/ Wipes(h)
    <3>1. /\ SameRoles /\ accounts'.alive = accounts.alive /\ UNCHANGED startup
          /\ accounts'.open = accounts.open /\ accounts'.invited = accounts.invited
      <4>1. CASE Blocks(h)
        BY <1>1, <4>1, BlocksColumns DEF Blocks, DeletionConstants
      <4>2. CASE Wipes(h)
        BY <1>1, <4>2, LedgerWiped DEF Wipes, DeletionInv
      <4> QED
        BY <2>3, <4>1, <4>2
    <3>2. \A i \in Handlers :
             handler'[i].at \in {"locks", "erases"} => handler'[i] = handler[i]
      BY <1>1, <2>3 DEF Blocks, Wipes, NoRequest
    <3> QED
      BY <1>3, <3>1, <3>2, CompaniesAside
  <2> QED
    BY <1>7, <2>1, <2>2, <2>3
<1>8. CASE TakesBackup
  <2>1. UNCHANGED <<accounts, handler, startup>>
    BY <1>8 DEF TakesBackup
  <2> QED
    BY <1>3, <2>1, CompaniesAside DEF SameRoles
<1>9. ~(Restarts \/ RestoresAccounts \/ Replay \/ ReplayWipes \/ StartsService)
  BY <1>1, <1>2, <1>3 DEF Restarts, RestoresAccounts, Replay, ErasesAgain, ReplayWipes,
                          StartsService, Works
<1> QED
  BY <1>4, <1>5, <1>6, <1>7, <1>8, <1>9 DEF DeletionNext, Deletion

\* Everything that the deletion of accounts keeps.
DeletionsInv == DeletionInv /\ (OneRequestEach => ReceiptInv) /\ CompaniesInv

LEMMA DeletionsImplied ==
    ASSUME DeletionsInv
    PROVE  DeletionsAreSafe
<1>1. DeletionTypeOK /\ DeletedStayDeleted /\ ErasedIsTrue
  BY DEF DeletionsInv, DeletionInv, LedgerInv, DeletedStayDeleted, ErasedIsTrue
<1>2. OneRequestEach => ReceiptsStoreExpiry
  BY DEF DeletionsInv, ReceiptInv, ReceiptsStoreExpiry
<1>3. ASSUME CompanyInv, \A c \in Companies, u \in Removals : accounts.role[c][u] # "admin"
      PROVE  CompanyIsManaged
  <2>1. ASSUME NEW c \in accounts.open
        PROVE  \E u \in Users : accounts.role[c][u] = "admin" /\ Manages(u, c)
    <3>1. c \in Companies
      BY <1>1 DEF DeletionTypeOK, Accounts
    <3>2. PICK u \in Users : accounts.role[c][u] = "admin"
      BY <1>3, <3>1 DEF CompanyInv, CompanyKeepsAdmin
    <3>3. u \in accounts.alive /\ u \notin Removals /\ accounts.place[c][u] = "admin"
      BY <1>3, <3>1, <3>2 DEF CompanyInv, PlacesInv
    <3> QED
      BY <3>2, <3>3 DEF Manages
  <2> QED
    BY <2>1 DEF CompanyIsManaged
<1> QED
  BY <1>1, <1>2, <1>3 DEF DeletionsInv, CompaniesInv, CompanyInv, DeletionsAreSafe

\* The deletion of accounts (server/accounts/deletion.ts with its journal, team.ts and
\* directory.ts): whatever people, companies, requests, backups and restarts there are, what
\* was erased is in the journal and out of every account the replay has passed, a ledger and
\* its copies tell the truth of the providers, and a deletion which erases holds every company
\* of its account, which none of them needs.
THEOREM DeletionsInvInductive ==
    ASSUME DeletionConstants
    PROVE  DeletionSpec => []DeletionsInv
<1>1. DeletionInit => DeletionsInv
  BY DeletionInvInitially, ReceiptsInitially, CompaniesInitially DEF DeletionsInv, CompaniesInv
<1>2. DeletionsInv /\ [DeletionNext]_deletionVars => DeletionsInv'
  BY DeletionInvStep, ReceiptStep, CompaniesStep DEF DeletionsInv, OneRequestEach
<1> QED
  BY <1>1, <1>2, PTL DEF DeletionSpec

\* Nobody whose erasure was committed is back while the service runs, a surface is called
\* erased only when its provider has nothing, every receipt stands where an account has one
\* request, and until a restart no deletion leaves a company without an administrator, or one
\* with a workspace without somebody who can manage it (requestAccountDeletion,
\* applyAccountDeletionTombstones, markLedgerErased, isSoleOrganizationOwner).
THEOREM DeletionsSafe ==
    ASSUME DeletionConstants
    PROVE  DeletionSpec => []DeletionsAreSafe
<1>1. DeletionsInv => DeletionsAreSafe
  BY DeletionsImplied
<1> QED
  BY <1>1, DeletionsInvInductive, PTL
=============================================================================
