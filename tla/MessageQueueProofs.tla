-------------------------- MODULE MessageQueueProofs --------------------------
(***************************************************************************)
(* Proofs about MessageQueue for any number of rows, tokens and contents.  *)
(* The invariant is stated of an arbitrary array of rows, because a claim  *)
(* first ages the rows and then hands one of them out.                     *)
(***************************************************************************)
EXTENDS MessageQueue, TLAPS

RowOK(r, i) ==
    /\ r[i].token # None <=> r[i].status = "dispatching"
    /\ r[i].status = "dispatching" => r[i].until # "none"
    /\ r[i].status = "absent" => r[i] = AbsentRow
    /\ r[i].status = "absent" => \A j \in Slots : i < j => r[j].status = "absent"
    /\ Lane = "inbox" /\ r[i].status \in {"dispatching", "uncertain"}
          => r[i].native # "none"

\* A message that was handed out, and may still be, stands behind settled ones.
InOrder(r, i) ==
    /\ r[i].status \in {"dispatching", "uncertain"}
          => \A j \in Slots : j < i => Settled(r[j])
    /\ r[i].status = "dispatching"
          => \A j \in Slots : j # i => r[j].status # "dispatching"

QInv(r) == /\ r \in [Slots -> Row]
           /\ \A i \in Slots : RowOK(r, i) /\ InOrder(r, i)

LEMMA SlotsAreNumbers == \A i \in Slots : i \in Nat
BY RowsAssumption DEF Slots

LEMMA QInvIsQueueInv ==
    QueueInv <=> QInv(rows) /\ active \in BOOLEAN /\ held \subseteq Lease
BY DEF QueueInv, QueueTypeOK, QInv, RowOK, InOrder, RowInv, HandedInOrder

LEMMA QInvIsQueueInvPrime ==
    QueueInv' <=> QInv(rows') /\ active' \in BOOLEAN /\ held' \subseteq Lease
BY DEF QueueInv, QueueTypeOK, QInv, RowOK, InOrder, RowInv, HandedInOrder

\* One row changes: it keeps the order if it is not handed out, or stands
\* behind settled rows, and if it does not unsettle itself.
LEMMA OneRow ==
    ASSUME NEW r, QInv(r), NEW i \in Slots, NEW row \in Row,
           row.token # None <=> row.status = "dispatching",
           row.status = "dispatching" => row.until # "none",
           row.status # "absent",
           \A j \in Slots : j < i => r[j].status # "absent",
           Lane = "inbox" /\ row.status \in {"dispatching", "uncertain"}
              => row.native # "none",
           row.status \in {"dispatching", "uncertain"}
              => \A j \in Slots : j < i => Settled(r[j]),
           row.status = "dispatching"
              => \A j \in Slots : j # i => r[j].status # "dispatching",
           Settled(r[i]) => Settled(row)
    PROVE  QInv([r EXCEPT ![i] = row])
<1> DEFINE s == [r EXCEPT ![i] = row]
<1>1. s \in [Slots -> Row] /\ s[i] = row /\ \A j \in Slots : j # i => s[j] = r[j]
  BY DEF QInv
<1>2. \A j \in Slots : Settled(r[j]) => Settled(s[j])
  BY <1>1
<1>3. \A j \in Slots : r[j].status # "absent" => s[j].status # "absent"
  BY <1>1
<1> HIDE DEF s
<1>4. ASSUME NEW j \in Slots PROVE RowOK(s, j)
  <2>1. CASE j = i
    BY <2>1, <1>1 DEF RowOK
  <2>2. CASE j # i
    <3>1. s[j] = r[j] /\ RowOK(r, j)
      BY <2>2, <1>1 DEF QInv
    <3>2. ASSUME r[j].status = "absent", NEW k \in Slots, j < k PROVE s[k].status = "absent"
      <4>1. k # i
        BY <3>2
      <4> QED BY <4>1, <3>1, <3>2, <1>1 DEF RowOK
    <3> QED BY <3>1, <3>2 DEF RowOK
  <2> QED BY <2>1, <2>2
<1>5. ASSUME NEW j \in Slots PROVE InOrder(s, j)
  <2>1. CASE j = i
    BY <2>1, <1>1, <1>2, SlotsAreNumbers DEF InOrder
  <2>2. CASE j # i
    <3>1. s[j] = r[j] /\ InOrder(r, j)
      BY <2>2, <1>1 DEF QInv
    <3>2. s[j].status \in {"dispatching", "uncertain"}
             => \A k \in Slots : k < j => Settled(s[k])
      BY <3>1, <1>2 DEF InOrder
    <3>3. s[j].status = "dispatching"
             => \A k \in Slots : k # j => s[k].status # "dispatching"
      BY <3>1, <1>1, <2>2 DEF InOrder
    <3> QED BY <3>2, <3>3 DEF InOrder
  <2> QED BY <2>1, <2>2
<1> QED BY <1>1, <1>4, <1>5 DEF QInv, s

\* Rows that are aged or cancelled keep the order.
LEMMA ManyRows ==
    ASSUME NEW r, QInv(r), NEW s \in [Slots -> Row],
           \A i \in Slots :
              \/ s[i] = r[i]
              \/ /\ r[i].status = "dispatching" /\ s[i].status = "uncertain"
                 /\ s[i].token = None /\ s[i].native = r[i].native
              \/ /\ r[i].status = "queued" /\ s[i].status = "cancelled"
                 /\ s[i].token = r[i].token
    PROVE  QInv(s)
<1>1. \A i \in Slots : Settled(r[i]) => Settled(s[i])
  BY DEF Settled
<1>2. \A i \in Slots : s[i].status = "absent" <=> r[i].status = "absent"
  OBVIOUS
<1>3. \A i \in Slots : s[i].status = "dispatching" => s[i] = r[i]
  OBVIOUS
<1>4. \A i \in Slots : s[i].status \in {"dispatching", "uncertain"}
                          => r[i].status \in {"dispatching", "uncertain"}
  OBVIOUS
<1>5. ASSUME NEW i \in Slots PROVE RowOK(s, i)
  <2>1. RowOK(r, i)
    BY DEF QInv
  <2>2. s[i].status = "absent" => \A j \in Slots : i < j => s[j].status = "absent"
    BY <2>1, <1>2 DEF RowOK
  <2>3. s[i].token # None <=> s[i].status = "dispatching"
    BY <2>1 DEF RowOK
  <2>4. /\ s[i].status = "dispatching" => s[i].until # "none"
        /\ Lane = "inbox" /\ s[i].status \in {"dispatching", "uncertain"} => s[i].native # "none"
    BY <2>1 DEF RowOK
  <2>5. s[i].status = "absent" => s[i] = AbsentRow
    <3>1. s[i].status = "absent" => s[i] = r[i]
      OBVIOUS
    <3> QED BY <2>1, <3>1 DEF RowOK
  <2> QED BY <2>2, <2>3, <2>4, <2>5 DEF RowOK
<1>6. ASSUME NEW i \in Slots PROVE InOrder(s, i)
  <2>1. InOrder(r, i)
    BY DEF QInv
  <2>2. \A j \in Slots : s[j].status = "dispatching" => r[j].status = "dispatching"
    BY <1>3
  <2> QED BY <2>1, <2>2, <1>1, <1>3, <1>4 DEF InOrder
<1> QED BY <1>5, <1>6 DEF QInv

LEMMA AgedRow ==
    ASSUME QInv(rows), NEW i \in Slots
    PROVE  \/ Aged[i] = rows[i]
           \/ /\ rows[i].status = "dispatching" /\ Aged[i].status = "uncertain"
              /\ Aged[i].token = None /\ Aged[i].native = rows[i].native
BY DEF Aged, Lapsed, QInv, Row

LEMMA AgedRows ==
    ASSUME QInv(rows)
    PROVE  QInv(Aged)
<1>1. Aged \in [Slots -> Row]
  BY DEF Aged, QInv, Row, Status, Clock
<1> QED BY <1>1, AgedRow, ManyRows

-----------------------------------------------------------------------------
(***************************************************************************)
(* Every operation keeps the invariant.                                    *)
(***************************************************************************)
\* A row that is not handed out, and that was neither absent nor settled,
\* or that keeps its being settled.
LEMMA RowStep ==
    ASSUME QueueInv, NEW i \in Slots, NEW row \in Row, Only(i, row),
           rows[i].status # "absent", row.status # "absent",
           row.token # None <=> row.status = "dispatching",
           row.status = "dispatching" => row.until # "none",
           Lane = "inbox" /\ row.status \in {"dispatching", "uncertain"}
              => row.native # "none",
           row.status = "dispatching" => rows[i].status = "dispatching",
           row.status = "uncertain" => rows[i].status \in {"dispatching", "uncertain"},
           Settled(rows[i]) => Settled(row)
    PROVE  QueueInv'
<1>1. QInv(rows) /\ active \in BOOLEAN /\ held \subseteq Lease
  BY QInvIsQueueInv
<1>2. \A j \in Slots : j < i => rows[j].status # "absent"
  BY <1>1 DEF QInv, RowOK
<1>3. /\ row.status \in {"dispatching", "uncertain"}
            => \A j \in Slots : j < i => Settled(rows[j])
      /\ row.status = "dispatching"
            => \A j \in Slots : j # i => rows[j].status # "dispatching"
  BY <1>1 DEF QInv, InOrder
<1>4. QInv([rows EXCEPT ![i] = row])
  BY <1>1, <1>2, <1>3, OneRow
<1>5. rows' = [rows EXCEPT ![i] = row] /\ active' = active /\ held' = held
  BY DEF Only
<1> QED BY <1>1, <1>4, <1>5, QInvIsQueueInvPrime

LEMMA RowTyped == QueueInv => \A i \in Slots : rows[i] \in Row
BY DEF QueueInv, QueueTypeOK

LEMMA InsertKeeps ==
    ASSUME QueueInv, NEW i \in Slots, Insert(i)
    PROVE  QueueInv'
<1> DEFINE row == [AbsentRow EXCEPT !.status = "queued"]
<1>1. QInv(rows) /\ active \in BOOLEAN /\ held \subseteq Lease
  BY QInvIsQueueInv
<1>2. row \in Row /\ row.status = "queued" /\ row.token = None
  BY DEF AbsentRow, Row, Status, Clock
<1>3. rows[i].status = "absent" /\ \A j \in Slots : j < i => rows[j].status # "absent"
  BY DEF Insert
<1>4. QInv([rows EXCEPT ![i] = row])
  <2> HIDE DEF row
  <2> QED BY <1>1, <1>2, <1>3, OneRow DEF Settled
<1>5. rows' = [rows EXCEPT ![i] = row] /\ active' = active /\ held' = held
  BY DEF Insert, Only
<1> QED BY <1>1, <1>4, <1>5, QInvIsQueueInvPrime

LEMMA HandedRow ==
    ASSUME NEW row \in Row, NEW t \in Tokens
    PROVE  /\ Handed(row, t) \in Row
           /\ Handed(row, t).status = "dispatching"
           /\ Handed(row, t).token = t
           /\ Handed(row, t).until = "future"
           /\ Lane = "inbox" => Handed(row, t).native # "none"
BY DEF Handed, Row, Status, Clock

LEMMA ClaimKeeps ==
    ASSUME QueueInv, NEW i \in Slots, NEW t \in Tokens, Claim(i, t)
    PROVE  QueueInv'
<1>1. QInv(Aged) /\ active \in BOOLEAN /\ held \subseteq Lease
  BY QInvIsQueueInv, AgedRows
<1>2. /\ \A j \in Slots : ~Blocks(Aged[j])
      /\ Claimable(Aged[i])
      /\ \A j \in Slots : j < i => ~Claimable(Aged[j])
      /\ rows' = [Aged EXCEPT ![i] = Handed(Aged[i], t)]
      /\ held' = held \cup {[slot |-> i, token |-> t]}
      /\ active' = active
  <2>1. [Aged EXCEPT ![i] = Handed(@, t)] = [Aged EXCEPT ![i] = Handed(Aged[i], t)]
    BY <1>1 DEF QInv
  <2> QED BY <2>1 DEF Claim
<1>3. Aged[i] \in Row
  BY <1>1 DEF QInv
<1> DEFINE row == Handed(Aged[i], t)
<1>4. /\ row \in Row /\ row.status = "dispatching" /\ row.token = t
      /\ row.until = "future"
      /\ Lane = "inbox" => row.native # "none"
  BY <1>3, HandedRow
<1>5. t # None
  BY NoneAssumption
<1>6. \A j \in Slots : Aged[j].status # "dispatching"
  BY <1>2 DEF Blocks
<1>7. Aged[i].status \in {"queued", "uncertain"}
  BY <1>2 DEF Claimable
<1>8. \A j \in Slots : j < i => Aged[j].status # "absent"
  BY <1>1, <1>7 DEF QInv, RowOK
<1>9. \A j \in Slots : j < i => Settled(Aged[j])
  <2> SUFFICES ASSUME NEW j \in Slots, j < i PROVE Settled(Aged[j])
    OBVIOUS
  <2>1. Aged[j].status \in Status
    BY <1>1 DEF QInv, Row
  <2>2. Aged[j].status \notin {"absent", "dispatching", "queued"}
    BY <1>2, <1>6, <1>8 DEF Claimable
  <2>3. Aged[j].status # "uncertain"
    BY <1>2 DEF Blocks, Claimable
  <2> QED BY <2>1, <2>2, <2>3 DEF Status, Settled
<1>10. QInv([Aged EXCEPT ![i] = row])
  <2> HIDE DEF row
  <2>1. ~Settled(Aged[i])
    BY <1>7 DEF Settled
  <2>2. row.token # None /\ row.status = "dispatching" /\ row.until # "none"
    BY <1>4, <1>5
  <2>3. Lane = "inbox" /\ row.status \in {"dispatching", "uncertain"} => row.native # "none"
    BY <1>4, <1>5
  <2> QED BY <1>1, <1>4, <1>6, <1>8, <1>9, <2>1, <2>2, <2>3, OneRow
<1>11. held' \subseteq Lease
  BY <1>1, <1>2 DEF Lease
<1> QED BY <1>1, <1>2, <1>10, <1>11, QInvIsQueueInvPrime

LEMMA ClaimNothingKeeps ==
    ASSUME QueueInv, ClaimNothing
    PROVE  QueueInv'
<1>1. QInv(rows) /\ QInv(Aged) /\ active \in BOOLEAN /\ held \subseteq Lease
  BY QInvIsQueueInv, AgedRows
<1>2. active' = active /\ held' = held
  BY DEF ClaimNothing
<1>3. CASE active \/ Lane = "inbox"
  BY <1>1, <1>2, <1>3, QInvIsQueueInvPrime DEF ClaimNothing
<1>4. CASE ~(active \/ Lane = "inbox")
  <2>1. rows' = [i \in Slots |-> IF rows[i].status = "queued"
                                 THEN [rows[i] EXCEPT !.status = "cancelled"]
                                 ELSE Aged[i]]
    BY <1>4 DEF ClaimNothing
  <2>2. rows' \in [Slots -> Row]
    <3>1. ASSUME NEW i \in Slots PROVE rows'[i] \in Row
      <4>1. rows[i] \in Row /\ Aged[i] \in Row
        BY <1>1 DEF QInv
      <4>2. [rows[i] EXCEPT !.status = "cancelled"] \in Row
        BY <4>1 DEF Row, Status
      <4> QED BY <2>1, <4>1, <4>2
    <3> QED BY <2>1, <3>1
  <2>3. \A i \in Slots :
           \/ rows'[i] = rows[i]
           \/ /\ rows[i].status = "dispatching" /\ rows'[i].status = "uncertain"
              /\ rows'[i].token = None /\ rows'[i].native = rows[i].native
           \/ /\ rows[i].status = "queued" /\ rows'[i].status = "cancelled"
              /\ rows'[i].token = rows[i].token
    <3> SUFFICES ASSUME NEW i \in Slots
                 PROVE  \/ rows'[i] = rows[i]
                        \/ /\ rows[i].status = "dispatching" /\ rows'[i].status = "uncertain"
                           /\ rows'[i].token = None /\ rows'[i].native = rows[i].native
                        \/ /\ rows[i].status = "queued" /\ rows'[i].status = "cancelled"
                           /\ rows'[i].token = rows[i].token
      OBVIOUS
    <3>1. rows[i] \in Row
      BY <1>1 DEF QInv
    <3>2. CASE rows[i].status = "queued"
      <4>1. rows'[i] = [rows[i] EXCEPT !.status = "cancelled"]
        BY <2>1, <3>2
      <4> QED BY <4>1, <3>1, <3>2 DEF Row
    <3>3. CASE rows[i].status # "queued"
      <4>1. rows'[i] = Aged[i]
        BY <2>1, <3>3
      <4> QED BY <4>1, <1>1, AgedRow
    <3> QED BY <3>2, <3>3
  <2>4. QInv(rows')
    BY <1>1, <2>2, <2>3, ManyRows
  <2> QED BY <1>1, <1>2, <2>4, QInvIsQueueInvPrime
<1> QED BY <1>3, <1>4

LEMMA EndKeeps ==
    ASSUME QueueInv, NEW i \in Slots, NEW t \in Tokens,
           NEW status \in {"done", "failed", "uncertain"}, End(i, t, status)
    PROVE  QueueInv'
<1> DEFINE row == Ends(rows[i], status)
<1>1. rows[i] \in Row
  BY RowTyped
<1>2. row \in Row /\ row.status = status /\ row.token = None /\ row.native = rows[i].native
  BY <1>1 DEF Ends, Row, Status, Clock
<1>3. rows[i].status = "dispatching" /\ Only(i, row)
  BY DEF End, LeaseLive
<1>4. Lane = "inbox" => rows[i].native # "none"
  BY <1>3 DEF QueueInv, RowInv
<1> HIDE DEF row
<1> QED BY <1>2, <1>3, <1>4, RowStep DEF Settled

LEMMA ScheduleRetryKeeps ==
    ASSUME QueueInv, NEW i \in Slots, NEW t \in Tokens, ScheduleRetry(i, t)
    PROVE  QueueInv'
<1> DEFINE row == [rows[i] EXCEPT !.status = "queued", !.token = None, !.until = "future"]
<1>1. rows[i] \in Row
  BY RowTyped
<1>2. row \in Row /\ row.status = "queued" /\ row.token = None
  BY <1>1 DEF Row, Status, Clock
<1>3. rows[i].status = "dispatching" /\ Only(i, row)
  BY DEF ScheduleRetry, LeaseLive
<1> HIDE DEF row
<1> QED BY <1>2, <1>3, RowStep DEF Settled

LEMMA PrepareInboxHandoffKeeps ==
    ASSUME QueueInv, NEW i \in Slots, NEW t \in Tokens, NEW content \in Contents,
           PrepareInboxHandoff(i, t, content)
    PROVE  QueueInv'
<1> DEFINE row == [rows[i] EXCEPT !.native = "prepared", !.content = content,
                                  !.heard = @ + 1]
<1>1. rows[i] \in Row
  BY RowTyped
<1>2. rows[i].heard + 1 \in Nat
  BY <1>1 DEF Row
<1>3. row \in Row /\ row.native = "prepared" /\ row.status = rows[i].status
      /\ row.token = rows[i].token /\ row.until = rows[i].until
  BY <1>1, <1>2 DEF Row
<1>4. rows[i].status = "dispatching" /\ Only(i, row)
  BY DEF PrepareInboxHandoff, LeaseLive
<1>5. rows[i].token # None /\ rows[i].until # "none"
  BY <1>4 DEF QueueInv, RowInv
<1> HIDE DEF row
<1> QED BY <1>3, <1>4, <1>5, RowStep DEF Settled

LEMMA ResolveKeeps ==
    ASSUME QueueInv, NEW i \in Slots, Resolve(i)
    PROVE  QueueInv'
<1>1. rows[i] \in Row
  BY RowTyped
<1>2. CASE MarkDelivered(i) \/ Cancel(i)
  <2> PICK status \in {"done", "cancelled"} : Only(i, Ends(rows[i], status))
    BY <1>2 DEF MarkDelivered, Cancel
  <2> DEFINE row == Ends(rows[i], status)
  <2>1. row \in Row /\ row.status = status /\ row.token = None
    BY <1>1 DEF Ends, Row, Status, Clock
  <2>2. rows[i].status = "uncertain" /\ Only(i, row)
    BY <1>2 DEF MarkDelivered, Cancel
  <2> HIDE DEF row
  <2> QED BY <2>1, <2>2, RowStep DEF Settled
<1>3. CASE AuthorizeRetry(i)
  <2> DEFINE ended == Ends(rows[i], "queued")
             row == [ended EXCEPT !.authorized = @ + 1]
  <2>1. ended \in Row /\ ended.status = "queued" /\ ended.token = None
    BY <1>1 DEF Ends, Row, Status, Clock
  <2>2. Only(i, row) /\ rows[i].status = "uncertain"
    BY <1>3 DEF AuthorizeRetry
  <2> HIDE DEF ended
  <2>3. ended.authorized + 1 \in Nat
    BY <2>1 DEF Row
  <2>4. row \in Row /\ row.status = "queued" /\ row.token = None
    BY <2>1, <2>3 DEF Row
  <2> HIDE DEF row
  <2> QED BY <2>2, <2>4, RowStep DEF Settled
<1> QED BY <1>2, <1>3 DEF Resolve

LEMMA TimeComesKeeps ==
    ASSUME QueueInv, NEW i \in Slots, TimeComes(i)
    PROVE  QueueInv'
<1> DEFINE row == [rows[i] EXCEPT !.until = "reached"]
<1>1. rows[i] \in Row
  BY RowTyped
<1>2. row \in Row /\ row.until = "reached" /\ row.status = rows[i].status
      /\ row.token = rows[i].token /\ row.native = rows[i].native
  BY <1>1 DEF Row, Clock
<1>3. QInv(rows) /\ active \in BOOLEAN /\ held \subseteq Lease
  BY QInvIsQueueInv
<1>4. rows' = [rows EXCEPT ![i] = row] /\ active' = active /\ held' = held
  BY DEF TimeComes, Only
<1>5. rows' \in [Slots -> Row]
  BY <1>2, <1>3, <1>4 DEF QInv
<1>6. \A j \in Slots : /\ rows'[j].status = rows[j].status
                       /\ rows'[j].token = rows[j].token
                       /\ rows'[j].native = rows[j].native
                       /\ rows'[j].until = rows[j].until \/ rows'[j].until = "reached"
  <2> HIDE DEF row
  <2> QED BY <1>2, <1>3, <1>4 DEF QInv
<1>7. ASSUME NEW j \in Slots PROVE RowOK(rows', j)
  <2>1. RowOK(rows, j)
    BY <1>3 DEF QInv
  <2>4. rows'[j].status = "absent" => rows'[j] = AbsentRow
    <3>1. rows[i].status # "absent"
      BY <1>3 DEF TimeComes, QInv, RowOK, AbsentRow
    <3>2. j # i => rows'[j] = rows[j]
      BY <1>3, <1>4 DEF QInv
    <3> QED BY <2>1, <3>1, <3>2, <1>6 DEF RowOK
  <2>2. rows'[j].status = "dispatching" => rows'[j].until # "none"
    BY <2>1, <1>6 DEF RowOK
  <2>3. rows'[j].status = "absent" => \A k \in Slots : j < k => rows'[k].status = "absent"
    BY <2>1, <1>6 DEF RowOK
  <2> QED BY <2>1, <2>2, <2>3, <2>4, <1>6 DEF RowOK
<1>8. ASSUME NEW j \in Slots PROVE InOrder(rows', j)
  <2>1. InOrder(rows, j)
    BY <1>3 DEF QInv
  <2> QED BY <2>1, <1>6 DEF InOrder, Settled
<1> QED BY <1>3, <1>4, <1>5, <1>7, <1>8, QInvIsQueueInvPrime DEF QInv

-----------------------------------------------------------------------------
(***************************************************************************)
(* Theorems.                                                               *)
(***************************************************************************)
LEMMA LeaseCallKeeps ==
    ASSUME QueueInv, NEW lease \in held, LeaseCall(lease.slot, lease.token)
    PROVE  QueueInv'
<1>1. lease.slot \in Slots /\ lease.token \in Tokens
  BY DEF QueueInv, QueueTypeOK, Lease
<1>2. CASE Complete(lease.slot, lease.token)
  BY <1>1, <1>2, EndKeeps DEF Complete
<1>3. CASE \E status \in {"uncertain", "failed"} : Stop(lease.slot, lease.token, status)
  BY <1>1, <1>3, EndKeeps DEF Stop
<1>4. CASE ScheduleRetry(lease.slot, lease.token)
  BY <1>1, <1>4, ScheduleRetryKeeps
<1>5. CASE \E content \in Contents : PrepareInboxHandoff(lease.slot, lease.token, content)
  BY <1>1, <1>5, PrepareInboxHandoffKeeps
<1> QED BY <1>2, <1>3, <1>4, <1>5 DEF LeaseCall

LEMMA InitHolds == QueueInit => QueueInv
<1> SUFFICES ASSUME QueueInit PROVE QueueInv
  OBVIOUS
<1>1. AbsentRow \in Row /\ AbsentRow.status = "absent" /\ AbsentRow.token = None
  BY DEF AbsentRow, Row, Status, Clock
<1>2. rows \in [Slots -> Row] /\ \A i \in Slots : rows[i] = AbsentRow
  BY <1>1 DEF QueueInit
<1>3. active \in BOOLEAN /\ held \subseteq Lease
  BY DEF QueueInit
<1>4. ASSUME NEW i \in Slots PROVE RowOK(rows, i) /\ InOrder(rows, i)
  BY <1>1, <1>2 DEF RowOK, InOrder
<1> QED BY <1>2, <1>3, <1>4, QInvIsQueueInv DEF QInv

LEMMA StepKeeps == QueueInv /\ [QueueNext]_queueVars => QueueInv'
<1> SUFFICES ASSUME QueueInv, [QueueNext]_queueVars PROVE QueueInv'
  OBVIOUS
<1>1. ASSUME NEW i \in Slots, Insert(i) PROVE QueueInv'
  BY <1>1, InsertKeeps
<1>2. ASSUME NEW i \in Slots, Resolve(i) PROVE QueueInv'
  BY <1>2, ResolveKeeps
<1>3. ASSUME NEW i \in Slots, TimeComes(i) PROVE QueueInv'
  BY <1>3, TimeComesKeeps
<1>4. ASSUME NEW i \in Slots, NEW t \in Tokens, Claim(i, t) PROVE QueueInv'
  BY <1>4, ClaimKeeps
<1>5. CASE ClaimNothing
  BY <1>5, ClaimNothingKeeps
<1>6. ASSUME NEW lease \in held, LeaseCall(lease.slot, lease.token) PROVE QueueInv'
  BY <1>6, LeaseCallKeeps
<1>7. ASSUME NEW lease \in held, Forget(lease) PROVE QueueInv'
  BY <1>7, QInvIsQueueInv, QInvIsQueueInvPrime DEF Forget
<1>8. CASE Revoke
  BY <1>8, QInvIsQueueInv, QInvIsQueueInvPrime DEF Revoke
<1>9. CASE UNCHANGED queueVars
  BY <1>9, QInvIsQueueInv, QInvIsQueueInvPrime DEF queueVars
<1> QED BY <1>1, <1>2, <1>3, <1>4, <1>5, <1>6, <1>7, <1>8, <1>9 DEF QueueNext

\* The invariant of the queue holds for any number of messages, leases and
\* callers: the rows of an identity are consistent and handed out in order.
THEOREM QueueInvariance == QueueSpec => []QueueInv
BY InitHolds, StepKeeps, PTL DEF QueueSpec

\* No lapse, deferral, authorized retry or recovery lets a message of an
\* identity overtake one that is not settled, and one is handed out at a time.
THEOREM OneAtATimeInOrder == QueueSpec => []HandedInOrder
<1>1. QueueInv => HandedInOrder
  BY DEF QueueInv
<1> QED BY <1>1, QueueInvariance, PTL

-----------------------------------------------------------------------------
(***************************************************************************)
(* What a step does to a row, from which the action properties follow.     *)
(***************************************************************************)
SameContent(i) == /\ rows'[i].native = rows[i].native
                  /\ rows'[i].content = rows[i].content
                  /\ rows'[i].heard = rows[i].heard

\* The row loses or never had a lease: it is aged, ended, deferred or resolved.
LetGo(i) == /\ ~Settled(rows[i]) /\ rows'[i].status # "dispatching"
            /\ rows[i].native = "prepared" => SameContent(i)

GivenOut(i) == /\ ~Settled(rows[i])
               /\ \A lease \in held : lease.token # rows'[i].token
               /\ rows[i].native = "prepared" => SameContent(i)

Readied(i) == /\ ~Settled(rows[i]) /\ rows[i].native # "prepared"
              /\ rows'[i].status = rows[i].status
              /\ rows'[i].token = rows[i].token /\ rows'[i].until = rows[i].until

Timed(i) == /\ rows'[i].status = rows[i].status /\ rows'[i].until = "reached"
            /\ SameContent(i)

RowChange(i) == \/ rows'[i] = rows[i]
                \/ LetGo(i) \/ GivenOut(i) \/ Readied(i) \/ Timed(i)

LEMMA OnlyOne ==
    ASSUME QueueInv, NEW i \in Slots, NEW row, Only(i, row)
    PROVE  rows'[i] = row /\ \A j \in Slots : j # i => rows'[j] = rows[j]
BY DEF Only, QueueInv, QueueTypeOK

\* A row that is replaced by one without a lease, with the same content.
LEMMA OneLetGo ==
    ASSUME QueueInv, NEW i \in Slots, NEW row, Only(i, row), ~Settled(rows[i]),
           row.status # "dispatching",
           rows[i].native = "prepared" =>
              /\ row.native = rows[i].native
              /\ row.content = rows[i].content
              /\ row.heard = rows[i].heard
    PROVE  \A j \in Slots : RowChange(j)
BY OnlyOne DEF RowChange, LetGo, SameContent

LEMMA EndsRow ==
    ASSUME NEW row \in Row, NEW status \in Status
    PROVE  /\ Ends(row, status) \in Row
           /\ Ends(row, status).status = status
           /\ Ends(row, status).token = None
           /\ Ends(row, status).authorized = row.authorized
           /\ Ends(row, status).native = row.native
           /\ Ends(row, status).content = row.content
           /\ Ends(row, status).heard = row.heard
BY DEF Ends, Row, Clock

LEMMA AgedChange ==
    ASSUME QueueInv, NEW i \in Slots
    PROVE  \/ Aged[i] = rows[i]
           \/ /\ rows[i].status = "dispatching" /\ Aged[i].status = "uncertain"
              /\ Aged[i].native = rows[i].native
              /\ Aged[i].content = rows[i].content
              /\ Aged[i].heard = rows[i].heard
BY RowTyped DEF Aged, Lapsed, Row

LEMMA ClaimChanges ==
    ASSUME QueueInv, NEW i \in Slots, NEW t \in Tokens, Claim(i, t), NEW j \in Slots
    PROVE  RowChange(j)
<1>1. rows' = [Aged EXCEPT ![i] = Handed(Aged[i], t)]
  <2>1. [Aged EXCEPT ![i] = Handed(@, t)] = [Aged EXCEPT ![i] = Handed(Aged[i], t)]
    BY DEF Aged
  <2> QED BY <2>1 DEF Claim
<1>2. Aged \in [Slots -> Row]
  BY QInvIsQueueInv, AgedRows DEF QInv
<1>3. CASE j # i
  <2>1. rows'[j] = Aged[j]
    BY <1>1, <1>2, <1>3
  <2> QED BY <2>1, AgedChange DEF RowChange, LetGo, SameContent, Settled
<1>4. CASE j = i
  <2>1. rows'[i] = Handed(Aged[i], t)
    BY <1>1, <1>2
  <2>2. Aged[i] \in Row /\ Aged[i].status \in {"queued", "uncertain"}
    BY <1>2 DEF Claim, Claimable
  <2>3. ~Settled(rows[i])
    BY <2>2, AgedChange DEF Settled
  <2>4. \A lease \in held : lease.token # t
    BY DEF Claim, FreshToken
  <2>5. /\ Handed(Aged[i], t).token = t
        /\ Handed(Aged[i], t).content = Aged[i].content
        /\ Handed(Aged[i], t).heard = Aged[i].heard
        /\ Aged[i].native = "prepared" => Handed(Aged[i], t).native = "prepared"
    BY <2>2 DEF Handed, Row
  <2>6. rows[i].native = "prepared" => SameContent(i)
    BY <2>1, <2>5, AgedChange DEF SameContent
  <2> QED BY <1>4, <2>1, <2>3, <2>4, <2>5, <2>6 DEF RowChange, GivenOut
<1> QED BY <1>3, <1>4

LEMMA ClaimNothingChanges ==
    ASSUME QueueInv, ClaimNothing, NEW i \in Slots
    PROVE  RowChange(i)
<1>1. CASE rows'[i] = Aged[i]
  BY <1>1, AgedChange DEF RowChange, LetGo, SameContent, Settled
<1>2. CASE /\ rows[i].status = "queued"
           /\ rows'[i] = [rows[i] EXCEPT !.status = "cancelled"]
  BY <1>2, RowTyped DEF RowChange, LetGo, SameContent, Settled, Row
<1>3. rows'[i] = Aged[i] \/ /\ rows[i].status = "queued"
                            /\ rows'[i] = [rows[i] EXCEPT !.status = "cancelled"]
  BY DEF ClaimNothing
<1> QED BY <1>1, <1>2, <1>3

LEMMA LeaseCallChanges ==
    ASSUME QueueInv, NEW lease \in held, LeaseCall(lease.slot, lease.token),
           NEW j \in Slots
    PROVE  RowChange(j)
<1> DEFINE i == lease.slot
           t == lease.token
<1>1. i \in Slots /\ rows[i] \in Row
  BY RowTyped DEF QueueInv, QueueTypeOK, Lease
<1> HIDE DEF i, t
<1>2. ASSUME NEW status \in {"done", "failed", "uncertain"}, End(i, t, status)
      PROVE  RowChange(j)
  <2>1. Only(i, Ends(rows[i], status)) /\ rows[i].status = "dispatching"
    BY <1>2 DEF End, LeaseLive
  <2>2. status \in Status /\ status # "dispatching" /\ ~Settled(rows[i])
    BY <2>1 DEF Status, Settled
  <2> QED BY <1>1, <2>1, <2>2, EndsRow, OneLetGo
<1>3. CASE ScheduleRetry(i, t)
  <2> DEFINE row == [rows[i] EXCEPT !.status = "queued", !.token = None, !.until = "future"]
  <2>1. Only(i, row) /\ rows[i].status = "dispatching"
    BY <1>3 DEF ScheduleRetry, LeaseLive
  <2>2. /\ row.status = "queued" /\ row.native = rows[i].native
        /\ row.content = rows[i].content /\ row.heard = rows[i].heard
    BY <1>1 DEF Row
  <2> HIDE DEF row
  <2> QED BY <1>1, <2>1, <2>2, OneLetGo DEF Settled
<1>4. ASSUME NEW content \in Contents, PrepareInboxHandoff(i, t, content)
      PROVE  RowChange(j)
  <2> DEFINE row == [rows[i] EXCEPT !.native = "prepared", !.content = content,
                                    !.heard = @ + 1]
  <2>1. /\ Only(i, row) /\ rows[i].status = "dispatching"
        /\ rows[i].native = "snapshot"
    BY <1>4 DEF PrepareInboxHandoff, LeaseLive
  <2>2. row.status = rows[i].status /\ row.token = rows[i].token /\ row.until = rows[i].until
    BY <1>1 DEF Row
  <2> HIDE DEF row
  <2> QED BY <1>1, <2>1, <2>2, OnlyOne DEF RowChange, Readied, Settled
<1> QED BY <1>2, <1>3, <1>4 DEF LeaseCall, Complete, Stop, i, t

LEMMA ResolveChanges ==
    ASSUME QueueInv, NEW i \in Slots, Resolve(i), NEW j \in Slots
    PROVE  RowChange(j)
<1>1. rows[i] \in Row /\ rows[i].status = "uncertain"
  BY RowTyped DEF Resolve, MarkDelivered, Cancel, AuthorizeRetry
<1>2. ~Settled(rows[i])
  BY <1>1 DEF Settled
<1>3. ASSUME NEW status \in {"done", "cancelled"}, Only(i, Ends(rows[i], status))
      PROVE  RowChange(j)
  <2>1. status \in Status /\ status # "dispatching"
    BY DEF Status
  <2> QED BY <1>1, <1>2, <1>3, <2>1, EndsRow, OneLetGo
<1>4. CASE AuthorizeRetry(i)
  <2> DEFINE ended == Ends(rows[i], "queued")
             row == [ended EXCEPT !.authorized = @ + 1]
  <2>1. /\ ended \in Row /\ ended.status = "queued"
        /\ ended.native = rows[i].native /\ ended.content = rows[i].content
        /\ ended.heard = rows[i].heard
    BY <1>1, EndsRow DEF Status
  <2>2. Only(i, row)
    BY <1>4 DEF AuthorizeRetry
  <2> HIDE DEF ended
  <2>3. /\ row.status = "queued" /\ row.native = ended.native
        /\ row.content = ended.content /\ row.heard = ended.heard
    BY <2>1 DEF Row
  <2> HIDE DEF row
  <2> QED BY <1>2, <2>1, <2>2, <2>3, OneLetGo
<1> QED BY <1>3, <1>4 DEF Resolve, MarkDelivered, Cancel

LEMMA StepChanges ==
    ASSUME QueueInv, [QueueNext]_queueVars, NEW j \in Slots
    PROVE  RowChange(j)
<1>1. ASSUME NEW i \in Slots, Insert(i) PROVE RowChange(j)
  <2> DEFINE row == [AbsentRow EXCEPT !.status = "queued"]
  <2>1. Only(i, row) /\ rows[i].status = "absent" /\ row.status = "queued"
    BY <1>1 DEF Insert, AbsentRow
  <2>2. rows[i].native # "prepared" /\ ~Settled(rows[i])
    BY <2>1 DEF QueueInv, RowInv, Settled, AbsentRow
  <2> HIDE DEF row
  <2> QED BY <2>1, <2>2, OneLetGo
<1>2. ASSUME NEW i \in Slots, Resolve(i) PROVE RowChange(j)
  BY <1>2, ResolveChanges
<1>3. ASSUME NEW i \in Slots, TimeComes(i) PROVE RowChange(j)
  <2> DEFINE row == [rows[i] EXCEPT !.until = "reached"]
  <2>1. Only(i, row)
    BY <1>3 DEF TimeComes
  <2>2. /\ row.status = rows[i].status /\ row.until = "reached"
        /\ row.native = rows[i].native
        /\ row.content = rows[i].content /\ row.heard = rows[i].heard
    BY RowTyped DEF Row
  <2> HIDE DEF row
  <2> QED BY <2>1, <2>2, OnlyOne DEF RowChange, Timed, SameContent
<1>4. ASSUME NEW i \in Slots, NEW t \in Tokens, Claim(i, t) PROVE RowChange(j)
  BY <1>4, ClaimChanges
<1>5. CASE ClaimNothing
  BY <1>5, ClaimNothingChanges
<1>6. ASSUME NEW lease \in held, LeaseCall(lease.slot, lease.token) PROVE RowChange(j)
  BY <1>6, LeaseCallChanges
<1>7. CASE UNCHANGED rows
  BY <1>7 DEF RowChange
<1> QED BY <1>1, <1>2, <1>3, <1>4, <1>5, <1>6, <1>7
        DEF QueueNext, Forget, Revoke, queueVars

\* Neither a late holder, an ageing claim, a revocation nor an operator changes
\* a message that is settled.
THEOREM SettledForGood == QueueSpec => SettledIsFinal
<1>1. ASSUME QueueInv, [QueueNext]_queueVars, NEW i \in Slots, Settled(rows[i])
      PROVE  rows'[i].status = rows[i].status
  BY <1>1, StepChanges DEF RowChange, LetGo, GivenOut, Readied, Timed
<1>2. QueueInv /\ [QueueNext]_queueVars =>
        [\A i \in Slots : Settled(rows[i]) => rows'[i].status = rows[i].status]_queueVars
  BY <1>1
<1> QED BY <1>2, QueueInvariance, PTL DEF QueueSpec, SettledIsFinal

\* A caller whose lease lapsed, or whose message was handed on, can record
\* nothing any more, whatever the queue goes through while it lives.
THEOREM SupersededForGood == QueueSpec => LostLeaseStaysLost
<1>1. ASSUME QueueInv, [QueueNext]_queueVars, NEW lease \in held,
             ~LeaseLive(lease.slot, lease.token)
      PROVE  ~LeaseLive(lease.slot, lease.token)'
  <2>1. lease.slot \in Slots
    BY <1>1 DEF QueueInv, QueueTypeOK, Lease
  <2>2. RowChange(lease.slot)
    BY <1>1, <2>1, StepChanges
  <2>3. active' => active
    BY <1>1 DEF QueueNext, queueVars, Insert, Resolve, MarkDelivered, Cancel,
               AuthorizeRetry, TimeComes, Claim, ClaimNothing, LeaseCall, Complete,
               Stop, End, ScheduleRetry, PrepareInboxHandoff, Forget, Revoke, Only
  <2> QED BY <1>1, <2>2, <2>3
          DEF RowChange, LetGo, GivenOut, Readied, Timed, LeaseLive
<1>2. QueueInv /\ [QueueNext]_queueVars =>
        [\A lease \in held : ~LeaseLive(lease.slot, lease.token) =>
            ~LeaseLive(lease.slot, lease.token)']_queueVars
  BY <1>1
<1> QED BY <1>2, QueueInvariance, PTL DEF QueueSpec, LostLeaseStaysLost

\* Once an inbox message is prepared, its content and the transcripts that were
\* enqueued for it stay, so every later handoff sends the same.
THEOREM PreparedOnce == QueueSpec => ContentIsStable
<1>1. ASSUME QueueInv, [QueueNext]_queueVars, NEW i \in Slots,
             rows[i].native = "prepared"
      PROVE  /\ rows'[i].native = "prepared"
             /\ rows'[i].content = rows[i].content
             /\ rows'[i].heard = rows[i].heard
  BY <1>1, StepChanges DEF RowChange, LetGo, GivenOut, Readied, Timed, SameContent
<1>2. QueueInv /\ [QueueNext]_queueVars =>
        [\A i \in Slots : rows[i].native = "prepared" =>
            /\ rows'[i].native = "prepared"
            /\ rows'[i].content = rows[i].content
            /\ rows'[i].heard = rows[i].heard]_queueVars
  BY <1>1
<1> QED BY <1>2, QueueInvariance, PTL DEF QueueSpec, ContentIsStable
===============================================================================
