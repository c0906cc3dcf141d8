------------------------- MODULE ScheduledWorkersProofs -------------------------
(***************************************************************************)
(* Proofs about the store of scheduled runs and about the workers that use *)
(* it.  The first half is about ScheduledRuns, for any set of runs and     *)
(* tokens and any bound on attempts: RunsInv is inductive, and the         *)
(* invariants and action properties the runs check follow from it.         *)
(***************************************************************************)
EXTENDS ScheduledWorkers, FiniteSetTheorems, TLAPS

USE ChannelsAssumption, NoneAssumption, BoundsAssumption

\* Every queued row is like any other, and satisfies what is asked of a row.
LEMMA InitRunsInv == Init => RunsInv
<1> SUFFICES ASSUME Init PROVE RunsInv
  OBVIOUS
<1>1. ASSUME NEW channel \in Channels PROVE QueuedRow(channel) \in Row
  BY DEF QueuedRow, Row, RunStatus, Clock, ReportStatus
<1>0. ASSUME NEW r \in Runs PROVE \E channel \in Channels : run[r] = QueuedRow(channel)
  BY DEF Init
<1>2. TypeOK
  BY <1>1, <1>0 DEF Init, TypeOK
<1>3. ASSUME NEW r \in Runs
      PROVE  LeaseInv(run[r], granted[r]) /\ EndingInv(run[r])
             /\ ReportInv(run[r])
  BY <1>0, <1>3, FS_EmptySet
     DEF Init, QueuedRow, LeaseInv, EndingInv, ReportInv, Terminal
<1> QED
  BY <1>2, <1>3 DEF Init, RunsInv

\* A write to one row that leaves its attempts alone, keeps or clears its
\* token, and suits the row invariants preserves the whole invariant.
LEMMA WritePreserves ==
  ASSUME RunsInv, NEW r \in Runs, NEW row \in Row, Write(r, row),
         row.attempts = run[r].attempts, row.token \in {run[r].token, None},
         LeaseInv(row, granted[r]), EndingInv(row), ReportInv(row)
  PROVE  RunsInv'
<1>1. /\ run' = [run EXCEPT ![r] = row] /\ granted' = granted /\ reads' = reads
      /\ run \in [Runs -> Row] /\ TypeOK
  BY DEF Write, RunsInv, TypeOK
<1>2. TypeOK'
  BY <1>1 DEF TypeOK
<1>3. ASSUME NEW q \in Runs
      PROVE  (LeaseInv(run[q], granted[q]) /\ EndingInv(run[q])
              /\ ReportInv(run[q]))'
  <2>1. run'[q] = IF q = r THEN row ELSE run[q]
    BY <1>1
  <2> QED
    BY <1>1, <2>1 DEF RunsInv
<1>4. ASSUME NEW read \in reads' PROVE ReadInv(read)'
  <2>1. ReadInv(read) /\ read.run \in Runs /\ read.token \in Tokens
    BY <1>1 DEF RunsInv, TypeOK, Read, ReadInv
  <2>2. run'[read.run] = IF read.run = r THEN row ELSE run[read.run]
    BY <1>1, <2>1
  <2> QED
    BY <1>1, <2>1, <2>2 DEF ReadInv
<1> QED
  BY <1>2, <1>3, <1>4 DEF RunsInv

\* What RunsInv says of one row, spelled out for the action lemmas below.
LEMMA RowFacts ==
  ASSUME RunsInv, NEW r \in Runs
  PROVE  /\ run[r] \in Row
         /\ LeaseInv(run[r], granted[r]) /\ EndingInv(run[r])
         /\ ReportInv(run[r])
  BY DEF RunsInv, TypeOK

\* The literals the actions write, in their sets: with the sets kept folded, the
\* type of an updated row is a matter of its fields alone.
LEMMA Literals ==
  /\ "none" \in Clock /\ "future" \in Clock /\ "reached" \in Clock
  /\ "queued" \in RunStatus /\ "running" \in RunStatus /\ "completed" \in RunStatus
  /\ "waiting_for_input" \in RunStatus /\ "dead_letter" \in RunStatus
  /\ "not_ready" \in ReportStatus /\ "not_needed" \in ReportStatus
  /\ "pending" \in ReportStatus /\ "queued" \in ReportStatus
  /\ "result" \in Outcomes /\ "nothing_to_report" \in Outcomes /\ "blocked" \in Outcomes
  BY DEF Clock, RunStatus, ReportStatus, Outcomes

\* The calls a worker makes with its lease token, its releases aside.
LEMMA WorkerWritePreserves ==
  ASSUME RunsInv, NEW r \in Runs, NEW t \in Tokens
  PROVE  /\ \A s \in Sessions : SetSession(r, t, s) \/ MarkStarted(r, t, s) => RunsInv'
         /\ WaitForInput(r, t) => RunsInv'
         /\ \A turn \in Turns : Defer(r, t, turn) => RunsInv'
         /\ \A turn \in Turns, kind \in {"result", "nothing_to_report"} :
               Complete(r, t, turn, kind) => RunsInv'
<1> DEFINE old == run[r]
<1>0. /\ old \in Row /\ LeaseInv(old, granted[r]) /\ EndingInv(old)
      /\ ReportInv(old)
  BY RowFacts
<1>1. ASSUME NEW s \in Sessions, SetSession(r, t, s) PROVE RunsInv'
  <2> DEFINE row == [old EXCEPT !.session = s]
  <2>1. row \in Row /\ LeaseInv(row, granted[r]) /\ EndingInv(row)
        /\ ReportInv(row)
        /\ row.attempts = old.attempts /\ row.token = old.token
    BY <1>0 DEF Row, LeaseInv, EndingInv, ReportInv, Terminal
  <2> QED
    BY <1>1, <2>1, WritePreserves DEF SetSession
<1>2. ASSUME NEW s \in Sessions, MarkStarted(r, t, s) PROVE RunsInv'
  <2> DEFINE row == [old EXCEPT !.lease = "future", !.session = s]
  <2>1. row \in Row /\ LeaseInv(row, granted[r]) /\ EndingInv(row)
        /\ ReportInv(row)
        /\ row.attempts = old.attempts /\ row.token = old.token
    BY <1>0, Literals DEF Row, LeaseInv, EndingInv, ReportInv, Terminal
  <2> QED
    BY <1>2, <2>1, WritePreserves DEF MarkStarted
<1>3. ASSUME WaitForInput(r, t) PROVE RunsInv'
  <2> DEFINE row == [old EXCEPT !.question = old.seq + 1, !.lease = "none",
                                !.seq = @ + 1, !.report = "pending",
                                !.status = "waiting_for_input"]
  <2>0. old.seq + 1 \in Nat
    BY <1>0 DEF Row
  <2>1. row \in Row
    BY <1>0, <2>0, Literals DEF Row
  <2>2. LeaseInv(row, granted[r]) /\ EndingInv(row)
        /\ ReportInv(row)
        /\ row.attempts = old.attempts /\ row.token = old.token
    BY <1>0, <1>3 DEF Row, WaitForInput, Holds, LeaseInv, EndingInv, ReportInv, Terminal
  <2> QED
    BY <1>3, <2>1, <2>2, WritePreserves DEF WaitForInput
<1>4. ASSUME NEW turn \in Turns, Defer(r, t, turn) PROVE RunsInv'
  <2> DEFINE row == [old EXCEPT !.deferred = turn]
  <2>1. row \in Row /\ LeaseInv(row, granted[r]) /\ EndingInv(row)
        /\ ReportInv(row)
        /\ row.attempts = old.attempts /\ row.token = old.token
    BY <1>0 DEF Row, LeaseInv, EndingInv, ReportInv, Terminal
  <2> QED
    BY <1>4, <2>1, WritePreserves DEF Defer
<1>5. ASSUME NEW turn \in Turns, NEW kind \in {"result", "nothing_to_report"},
             Complete(r, t, turn, kind)
      PROVE  RunsInv'
  <2> DEFINE row == Completed(old, kind)
  <2>0. old.seq + 1 \in Nat /\ 0 \in Nat /\ kind \in Outcomes
    BY <1>0, Literals DEF Row
  <2>1. row \in Row
    BY <1>0, <2>0, Literals DEF Completed, Row
  <2>2. LeaseInv(row, granted[r]) /\ EndingInv(row)
        /\ ReportInv(row)
        /\ row.attempts = old.attempts /\ row.token = None
    BY <1>0, <1>5
       DEF Complete, Holds, Completed, Row, LeaseInv, EndingInv, ReportInv, Terminal
  <2> QED
    BY <1>5, <2>1, <2>2, WritePreserves DEF Complete
<1> QED
  BY <1>1, <1>2, <1>3, <1>4, <1>5

\* Both statements of a release, and a release that stops between them.
LEMMA ReleasePreserves ==
  ASSUME RunsInv
  PROVE  /\ \A r \in Runs, t \in Tokens, by \in Callers : ReleaseRead(r, t, by) => RunsInv'
         /\ \A read \in reads : ReleaseWrite(read) \/ ReleaseLost(read) => RunsInv'
<1>1. ASSUME NEW r \in Runs, NEW t \in Tokens, NEW by \in Callers, ReleaseRead(r, t, by)
      PROVE  RunsInv'
  <2> DEFINE seen == [run |-> r, by |-> by, token |-> t, attempts |-> run[r].attempts,
                      outcome |-> run[r].outcome, report |-> run[r].report]
  <2>1. /\ run[r] \in Row /\ LeaseInv(run[r], granted[r]) /\ EndingInv(run[r])
        /\ run[r].token = t
    BY <1>1, RowFacts DEF ReleaseRead
  <2>2. seen \in Read /\ ReadInv(seen)
    BY <2>1 DEF Read, Row, ReadInv, LeaseInv, EndingInv, Terminal
  <2>3. run' = run /\ granted' = granted /\ reads' = reads \cup {seen}
    BY <1>1 DEF ReleaseRead
  <2> QED
    BY <2>2, <2>3 DEF RunsInv, TypeOK, ReadInv
<1>2. ASSUME NEW read \in reads, ReleaseLost(read) PROVE RunsInv'
  BY <1>2 DEF ReleaseLost, RunsInv, TypeOK, ReadInv
<1>3. ASSUME NEW read \in reads, ReleaseWrite(read) PROVE RunsInv'
  <2> DEFINE r == read.run
             old == run[r]
             row == Released(old, read)
  <2>1. read \in Read /\ r \in Runs /\ ReadInv(read) /\ read.token \in Tokens
    BY DEF RunsInv, TypeOK, Read, ReadInv
  <2>2. CASE old.token # read.token
    <3>1. run' = run /\ granted' = granted /\ reads' \subseteq reads
      BY <1>3, <2>2 DEF ReleaseWrite
    <3> QED
      BY <3>1 DEF RunsInv, TypeOK, ReadInv
  <2>3. CASE old.token = read.token
    <3>1. /\ old \in Row /\ LeaseInv(old, granted[r]) /\ EndingInv(old)
          /\ ReportInv(old)
          /\ read.attempts = old.attempts /\ read.outcome = None
      BY <2>1, <2>3, RowFacts DEF ReadInv
    <3>2. row \in Row
      <4>1. /\ old.seq + 1 \in Nat /\ read.report \in ReportStatus
            /\ read.outcome \in Outcomes \cup {None}
        BY <2>1, <3>1 DEF Row, Read
      <4>2. CASE read.attempts >= MaxAttempts
        <5>1. row = [old EXCEPT !.deferred = None, !.lease = "none", !.token = None,
                                !.outcome = "blocked", !.seq = old.seq + 1,
                                !.report = "pending", !.retry = "none",
                                !.status = "dead_letter"]
          BY <4>2, Zenon DEF Released
        <5> HIDE DEF row
        <5> QED
          BY <3>1, <4>1, <5>1, Literals DEF Row
      <4>3. CASE ~(read.attempts >= MaxAttempts)
        <5>1. row = [old EXCEPT !.deferred = None, !.lease = "none", !.token = None,
                                !.outcome = read.outcome, !.seq = old.seq,
                                !.report = read.report, !.retry = "future",
                                !.status = "queued"]
          BY <4>3, Zenon DEF Released
        <5>2. [old EXCEPT !.outcome = read.outcome, !.report = read.report] \in Row
          BY <3>1, <4>1 DEF Row
        <5>3. row = [[old EXCEPT !.outcome = read.outcome, !.report = read.report]
                       EXCEPT !.deferred = None, !.lease = "none", !.token = None,
                              !.retry = "future", !.status = "queued"]
          BY <3>1, <5>1 DEF Row
        <5> HIDE DEF row
        <5> QED
          BY <5>2, <5>3, Literals DEF Row
      <4> QED
        BY <4>2, <4>3
    <3>3. LeaseInv(row, granted[r]) /\ EndingInv(row) /\ ReportInv(row)
          /\ row.attempts = old.attempts /\ row.token = None
      BY <2>1, <2>3, <3>1
         DEF Released, Row, LeaseInv, EndingInv, ReportInv, Terminal
    <3>4. run' = [run EXCEPT ![r] = row] /\ granted' = granted /\ reads' \subseteq reads
      BY <1>3, <2>3 DEF ReleaseWrite
    <3>5. ASSUME NEW q \in Runs
          PROVE  /\ run'[q] = IF q = r THEN row ELSE run[q]
                 /\ (LeaseInv(run[q], granted[q]) /\ EndingInv(run[q])
                     /\ ReportInv(run[q]))'
      BY <2>1, <3>3, <3>4 DEF RunsInv, TypeOK
    <3>6. ASSUME NEW other \in reads' PROVE ReadInv(other)'
      <4>1. ReadInv(other) /\ other.run \in Runs /\ other.token \in Tokens
        BY <3>4 DEF RunsInv, TypeOK, Read, ReadInv
      <4> QED
        BY <3>3, <3>4, <3>5, <4>1 DEF ReadInv
    <3>7. TypeOK'
      BY <3>2, <3>4 DEF RunsInv, TypeOK
    <3> QED
      BY <3>5, <3>6, <3>7 DEF RunsInv
  <2> QED
    BY <2>2, <2>3
<1> QED
  BY <1>1, <1>2, <1>3

\* The three calls of the answer route.
LEMMA AnswerPreserves ==
  ASSUME RunsInv, NEW r \in Runs, NEW t \in Tokens, AnswerCall(r, t)
  PROVE  RunsInv'
<1> DEFINE old == run[r]
<1>0. /\ old \in Row /\ LeaseInv(old, granted[r]) /\ EndingInv(old)
      /\ ReportInv(old)
  BY RowFacts
<1>1. CASE ClaimInput(r, t)
  <2> DEFINE row == [old EXCEPT !.status = "running", !.lease = "future"]
  <2>1. row \in Row
    BY <1>0, Literals DEF Row
  <2>2. LeaseInv(row, granted[r]) /\ EndingInv(row) /\ ReportInv(row)
        /\ row.attempts = old.attempts /\ row.token = old.token
    BY <1>0, <1>1 DEF ClaimInput, Row, LeaseInv, EndingInv, ReportInv, Terminal
  <2> QED
    BY <1>1, <2>1, <2>2, WritePreserves DEF ClaimInput
<1>2. CASE RestoreInput(r, t)
  <2> DEFINE row == [old EXCEPT !.status = "waiting_for_input", !.lease = "none",
                                !.deferred = None]
  <2>1. row \in Row
    BY <1>0, Literals DEF Row
  <2>2. LeaseInv(row, granted[r]) /\ EndingInv(row) /\ ReportInv(row)
        /\ row.attempts = old.attempts /\ row.token = old.token
    BY <1>0, <1>2 DEF RestoreInput, Holds, Row, LeaseInv, EndingInv, ReportInv, Terminal
  <2> QED
    BY <1>2, <2>1, <2>2, WritePreserves DEF RestoreInput
<1>3. CASE FinishInput(r, t)
  <2> DEFINE row == [old EXCEPT !.deferred = None, !.question = 0,
                                !.reportLease = "none", !.reportToken = None,
                                !.report = "not_ready"]
  <2>1. row \in Row
    BY <1>0, Literals DEF Row
  <2>2. LeaseInv(row, granted[r]) /\ EndingInv(row) /\ ReportInv(row)
        /\ row.attempts = old.attempts /\ row.token = old.token
    BY <1>0, <1>3 DEF FinishInput, Holds, Row, LeaseInv, EndingInv, ReportInv, Terminal
  <2> QED
    BY <1>3, <2>1, <2>2, WritePreserves DEF FinishInput
<1> QED
  BY <1>1, <1>2, <1>3 DEF AnswerCall

\* Report leases, and the native reports that take none.
LEMMA ReportPreserves ==
  ASSUME RunsInv, NEW r \in Runs, ReportCall(r)
  PROVE  RunsInv'
<1> DEFINE old == run[r]
           Freed(status) == [old EXCEPT !.reportLease = "none", !.reportToken = None,
                                        !.report = status]
<1>0. /\ old \in Row /\ LeaseInv(old, granted[r]) /\ EndingInv(old)
      /\ ReportInv(old)
  BY RowFacts
<1>1. ASSUME NEW status \in {"pending", "delivered", "suppressed"},
             Write(r, Freed(status))
      PROVE  RunsInv'
  <2>0. status \in ReportStatus /\ status # "not_ready"
    BY <1>1 DEF ReportStatus
  <2>1. Freed(status) \in Row
    BY <1>0, <2>0, Literals DEF Row
  <2>2. /\ LeaseInv(Freed(status), granted[r]) /\ EndingInv(Freed(status))
        /\ ReportInv(Freed(status))
        /\ Freed(status).attempts = old.attempts /\ Freed(status).token = old.token
    BY <1>0, <2>0 DEF Row, LeaseInv, EndingInv, ReportInv, Terminal
  <2> QED
    BY <1>1, <2>1, <2>2, WritePreserves
<1>2. ASSUME NEW p \in ReportTokens, ClaimReport(r, p) PROVE RunsInv'
  <2> DEFINE row == [old EXCEPT !.reportLease = "future", !.reportToken = p,
                                !.report = "queued"]
  <2>1. row \in Row
    BY <1>0, Literals DEF Row
  <2>2. LeaseInv(row, granted[r]) /\ EndingInv(row) /\ ReportInv(row)
        /\ row.attempts = old.attempts /\ row.token = old.token
    BY <1>0, <1>2 DEF ClaimReport, Row, LeaseInv, EndingInv, ReportInv, Terminal
  <2> QED
    BY <1>2, <2>1, <2>2, WritePreserves DEF ClaimReport
<1>3. ASSUME NEW status \in {"queued", "delivered", "failed", "cancelled", "uncertain",
                             "not_needed"},
             NativeReport(r, status)
      PROVE  RunsInv'
  <2> DEFINE row == [old EXCEPT !.report = status]
  <2>0. status \in ReportStatus /\ status # "not_ready"
    BY <1>3 DEF ReportStatus
  <2>1. row \in Row
    BY <1>0, <2>0 DEF Row
  <2>2. LeaseInv(row, granted[r]) /\ EndingInv(row) /\ ReportInv(row)
        /\ row.attempts = old.attempts /\ row.token = old.token
    BY <1>0, <1>3, <2>0 DEF NativeReport, Row, LeaseInv, EndingInv, ReportInv, Terminal
  <2> QED
    BY <1>3, <2>1, <2>2, WritePreserves DEF NativeReport
<1>4. ASSUME NEW p \in ReportTokens, ReleaseReport(r, p) PROVE RunsInv'
  BY <1>1, <1>4 DEF ReleaseReport
<1>5. ASSUME NEW p \in ReportTokens, NEW status \in {"delivered", "suppressed"},
             FinalizeReport(r, p, status)
      PROVE  RunsInv'
  BY <1>1, <1>5 DEF FinalizeReport
<1>6. ASSUME RecoverReport(r) PROVE RunsInv'
  BY <1>1, <1>6 DEF RecoverReport
<1> QED
  BY <1>2, <1>3, <1>4, <1>5, <1>6 DEF ReportCall

\* No invariant speaks of the clocks.
LEMMA TimePreserves ==
  ASSUME RunsInv, NEW r \in Runs, TimePasses(r)
  PROVE  RunsInv'
<1>1. PICK field \in {"lease", "retry", "reportLease"} : Reaches(field, r)
  BY DEF TimePasses
<1> DEFINE old == run[r]
           row == [old EXCEPT ![field] = "reached"]
<1>2. /\ old \in Row /\ LeaseInv(old, granted[r]) /\ EndingInv(old)
      /\ ReportInv(old)
  BY RowFacts
<1>3. Write(r, row)
  BY <1>1, <1>2 DEF Reaches, Write, RunsInv, TypeOK
<1>4. /\ row \in Row /\ LeaseInv(row, granted[r]) /\ EndingInv(row)
      /\ ReportInv(row)
      /\ row.attempts = old.attempts /\ row.token = old.token
  <2>1. CASE field = "lease"
    BY <1>2, <2>1, Literals DEF Row, LeaseInv, EndingInv, ReportInv, Terminal
  <2>2. CASE field = "retry"
    BY <1>2, <2>2, Literals DEF Row, LeaseInv, EndingInv, ReportInv, Terminal
  <2>3. CASE field = "reportLease"
    BY <1>2, <2>3, Literals DEF Row, LeaseInv, EndingInv, ReportInv, Terminal
  <2> QED
    BY <2>1, <2>2, <2>3
<1> QED
  BY <1>3, <1>4, WritePreserves

\* A tick draws a token nobody was given, so the rows it claims get one lease
\* more and no release already under way can touch them.
LEMMA ClaimPreserves ==
  ASSUME RunsInv, NEW batch \in SUBSET Runs, NEW t \in Tokens, ClaimReady(batch, t)
  PROVE  RunsInv'
<1> DEFINE spent == {r \in batch : run[r].attempts >= MaxAttempts}
<1>1. /\ \A r \in batch : Ready(run[r])
      /\ batch # spent => t \notin Issued
      /\ run' = [r \in Runs |-> IF r \in spent THEN Exhausted(run[r])
                                ELSE IF r \in batch THEN Claimed(run[r], t)
                                ELSE run[r]]
      /\ granted' = [r \in Runs |-> IF r \in batch \ spent
                                    THEN granted[r] \cup {t} ELSE granted[r]]
      /\ reads' = reads
  BY DEF ClaimReady
<1>2. ASSUME NEW r \in Runs
      PROVE  /\ run'[r] \in Row /\ granted'[r] \in SUBSET Tokens
             /\ LeaseInv(run'[r], granted'[r]) /\ EndingInv(run'[r])
             /\ ReportInv(run'[r])
             /\ run'[r].token # run[r].token =>
                   run'[r].token = None \/ (r \in batch \ spent /\ run'[r].token = t)
             /\ run'[r].token = run[r].token => run'[r].attempts = run[r].attempts
  <2> DEFINE old == run[r]
  <2>1. /\ old \in Row /\ LeaseInv(old, granted[r]) /\ EndingInv(old)
        /\ ReportInv(old) /\ granted[r] \in SUBSET Tokens
    BY RowFacts DEF RunsInv, TypeOK
  <2>2. CASE r \in spent
    <3> DEFINE row == Exhausted(old)
    <3>1. run'[r] = row /\ granted'[r] = granted[r] /\ Ready(old)
          /\ old.attempts >= MaxAttempts
      BY <1>1, <2>2
    <3>2. old.seq + 1 \in Nat
      BY <2>1 DEF Row
    <3>3. row \in Row
      BY <2>1, <3>2, Literals DEF Row, Exhausted
    <3>4. LeaseInv(row, granted[r]) /\ EndingInv(row) /\ ReportInv(row)
          /\ row.token = None /\ row.attempts = old.attempts
      BY <2>1, <3>1 DEF Row, Exhausted, Ready, LeaseInv, EndingInv, ReportInv, Terminal
    <3> QED
      BY <2>1, <3>1, <3>3, <3>4
  <2>3. CASE r \in batch \ spent
    <3> DEFINE row == Claimed(old, t)
    <3>1. /\ run'[r] = row /\ granted'[r] = granted[r] \cup {t} /\ Ready(old)
          /\ old.attempts < MaxAttempts /\ t \notin granted[r]
      BY <1>1, <2>1, <2>3 DEF Issued, Row
    <3>2. old.attempts + 1 \in Nat
      BY <2>1 DEF Row
    <3>3. row \in Row
      BY <2>1, <3>2, Literals DEF Row, Claimed
    <3>4. IsFiniteSet(granted[r] \cup {t})
          /\ Cardinality(granted[r] \cup {t}) = old.attempts + 1
      <4>1. IsFiniteSet(granted[r]) /\ Cardinality(granted[r]) = old.attempts
        BY <2>1 DEF LeaseInv
      <4> HIDE DEF old
      <4> QED
        BY <3>1, <4>1, FS_AddElement
    <3>5. LeaseInv(row, granted[r] \cup {t})
      BY <2>1, <3>1, <3>4 DEF Row, Claimed, LeaseInv
    <3>6. EndingInv(row) /\ ReportInv(row)
          /\ row.token = t /\ row.token # old.token
      BY <2>1, <3>1 DEF Row, Claimed, Ready, LeaseInv, EndingInv, ReportInv, Terminal
    <3> QED
      BY <2>1, <2>3, <3>1, <3>3, <3>5, <3>6
  <2>4. CASE r \notin batch
    BY <1>1, <2>1, <2>4
  <2> QED
    BY <2>2, <2>3, <2>4
<1>3. TypeOK'
  BY <1>1, <1>2 DEF RunsInv, TypeOK
<1>4. ASSUME NEW read \in reads' PROVE ReadInv(read)'
  <2>1. ReadInv(read) /\ read.run \in Runs /\ read.token \in granted[read.run]
        /\ read.token \in Tokens
    BY <1>1 DEF RunsInv, TypeOK, Read, ReadInv
  <2>2. read.token \in granted'[read.run]
    BY <1>1, <2>1
  <2>3. run'[read.run].token = read.token => run[read.run].token = read.token
    <3>1. read.run \in batch \ spent => t # read.token
      BY <1>1, <2>1 DEF Issued
    <3> HIDE DEF spent
    <3> QED
      BY <1>2, <2>1, <3>1
  <2> QED
    BY <1>1, <1>2, <2>1, <2>2, <2>3 DEF ReadInv
<1> QED
  BY <1>2, <1>3, <1>4 DEF RunsInv

LEMMA NextPreserves == RunsInv /\ [Next]_vars => RunsInv'
<1> SUFFICES ASSUME RunsInv, [Next]_vars PROVE RunsInv'
  OBVIOUS
<1>1. CASE \E batch \in SUBSET Runs, t \in Tokens : ClaimReady(batch, t)
  BY <1>1, ClaimPreserves
<1>2. ASSUME NEW r \in Runs, NEW t \in Tokens, WorkerCall(r, t) PROVE RunsInv'
  BY <1>2, WorkerWritePreserves, ReleasePreserves DEF WorkerCall
<1>3. ASSUME NEW r \in Runs, NEW t \in Tokens, AnswerCall(r, t) PROVE RunsInv'
  BY <1>3, AnswerPreserves
<1>4. CASE \E read \in reads : ReleaseWrite(read) \/ ReleaseLost(read)
  BY <1>4, ReleasePreserves
<1>5. ASSUME NEW r \in Runs, ReportCall(r) \/ TimePasses(r) PROVE RunsInv'
  BY <1>5, ReportPreserves, TimePreserves
<1>6. CASE UNCHANGED vars
  BY <1>6 DEF vars, RunsInv, TypeOK, ReadInv
<1> QED
  BY <1>1, <1>2, <1>3, <1>4, <1>5, <1>6 DEF Next

-----------------------------------------------------------------------------
\* The invariant of the store, for every value of the constants.
THEOREM Invariance == Spec => []RunsInv
  BY InitRunsInv, NextPreserves, PTL DEF Spec

\* A row only ever holds values of the columns' types.
THEOREM TypeCorrect == Spec => []TypeOK
<1>1. RunsInv => TypeOK
  BY DEF RunsInv
<1> QED
  BY <1>1, Invariance, PTL

\* However ticks, late workers and releases interleave, a run is handed out
\* at most MaxAttempts times, each time under a token of its own.
THEOREM BoundedAttempts == Spec => []AttemptsAreLeases
<1>1. RunsInv => AttemptsAreLeases
  BY DEF RunsInv, LeaseInv, AttemptsAreLeases
<1> QED
  BY <1>1, Invariance, PTL

\* An outcome, the loss of the lease and a decision about the report always
\* come together.
THEOREM FinishedRowsAgree == Spec => []FinishedMeansOutcome
<1>1. RunsInv => FinishedMeansOutcome
  BY DEF RunsInv, EndingInv, FinishedMeansOutcome
<1> QED
  BY <1>1, Invariance, PTL

-----------------------------------------------------------------------------
\* What a step does to one row: a tick and a release are spelled out, every
\* other call is one of its own.
LEMMA StepOfRow ==
  ASSUME RunsInv, [Next]_vars, NEW r \in Runs
  PROVE  \/ run'[r] = run[r]
         \/ \E t \in Tokens \ granted[r] :
               Ready(run[r]) /\ run[r].attempts < MaxAttempts /\ run'[r] = Claimed(run[r], t)
         \/ Ready(run[r]) /\ run[r].attempts >= MaxAttempts /\ run'[r] = Exhausted(run[r])
         \/ \E read \in reads :
               read.run = r /\ read.token = run[r].token /\ run'[r] = Released(run[r], read)
         \/ \E t \in Tokens : WorkerCall(r, t) \/ AnswerCall(r, t)
         \/ ReportCall(r) \/ TimePasses(r)
<1>0. run \in [Runs -> Row]
  BY DEF RunsInv, TypeOK
<1>1. ASSUME NEW batch \in SUBSET Runs, NEW t \in Tokens, ClaimReady(batch, t)
      PROVE  \/ run'[r] = run[r]
             \/ /\ t \notin granted[r] /\ Ready(run[r]) /\ run[r].attempts < MaxAttempts
                /\ run'[r] = Claimed(run[r], t)
             \/ Ready(run[r]) /\ run[r].attempts >= MaxAttempts /\ run'[r] = Exhausted(run[r])
  <2>1. run[r].attempts \in Nat
    BY <1>0 DEF Row
  <2> QED
    BY <1>1, <2>1 DEF ClaimReady, Issued
<1>2. ASSUME NEW q \in Runs, NEW t \in Tokens, WorkerCall(q, t), q # r
      PROVE  run'[r] = run[r]
  BY <1>0, <1>2
     DEF WorkerCall, SetSession, MarkStarted, WaitForInput, Defer, Complete, ReleaseRead, Write
<1>3. ASSUME NEW q \in Runs, NEW t \in Tokens, AnswerCall(q, t), q # r
      PROVE  run'[r] = run[r]
  BY <1>0, <1>3 DEF AnswerCall, ClaimInput, RestoreInput, FinishInput, Write
<1>4. ASSUME NEW read \in reads, ReleaseWrite(read) \/ ReleaseLost(read)
      PROVE  \/ run'[r] = run[r]
             \/ /\ read.run = r /\ read.token = run[r].token
                /\ run'[r] = Released(run[r], read)
  BY <1>0, <1>4 DEF ReleaseWrite, ReleaseLost
<1>5. ASSUME NEW q \in Runs, ReportCall(q), q # r PROVE run'[r] = run[r]
  BY <1>0, <1>5
     DEF ReportCall, ClaimReport, ReleaseReport, FinalizeReport, RecoverReport, NativeReport,
         Write
<1>6. ASSUME NEW q \in Runs, TimePasses(q), q # r PROVE run'[r] = run[r]
  BY <1>0, <1>6 DEF TimePasses, Reaches, Write
<1>7. CASE UNCHANGED vars
  BY <1>7 DEF vars
<1>8. CASE Next
  BY <1>1, <1>2, <1>3, <1>4, <1>5, <1>6, <1>8 DEF Next
<1> QED
  BY <1>7, <1>8

\* A call with a lease token finds no finished row, because a finished row
\* has none.
LEMMA NoCallAfterEnd ==
  ASSUME RunsInv, NEW r \in Runs, Terminal(run[r])
  PROVE  /\ ~Ready(run[r])
         /\ \A t \in Tokens : ~WorkerCall(r, t) /\ ~AnswerCall(r, t)
         /\ \A read \in reads : read.run = r => read.token # run[r].token
<1>1. run[r].token = None /\ run[r].status \in {"completed", "dead_letter"}
  BY RowFacts DEF EndingInv, Terminal
<1>2. None \notin Tokens
  OBVIOUS
<1>3. \A read \in reads : read.token \in granted[read.run] /\ read.run \in Runs
  BY DEF RunsInv, ReadInv, TypeOK, Read
<1>4. granted[r] \subseteq Tokens
  BY DEF RunsInv, TypeOK
<1> QED
  BY <1>1, <1>2, <1>3, <1>4
     DEF Ready, WorkerCall, SetSession, MarkStarted, WaitForInput, Defer, Complete,
         ReleaseRead, AnswerCall, ClaimInput, RestoreInput, FinishInput, Holds

\* A report call or the passage of time only touches the report columns and
\* the clocks of its row.
LEMMA QuietColumns ==
  ASSUME RunsInv, NEW r \in Runs, ReportCall(r) \/ TimePasses(r)
  PROVE  /\ run'[r].status = run[r].status /\ run'[r].attempts = run[r].attempts
         /\ run'[r].token = run[r].token /\ run'[r].outcome = run[r].outcome
         /\ run'[r].seq = run[r].seq /\ run'[r].question = run[r].question
         /\ run'[r].session = run[r].session /\ run'[r].deferred = run[r].deferred
         /\ \A q \in Runs \ {r} : run'[q] = run[q]
         /\ UNCHANGED <<granted, reads>>
<1>0. run \in [Runs -> Row] /\ run[r] \in Row
  BY DEF RunsInv, TypeOK
<1>1. ASSUME NEW p \in ReportTokens, ClaimReport(r, p)
      PROVE  run'[r] = [run[r] EXCEPT !.reportLease = "future", !.reportToken = p,
                                      !.report = "queued"]
  BY <1>0, <1>1 DEF ClaimReport, Write
<1>2. ASSUME NEW p \in ReportTokens, NEW status \in {"delivered", "suppressed"},
             ReleaseReport(r, p) \/ FinalizeReport(r, p, status) \/ RecoverReport(r)
      PROVE  \E settled \in {"pending", status} :
                run'[r] = [run[r] EXCEPT !.reportLease = "none", !.reportToken = None,
                                         !.report = settled]
  BY <1>0, <1>2 DEF ReleaseReport, FinalizeReport, RecoverReport, Write
<1>3. ASSUME RecoverReport(r)
      PROVE  run'[r] = [run[r] EXCEPT !.reportLease = "none", !.reportToken = None,
                                      !.report = "pending"]
  BY <1>0, <1>3 DEF RecoverReport, Write
<1>4. ASSUME NEW status, NativeReport(r, status)
      PROVE  run'[r] = [run[r] EXCEPT !.report = status]
  BY <1>0, <1>4 DEF NativeReport, Write
<1>5. PICK row : Write(r, row)
  BY DEF ReportCall, ClaimReport, ReleaseReport, FinalizeReport, RecoverReport, NativeReport,
         TimePasses, Reaches
<1>6. (\A q \in Runs \ {r} : run'[q] = run[q]) /\ UNCHANGED <<granted, reads>>
  BY <1>0, <1>5 DEF Write
<1>7. CASE ReportCall(r)
  <2>1. \/ \E p : run'[r] = [run[r] EXCEPT !.reportLease = "future", !.reportToken = p,
                                           !.report = "queued"]
        \/ \E settled : run'[r] = [run[r] EXCEPT !.reportLease = "none",
                                                 !.reportToken = None, !.report = settled]
        \/ \E status : run'[r] = [run[r] EXCEPT !.report = status]
    BY <1>1, <1>2, <1>3, <1>4, <1>7 DEF ReportCall
  <2>2. /\ run'[r].status = run[r].status /\ run'[r].attempts = run[r].attempts
        /\ run'[r].token = run[r].token /\ run'[r].outcome = run[r].outcome
        /\ run'[r].seq = run[r].seq
    BY <1>0, <2>1 DEF Row
  <2>3. /\ run'[r].question = run[r].question /\ run'[r].session = run[r].session
        /\ run'[r].deferred = run[r].deferred
    BY <1>0, <2>1 DEF Row
  <2> QED
    BY <1>6, <2>2, <2>3
<1>8. CASE TimePasses(r)
  <2>1. CASE Reaches("lease", r)
    <3>1. run'[r] = [run[r] EXCEPT !.lease = "reached"]
      BY <1>0, <2>1 DEF Reaches, Write
    <3> QED
      BY <1>0, <1>6, <3>1 DEF Row
  <2>2. CASE Reaches("retry", r)
    <3>1. run'[r] = [run[r] EXCEPT !.retry = "reached"]
      BY <1>0, <2>2 DEF Reaches, Write
    <3> QED
      BY <1>0, <1>6, <3>1 DEF Row
  <2>3. CASE Reaches("reportLease", r)
    <3>1. run'[r] = [run[r] EXCEPT !.reportLease = "reached"]
      BY <1>0, <2>3 DEF Reaches, Write
    <3> QED
      BY <1>0, <1>6, <3>1 DEF Row
  <2> QED
    BY <1>8, <2>1, <2>2, <2>3 DEF TimePasses
<1> QED
  BY <1>7, <1>8

\* What a call with a lease token leaves of the row, for the properties that
\* relate two states.
LEMMA WorkerRow ==
  ASSUME RunsInv, NEW r \in Runs, NEW t \in Tokens, WorkerCall(r, t)
  PROVE  \/ run'[r] = run[r]
         \/ /\ Holds(run[r], t) /\ run'[r].status = "running"
            /\ run'[r].attempts = run[r].attempts /\ run'[r].token = run[r].token
            /\ run'[r].outcome = run[r].outcome /\ run'[r].seq = run[r].seq
         \/ /\ Holds(run[r], t) /\ run'[r].status = "waiting_for_input"
            /\ run'[r].attempts = run[r].attempts /\ run'[r].token = run[r].token
            /\ run'[r].outcome = run[r].outcome /\ run'[r].seq = run[r].seq + 1
         \/ /\ Holds(run[r], t) /\ run'[r].status = "completed"
            /\ run'[r].attempts = run[r].attempts /\ run'[r].token = None
            /\ \/ run'[r].outcome = "result" /\ run'[r].seq = run[r].seq + 1
               \/ run'[r].outcome = "nothing_to_report" /\ run'[r].seq = run[r].seq
<1>0. run \in [Runs -> Row] /\ run[r] \in Row
  BY DEF RunsInv, TypeOK
<1> DEFINE GoesOn == /\ Holds(run[r], t) /\ run'[r].status = "running"
                     /\ run'[r].attempts = run[r].attempts /\ run'[r].token = run[r].token
                     /\ run'[r].outcome = run[r].outcome /\ run'[r].seq = run[r].seq
<1>1. ASSUME NEW s \in Sessions, SetSession(r, t, s) PROVE GoesOn
  BY <1>0, <1>1 DEF SetSession, Holds, Write, Row
<1>2. ASSUME NEW s \in Sessions, MarkStarted(r, t, s) PROVE GoesOn
  BY <1>0, <1>2 DEF MarkStarted, Holds, Write, Row
<1>3. ASSUME WaitForInput(r, t)
      PROVE  /\ Holds(run[r], t) /\ run'[r].status = "waiting_for_input"
             /\ run'[r].attempts = run[r].attempts /\ run'[r].token = run[r].token
             /\ run'[r].outcome = run[r].outcome /\ run'[r].seq = run[r].seq + 1
  BY <1>0, <1>3 DEF WaitForInput, Write, Row
<1>4. ASSUME NEW turn \in Turns, Defer(r, t, turn) PROVE GoesOn
  BY <1>0, <1>4 DEF Defer, Holds, Write, Row
<1>5. ASSUME NEW turn \in Turns, NEW kind \in {"result", "nothing_to_report"},
             Complete(r, t, turn, kind)
      PROVE  /\ Holds(run[r], t) /\ run'[r].status = "completed"
             /\ run'[r].attempts = run[r].attempts /\ run'[r].token = None
             /\ run'[r].outcome = kind
             /\ run'[r].seq = IF kind = "nothing_to_report" THEN run[r].seq
                              ELSE run[r].seq + 1
  BY <1>0, <1>5 DEF Complete, Completed, Write, Row
<1>6. ASSUME NEW by \in Callers, ReleaseRead(r, t, by) PROVE run'[r] = run[r]
  BY <1>6 DEF ReleaseRead
<1> QED
  BY <1>1, <1>2, <1>3, <1>4, <1>5, <1>6 DEF WorkerCall

\* The answer route moves a run between waiting and running, and keeps the
\* columns the promise speaks of.
LEMMA AnswerRow ==
  ASSUME RunsInv, NEW r \in Runs, NEW t \in Tokens, AnswerCall(r, t)
  PROVE  /\ run'[r].attempts = run[r].attempts /\ run'[r].token = run[r].token
         /\ run'[r].outcome = run[r].outcome /\ run'[r].seq = run[r].seq
         /\ \/ run[r].status = "waiting_for_input" /\ run'[r].status = "running"
            \/ run[r].status = "running" /\ run'[r].status \in {"running", "waiting_for_input"}
<1>0. run \in [Runs -> Row] /\ run[r] \in Row
  BY DEF RunsInv, TypeOK
<1>1. CASE ClaimInput(r, t)
  BY <1>0, <1>1 DEF ClaimInput, Write, Row
<1>2. CASE RestoreInput(r, t)
  BY <1>0, <1>2 DEF RestoreInput, Holds, Write, Row
<1>3. CASE FinishInput(r, t)
  BY <1>0, <1>3 DEF FinishInput, Holds, Write, Row
<1> QED
  BY <1>1, <1>2, <1>3 DEF AnswerCall

\* Nothing a late caller does changes the status, outcome or attempts of a
\* finished run.
THEOREM EndingIsFinal == Spec => FinishedIsFinal
<1>1. ASSUME RunsInv, [Next]_vars, NEW r \in Runs, Terminal(run[r])
      PROVE  /\ run'[r].status = run[r].status
             /\ run'[r].outcome = run[r].outcome
             /\ run'[r].attempts = run[r].attempts
  <2>1. \/ run'[r] = run[r]
        \/ ReportCall(r) \/ TimePasses(r)
    BY <1>1, StepOfRow, NoCallAfterEnd
  <2> QED
    BY <2>1, <1>1, QuietColumns
<1>2. RunsInv /\ [Next]_vars =>
      [\A r \in Runs : Terminal(run[r]) =>
          /\ run'[r].status = run[r].status
          /\ run'[r].outcome = run[r].outcome
          /\ run'[r].attempts = run[r].attempts]_vars
  BY <1>1
<1> QED
  BY <1>2, Invariance, PTL DEF Spec, FinishedIsFinal
\* A superseded worker stays fenced: a row never carries a token it lost.
THEOREM FencedForGood == Spec => LostLeaseStaysLost
<1>1. ASSUME RunsInv, [Next]_vars, NEW r \in Runs, NEW t \in granted[r], run[r].token # t
      PROVE  run'[r].token # t
  <2>0. run[r] \in Row /\ t \in Tokens /\ t # None
    BY <1>1 DEF RunsInv, TypeOK
  <2>1. CASE \E u \in Tokens \ granted[r] : run'[r] = Claimed(run[r], u)
    BY <1>1, <2>0, <2>1 DEF Claimed, Row
  <2>2. CASE run'[r] = Exhausted(run[r])
    BY <2>0, <2>2 DEF Exhausted, Row
  <2>3. CASE \E read \in reads : run'[r] = Released(run[r], read)
    BY <2>0, <2>3 DEF Released, Row
  <2>4. ASSUME NEW u \in Tokens, WorkerCall(r, u) PROVE run'[r].token \in {run[r].token, None}
    BY <1>1, <2>4, WorkerRow
  <2>5. ASSUME NEW u \in Tokens, AnswerCall(r, u) PROVE run'[r].token = run[r].token
    BY <1>1, <2>5, AnswerRow
  <2>6. CASE ReportCall(r) \/ TimePasses(r)
    BY <1>1, <2>6, QuietColumns
  <2> QED
    BY <1>1, <2>0, <2>1, <2>2, <2>3, <2>4, <2>5, <2>6, StepOfRow
<1>2. RunsInv /\ [Next]_vars =>
      [\A r \in Runs : \A t \in granted[r] :
          run[r].token # t => run'[r].token # t]_vars
  BY <1>1
<1> QED
  BY <1>2, Invariance, PTL DEF Spec, LostLeaseStaysLost

\* The report of a finished run, once delivered or suppressed, has no lease
\* left that could put it back in line.
THEOREM ReportSettlesOnce == Spec => SettledReportStays
<1>1. ASSUME RunsInv, [Next]_vars, NEW r \in Runs, Terminal(run[r]),
             run[r].report \in {"delivered", "suppressed"}
      PROVE  run'[r].report = run[r].report
  <2>0. run[r] \in Row /\ run \in [Runs -> Row] /\ run[r].reportToken = None
    BY <1>1, RowFacts DEF RunsInv, TypeOK, ReportInv
  <2>1. CASE ReportCall(r)
    BY <1>1, <2>0, <2>1
       DEF ReportCall, ClaimReport, ReleaseReport, FinalizeReport, RecoverReport, NativeReport
  <2>2. CASE TimePasses(r)
    BY <2>0, <2>2 DEF TimePasses, Reaches, Write, Row
  <2> QED
    BY <1>1, <2>1, <2>2, StepOfRow, NoCallAfterEnd
<1>2. RunsInv /\ [Next]_vars =>
      [\A r \in Runs :
          Terminal(run[r]) /\ run[r].report \in {"delivered", "suppressed"} =>
              run'[r].report = run[r].report]_vars
  BY <1>1
<1> QED
  BY <1>2, Invariance, PTL DEF Spec, SettledReportStays
-----------------------------------------------------------------------------
\* The promised columns of a row that was given up, and of one that was released.
LEMMA GivenUpFields ==
  ASSUME NEW row \in Row
  PROVE  /\ Exhausted(row).status = "dead_letter" /\ Exhausted(row).attempts = row.attempts
         /\ Exhausted(row).outcome = "blocked" /\ Exhausted(row).seq = row.seq + 1
  BY DEF Exhausted, Row

LEMMA ReleasedFields ==
  ASSUME NEW row \in Row, NEW read \in Read
  PROVE  /\ Released(row, read).attempts = row.attempts
         /\ read.attempts >= MaxAttempts =>
               /\ Released(row, read).status = "dead_letter"
               /\ Released(row, read).outcome = "blocked"
               /\ Released(row, read).seq = row.seq + 1
         /\ ~(read.attempts >= MaxAttempts) =>
               /\ Released(row, read).status = "queued"
               /\ Released(row, read).outcome = read.outcome
               /\ Released(row, read).seq = row.seq
<1>1. CASE read.attempts >= MaxAttempts
  BY <1>1 DEF Released, Row
<1>2. CASE ~(read.attempts >= MaxAttempts)
  BY <1>2 DEF Released, Row
<1> QED
  BY <1>1, <1>2

\* The rows keep the promise made to the owner of the schedule: RunPromise,
\* under the mapping given in ScheduledRuns.
THEOREM PromiseKept == Spec => KeepsPromise
<1>1. Init => Promise!PromiseInit
  BY DEF Init, QueuedRow, PhaseOf, Promise!PromiseInit
<1>2. ASSUME RunsInv, [Next]_vars, NEW r \in Runs
      PROVE  \/ Promise!Try(r) \/ Promise!AskUser(r) \/ Promise!Answer(r) \/ Promise!Retry(r)
             \/ Promise!Finish(r) \/ Promise!GiveUp(r) \/ Promise!Still(r)
  <2> USE DEF PhaseOf
  <2>0. /\ run[r] \in Row /\ LeaseInv(run[r], granted[r]) /\ EndingInv(run[r])
    BY <1>2, RowFacts
  <2>1. CASE run'[r] = run[r]
    BY <2>1 DEF Promise!Still
  <2>2. ASSUME NEW t \in Tokens, Ready(run[r]), run[r].attempts < MaxAttempts,
               run'[r] = Claimed(run[r], t)
        PROVE  Promise!Try(r)
    BY <2>0, <2>2 DEF Ready, Claimed, Row, Promise!Try, Promise!Goes
  <2>3. CASE Ready(run[r]) /\ run[r].attempts >= MaxAttempts /\ run'[r] = Exhausted(run[r])
    <3>1. /\ run[r].status = "running" /\ run[r].attempts = MaxAttempts
      BY <2>0, <2>3 DEF Ready, LeaseInv, Row
    <3> QED
      BY <2>0, <2>3, <3>1, GivenUpFields DEF Promise!GiveUp, Promise!Goes, Promise!Opens
  <2>4. ASSUME NEW read \in reads, read.run = r, read.token = run[r].token,
               run'[r] = Released(run[r], read)
        PROVE  Promise!Retry(r) \/ Promise!GiveUp(r)
    <3>1. /\ read \in Read /\ read.token \in Tokens
          /\ read.attempts = run[r].attempts /\ read.outcome = None
      BY <1>2, <2>4 DEF RunsInv, TypeOK, Read, ReadInv
    <3>2. /\ run[r].status \in {"running", "waiting_for_input"} /\ run[r].outcome = None
          /\ run[r].attempts <= MaxAttempts /\ run[r].attempts \in Nat
      BY <2>0, <2>4, <3>1 DEF LeaseInv, EndingInv, Terminal, Row
    <3>3. CASE read.attempts >= MaxAttempts
      <4>1. run[r].attempts = MaxAttempts
        BY <3>1, <3>2, <3>3
      <4> QED
        BY <2>0, <2>4, <3>1, <3>2, <3>3, <4>1, ReleasedFields
           DEF Promise!GiveUp, Promise!Goes, Promise!Opens
    <3>4. CASE ~(read.attempts >= MaxAttempts)
      <4>1. run[r].attempts < MaxAttempts
        BY <3>1, <3>2, <3>4
      <4> QED
        BY <2>0, <2>4, <3>1, <3>2, <3>4, <4>1, ReleasedFields
           DEF Promise!Retry, Promise!Goes
    <3> QED
      BY <3>3, <3>4
  <2>5. ASSUME NEW t \in Tokens, WorkerCall(r, t)
        PROVE  Promise!Still(r) \/ Promise!AskUser(r) \/ Promise!Finish(r)
    BY <1>2, <2>5, WorkerRow
       DEF Holds, Promise!Still, Promise!AskUser, Promise!Finish, Promise!Goes, Promise!Opens
  <2>6. ASSUME NEW t \in Tokens, AnswerCall(r, t) PROVE Promise!Still(r) \/ Promise!Answer(r)
    BY <1>2, <2>6, AnswerRow DEF Promise!Still, Promise!Answer, Promise!Goes
  <2>7. CASE ReportCall(r) \/ TimePasses(r)
    BY <1>2, <2>7, QuietColumns DEF Promise!Still
  <2> QED
    BY <1>2, <2>1, <2>2, <2>3, <2>4, <2>5, <2>6, <2>7, StepOfRow
<1>3. RunsInv /\ [Next]_vars => [Promise!PromiseNext]_(Promise!promise)
  BY <1>2 DEF Promise!PromiseNext
<1> QED
  BY <1>1, <1>3, Invariance, PTL DEF Spec, KeepsPromise, Promise!PromiseSpec

-----------------------------------------------------------------------------
(***************************************************************************)
(* The tick, the session hooks and the answer route use the store as       *)
(* ScheduledRuns allows, for any number of runs, attempts, answers and     *)
(* background tasks and any faults, so the theorems above hold of the      *)
(* composition.                                                            *)
(*                                                                         *)
(* What has to be shown is that every call of the composition names a      *)
(* lease: a turn without one would release any row that has no token.  A   *)
(* turn takes its lease from the message that began it or from the         *)
(* session's initiator, so no turn may outlive its session.                *)
(***************************************************************************)

TaskCount == [delegated: Nat, waiting: Nat]

\* Messages, turns and tasks belong to a session that is still at the address,
\* and a turn that calls the model has an identifier.
Rooted(a, box, w, k) ==
    /\ a = None => box = <<>> /\ w.phase = "idle" /\ k.waiting = 0
    /\ w.phase \in {"model", "step"} => w.turn \in Turns

SessionsOK ==
    /\ address \in [Runs -> Sessions \cup {None}]
    /\ inbox \in [Runs -> Seq(Tokens)]
    /\ worker \in [Runs -> Worker]
    /\ tasks \in [Runs -> TaskCount]
    /\ \A r \in Runs : Rooted(address[r], inbox[r], worker[r], tasks[r])

DispatchesOK ==
    /\ dispatch \in [Runs -> [Tokens -> Dispatch]]
    /\ \A r \in Runs, t \in Tokens :
          dispatch[r][t].phase = "sent" => dispatch[r][t].session \in Sessions

AnswersOK ==
    /\ answer \in [Answers -> Answer]
    /\ \A a \in Answers : answer[a].phase # "idle" =>
          answer[a].run \in Runs /\ answer[a].token \in Tokens

CallersOK == SessionsOK /\ DispatchesOK /\ AnswersOK

-----------------------------------------------------------------------------
(***************************************************************************)
(* Updates of one entry.                                                   *)
(***************************************************************************)
Becoming(f, x, v) == \/ f' = f /\ v = f[x]
                     \/ f' = [f EXCEPT ![x] = v]

LEMMA SessionMoves ==
    ASSUME SessionsOK, NEW r \in Runs,
           NEW a \in Sessions \cup {None}, NEW box \in Seq(Tokens), NEW w \in Worker,
           NEW k \in TaskCount, Rooted(a, box, w, k),
           Becoming(address, r, a), Becoming(inbox, r, box),
           Becoming(worker, r, w), Becoming(tasks, r, k)
    PROVE  SessionsOK'
<1>0. /\ address \in [Runs -> Sessions \cup {None}] /\ inbox \in [Runs -> Seq(Tokens)]
      /\ worker \in [Runs -> Worker] /\ tasks \in [Runs -> TaskCount]
  BY DEF SessionsOK
<1>1. /\ address' \in [Runs -> Sessions \cup {None}] /\ address'[r] = a
      /\ \A q \in Runs : q # r => address'[q] = address[q]
  <2> (address' = address /\ a = address[r]) \/ address' = [address EXCEPT ![r] = a]
    BY DEF Becoming
  <2> QED
    BY <1>0
<1>2. /\ inbox' \in [Runs -> Seq(Tokens)] /\ inbox'[r] = box
      /\ \A q \in Runs : q # r => inbox'[q] = inbox[q]
  <2> (inbox' = inbox /\ box = inbox[r]) \/ inbox' = [inbox EXCEPT ![r] = box]
    BY DEF Becoming
  <2> QED
    BY <1>0
<1>3. /\ worker' \in [Runs -> Worker] /\ worker'[r] = w
      /\ \A q \in Runs : q # r => worker'[q] = worker[q]
  <2> (worker' = worker /\ w = worker[r]) \/ worker' = [worker EXCEPT ![r] = w]
    BY DEF Becoming
  <2> QED
    BY <1>0
<1>4. /\ tasks' \in [Runs -> TaskCount] /\ tasks'[r] = k
      /\ \A q \in Runs : q # r => tasks'[q] = tasks[q]
  <2> (tasks' = tasks /\ k = tasks[r]) \/ tasks' = [tasks EXCEPT ![r] = k]
    BY DEF Becoming
  <2> QED
    BY <1>0
<1>5. \A q \in Runs : Rooted(address'[q], inbox'[q], worker'[q], tasks'[q])
  BY <1>1, <1>2, <1>3, <1>4 DEF SessionsOK
<1> QED BY <1>1, <1>2, <1>3, <1>4, <1>5 DEF SessionsOK

LEMMA SessionFacts ==
    ASSUME SessionsOK, NEW r \in Runs
    PROVE  /\ address[r] \in Sessions \cup {None} /\ inbox[r] \in Seq(Tokens)
           /\ worker[r] \in Worker /\ tasks[r] \in TaskCount
           /\ Rooted(address[r], inbox[r], worker[r], tasks[r])
BY DEF SessionsOK

LEMMA SameSessions ==
    ASSUME SessionsOK, UNCHANGED <<address, inbox, worker, tasks>>
    PROVE  SessionsOK'
BY DEF SessionsOK

LEMMA SameDispatches == DispatchesOK /\ dispatch' = dispatch => DispatchesOK'
BY DEF DispatchesOK

LEMMA SameAnswers == AnswersOK /\ answer' = answer => AnswersOK'
BY DEF AnswersOK

LEMMA DispatchMoves ==
    ASSUME DispatchesOK, NEW r \in Runs, NEW t \in Tokens, NEW new \in Dispatch,
           new.phase = "sent" => new.session \in Sessions,
           dispatch' = [dispatch EXCEPT ![r][t] = new]
    PROVE  DispatchesOK'
<1>1. /\ dispatch' \in [Runs -> [Tokens -> Dispatch]] /\ dispatch'[r][t] = new
      /\ \A q \in Runs, u \in Tokens : q # r \/ u # t => dispatch'[q][u] = dispatch[q][u]
  BY DEF DispatchesOK
<1> QED BY <1>1 DEF DispatchesOK

LEMMA AnswerMoves ==
    ASSUME AnswersOK, NEW a \in Answers, NEW new \in Answer, answer' = [answer EXCEPT ![a] = new],
           new.phase # "idle" => new.run \in Runs /\ new.token \in Tokens
    PROVE  AnswersOK'
BY DEF AnswersOK

\* Whatever is asked of the store under a lease token is one of its calls.
LEMMA CallsStore ==
    ASSUME NEW r \in Runs, NEW t \in Tokens,
           RunUnchanged \/ WorkerCall(r, t) \/ AnswerCall(r, t)
    PROVE  [Next]_vars
BY DEF Next, RunUnchanged, vars

LEMMA ReleaseCalls ==
    ASSUME NEW r \in Runs, NEW t \in Tokens, NEW by \in Callers, Release(r, t, by)
    PROVE  [Next]_vars
BY CallsStore DEF Release, WorkerCall

-----------------------------------------------------------------------------
(***************************************************************************)
(* The tick and its dispatches.                                            *)
(***************************************************************************)
LEMMA TickKept ==
    ASSUME CallersOK, NEW batch \in SUBSET Runs, NEW t \in Tokens, Tick(batch, t)
    PROVE  CallersOK' /\ [Next]_vars
<1> DEFINE new(r) == [phase |-> "claimed", restart |-> run[r].session # None, session |-> None]
<1>1. \A r \in Runs : new(r) \in Dispatch /\ new(r).phase # "sent"
  BY DEF Dispatch
<1>2. /\ dispatch \in [Runs -> [Tokens -> Dispatch]]
      /\ dispatch' = [r \in Runs |->
            IF r \in batch /\ run[r].attempts < MaxAttempts
            THEN [dispatch[r] EXCEPT ![t] = new(r)] ELSE dispatch[r]]
  BY DEF Tick, CallersOK, DispatchesOK
<1> HIDE DEF new
<1>3. ASSUME NEW r \in Runs
      PROVE  /\ dispatch'[r] \in [Tokens -> Dispatch]
             /\ \A u \in Tokens : dispatch'[r][u] = dispatch[r][u] \/ dispatch'[r][u] = new(r)
  BY <1>1, <1>2
<1>4. DispatchesOK'
  <2>1. dispatch' \in [Runs -> [Tokens -> Dispatch]]
    BY <1>2, <1>3
  <2> QED BY <1>1, <1>3, <2>1 DEF CallersOK, DispatchesOK
<1>5. SessionsOK' /\ AnswersOK'
  BY SameSessions, SameAnswers DEF Tick, CallersOK
<1>6. Next
  BY DEF Tick, Next
<1> QED BY <1>4, <1>5, <1>6 DEF CallersOK

LEMMA DeliverKept ==
    ASSUME CallersOK, NEW r \in Runs, NEW t \in Tokens, NEW phase \in {"sent", "refused"},
           Deliver(r, t, phase), UNCHANGED answer
    PROVE  CallersOK'
<1> USE SessionsAreDispatches
<1> DEFINE fresh == dispatch[r][t].restart \/ address[r] = None
           s == IF fresh THEN t ELSE address[r]
           new == [dispatch[r][t] EXCEPT !.phase = phase, !.session = s]
           box == IF fresh THEN <<t>> ELSE Append(inbox[r], t)
           w == IF fresh THEN IdleWorker ELSE worker[r]
           k == IF fresh THEN [tasks[r] EXCEPT !.waiting = 0] ELSE tasks[r]
<1>1. /\ address[r] \in Sessions \cup {None} /\ inbox[r] \in Seq(Tokens)
      /\ worker[r] \in Worker /\ tasks[r] \in TaskCount
      /\ Rooted(address[r], inbox[r], worker[r], tasks[r])
  BY SessionFacts DEF CallersOK
<1>2. s \in Sessions
  BY <1>1
<1>3. box \in Seq(Tokens)
  BY <1>1
<1>4. IdleWorker \in Worker /\ IdleWorker.phase = "idle"
  BY DEF IdleWorker, Worker, Phase
<1>5. w \in Worker /\ k \in TaskCount
  BY <1>1, <1>4 DEF TaskCount
<1>6. Rooted(s, box, w, k)
  <2>1. s # None
    BY <1>2, NoneAssumption
  <2>2. w = IdleWorker \/ w = worker[r]
    OBVIOUS
  <2> HIDE DEF s, box, w, k
  <2>3. w.phase \in {"model", "step"} => w.turn \in Turns
    BY <1>1, <1>4, <2>2 DEF Rooted
  <2> QED BY <2>1, <2>3 DEF Rooted
<1>7. /\ address' = [address EXCEPT ![r] = s]
      /\ inbox' = [inbox EXCEPT ![r] = box]
      /\ dispatch' = [dispatch EXCEPT ![r][t].phase = phase, ![r][t].session = s]
  BY DEF Deliver, CallersOK, SessionsOK
<1>8. Becoming(worker, r, w) /\ Becoming(tasks, r, k)
  BY DEF Deliver, Becoming, CallersOK, SessionsOK
<1>9. dispatch[r][t] \in Dispatch
  BY DEF CallersOK, DispatchesOK
<1>10. new \in Dispatch /\ new.session = s
  BY <1>2, <1>9 DEF Dispatch
<1>11. dispatch' = [dispatch EXCEPT ![r][t] = new]
  BY <1>7, <1>9 DEF CallersOK, DispatchesOK, Dispatch
<1> HIDE DEF s, box, w, k, new
<1>12. SessionsOK'
  BY <1>2, <1>3, <1>5, <1>6, <1>7, <1>8, SessionMoves DEF Becoming, CallersOK
<1>13. DispatchesOK'
  BY <1>2, <1>10, <1>11, DispatchMoves DEF CallersOK
<1> QED BY <1>12, <1>13, SameAnswers DEF CallersOK

\* The session ends with all that belongs to it.
LEMMA EndedSession ==
    ASSUME SessionsOK, NEW r \in Runs, SessionEnds(r)
    PROVE  SessionsOK'
<1> DEFINE k == [tasks[r] EXCEPT !.waiting = 0]
<1>1. IdleWorker \in Worker /\ IdleWorker.phase = "idle" /\ IdleWorker.phase \notin {"model", "step"}
  BY DEF IdleWorker, Worker, Phase
<1>2. k \in TaskCount /\ k.waiting = 0
  BY SessionFacts DEF TaskCount
<1>3. <<>> \in Seq(Tokens)
  OBVIOUS
<1>4. Rooted(None, <<>>, IdleWorker, k)
  BY <1>1, <1>2 DEF Rooted
<1>5. /\ Becoming(address, r, None) /\ Becoming(inbox, r, <<>>)
      /\ Becoming(worker, r, IdleWorker)
  BY DEF SessionEnds, Becoming
<1>6. Becoming(tasks, r, k)
  BY DEF SessionEnds, Becoming, SessionsOK
<1> HIDE DEF k
<1> QED BY <1>1, <1>2, <1>3, <1>4, <1>5, <1>6, SessionMoves

LEMMA DispatchOverIs ==
    DispatchOver \in Dispatch /\ DispatchOver.phase = "done"
BY DEF DispatchOver, NoDispatch, Dispatch

LEMMA DispatchKept ==
    ASSUME CallersOK, NEW r \in Runs, NEW t \in Tokens,
           DispatchStep(r, t) \/ DispatchCrash(r, t)
    PROVE  CallersOK' /\ [Next]_vars
<1>1. dispatch[r][t] \in Dispatch
  BY DEF CallersOK, DispatchesOK
<1>2. CASE Send(r, t) \/ SendUnknown(r, t)
  BY <1>2, DeliverKept, CallsStore DEF Send, SendUnknown
<1>3. CASE SendRefused(r, t)
  <2> DEFINE new == [dispatch[r][t] EXCEPT !.phase = "refused"]
  <2>1. new \in Dispatch /\ new.phase = "refused"
    BY <1>1 DEF Dispatch
  <2>2. dispatch' = [dispatch EXCEPT ![r][t] = new]
    BY <1>1, <1>3 DEF SendRefused, CallersOK, DispatchesOK, Dispatch
  <2> HIDE DEF new
  <2>3. DispatchesOK'
    BY <2>1, <2>2, DispatchMoves DEF CallersOK
  <2>4. SessionsOK'
    BY <1>3, SameSessions, EndedSession DEF SendRefused, CallersOK
  <2>5. AnswersOK' /\ RunUnchanged
    BY <1>3, SameAnswers DEF SendRefused, CallersOK
  <2> QED BY <2>3, <2>4, <2>5, CallsStore DEF CallersOK
<1>4. CASE PersistSession(r, t)
  <2> DEFINE s == dispatch[r][t].session
             new == IF SessionPersisted(run[r], t, s) THEN DispatchOver
                    ELSE [dispatch[r][t] EXCEPT !.phase = "refused"]
  <2>1. new \in Dispatch /\ new.phase # "sent"
    BY <1>1, DispatchOverIs DEF Dispatch
  <2>2. dispatch' = [dispatch EXCEPT ![r][t] = new]
    BY <1>1, <1>4 DEF PersistSession, CallersOK, DispatchesOK
  <2>3. s \in Sessions
    BY <1>4 DEF PersistSession, Dispatching, CallersOK, DispatchesOK
  <2>4. RunUnchanged \/ WorkerCall(r, t)
    BY <1>4, <2>3 DEF PersistSession, WorkerCall
  <2> HIDE DEF new, s
  <2>5. DispatchesOK'
    BY <2>1, <2>2, DispatchMoves DEF CallersOK
  <2>6. SessionsOK' /\ AnswersOK'
    BY <1>4, SameSessions, SameAnswers DEF PersistSession, CallersOK
  <2> QED BY <2>4, <2>5, <2>6, CallsStore DEF CallersOK
<1>5. CASE ReleaseDispatch(r, t) \/ DispatchCrash(r, t)
  <2>1. dispatch' = [dispatch EXCEPT ![r][t] = DispatchOver]
    BY <1>5 DEF ReleaseDispatch, DispatchCrash
  <2>2. DispatchesOK'
    BY <2>1, DispatchOverIs, DispatchMoves DEF CallersOK
  <2>3. SessionsOK' /\ AnswersOK'
    BY <1>5, SameSessions, SameAnswers DEF ReleaseDispatch, DispatchCrash, CallersOK
  <2>4. CASE ReleaseDispatch(r, t)
    BY <2>2, <2>3, <2>4, ReleaseCalls DEF ReleaseDispatch, CallersOK, Callers
  <2>5. CASE DispatchCrash(r, t)
    <3>1. RunUnchanged \/ \E read \in reads : ReleaseLost(read)
      BY <2>5 DEF DispatchCrash
    <3> QED BY <2>2, <2>3, <3>1 DEF CallersOK, Next, RunUnchanged, vars
  <2> QED BY <1>5, <2>4, <2>5
<1> QED BY <1>2, <1>3, <1>4, <1>5 DEF DispatchStep

-----------------------------------------------------------------------------
(***************************************************************************)
(* The session.                                                            *)
(***************************************************************************)

\* A turn that is under way has the lease of its message or of its session.
LEMMA TurnHasLease ==
    ASSUME SessionsOK, NEW r \in Runs,
           worker[r].phase # "idle" \/ inbox[r] # <<>> \/ tasks[r].waiting > 0
    PROVE  address[r] \in Sessions /\ Identity(r) \in Tokens
<1> USE SessionsAreDispatches
<1>1. /\ address[r] \in Sessions \cup {None} /\ worker[r] \in Worker
      /\ tasks[r] \in TaskCount
      /\ Rooted(address[r], inbox[r], worker[r], tasks[r])
  BY SessionFacts
<1>2. address[r] \in Sessions
  BY <1>1 DEF Rooted
<1>3. worker[r].current \in Tokens \cup {None}
  BY <1>1 DEF Worker
<1> QED BY <1>2, <1>3 DEF Identity

\* The session moves on within a turn, or between turns.
LEMMA WorkerMoves ==
    ASSUME CallersOK, NEW r \in Runs, address[r] \in Sessions, NEW w \in Worker,
           w.phase \in {"model", "step"} => w.turn \in Turns,
           NEW box \in Seq(Tokens), NEW k \in TaskCount,
           worker' = [worker EXCEPT ![r] = w],
           Becoming(inbox, r, box), Becoming(tasks, r, k),
           UNCHANGED <<dispatch, address, answer>>
    PROVE  CallersOK'
<1>1. Rooted(address[r], box, w, k)
  BY NoneAssumption DEF Rooted
<1>2. Becoming(address, r, address[r]) /\ Becoming(worker, r, w)
  BY DEF Becoming
<1>3. SessionsOK'
  BY <1>1, <1>2, SessionMoves DEF CallersOK
<1> QED BY <1>3, SameDispatches, SameAnswers DEF CallersOK

LEMMA BecomesKept ==
    ASSUME CallersOK, NEW r \in Runs, address[r] \in Sessions, NEW w \in Worker,
           w.phase \in {"model", "step"} => w.turn \in Turns,
           Becomes(r, w), NEW k \in TaskCount, Becoming(tasks, r, k)
    PROVE  CallersOK'
<1>1. inbox[r] \in Seq(Tokens) /\ Becoming(inbox, r, inbox[r])
  BY SessionFacts DEF CallersOK, Becomes, Becoming
<1> QED BY <1>1, WorkerMoves DEF Becomes

LEMMA MovesKept ==
    ASSUME CallersOK, NEW r \in Runs, address[r] \in Sessions, NEW phase \in Phase,
           phase \in {"model", "step"} => worker[r].turn \in Turns,
           Moves(r, phase), UNCHANGED tasks
    PROVE  CallersOK'
<1> DEFINE w == [worker[r] EXCEPT !.phase = phase]
<1>1. worker[r] \in Worker /\ tasks[r] \in TaskCount /\ Becoming(tasks, r, tasks[r])
  BY SessionFacts DEF CallersOK, Becoming
<1>2. w \in Worker /\ w.phase = phase /\ w.turn = worker[r].turn
  BY <1>1 DEF Worker
<1>3. Becomes(r, w)
  BY DEF Moves
<1> HIDE DEF w
<1> QED BY <1>1, <1>2, <1>3, BecomesKept

LEMMA IdleWorkerIs ==
    IdleWorker \in Worker /\ IdleWorker.phase = "idle"
BY DEF IdleWorker, Worker, Phase

LEMMA RestsKept ==
    ASSUME CallersOK, NEW r \in Runs, address[r] \in Sessions, Rests(r), UNCHANGED tasks
    PROVE  CallersOK'
<1>1. tasks[r] \in TaskCount /\ Becoming(tasks, r, tasks[r])
  BY SessionFacts DEF CallersOK, Becoming
<1> QED BY <1>1, IdleWorkerIs, BecomesKept DEF Rests

TurnOf(current, u) ==
    [phase |-> "model", current |-> current, turn |-> u, delegated |-> FALSE]

LEMMA StartTurnKept ==
    ASSUME CallersOK, NEW r \in Runs, address[r] \in Sessions,
           NEW current \in Tokens \cup {None}, StartTurn(r, current),
           NEW box \in Seq(Tokens), NEW k \in TaskCount,
           Becoming(inbox, r, box), Becoming(tasks, r, k)
    PROVE  CallersOK' /\ [Next]_vars
<1> DEFINE t == IF current # None THEN current ELSE address[r]
<1>1. t \in Tokens
  BY SessionsAreDispatches
<1>2. PICK u \in Turns : worker' = [worker EXCEPT ![r] = TurnOf(current, u)]
  BY DEF StartTurn, TurnOf
<1>3. /\ TurnOf(current, u) \in Worker
      /\ TurnOf(current, u).phase = "model" /\ TurnOf(current, u).turn \in Turns
  BY DEF TurnOf, Worker, Phase
<1>4. UNCHANGED <<dispatch, address, answer>>
  BY DEF StartTurn
<1>5. CallersOK'
  BY <1>2, <1>3, <1>4, WorkerMoves
<1>6. RunUnchanged \/ WorkerCall(r, t)
  BY DEF StartTurn, WorkerCall
<1> QED BY <1>1, <1>5, <1>6, CallsStore

LEMMA TurnsKept ==
    ASSUME CallersOK, NEW r \in Runs, MessageTurn(r) \/ WakeTurn(r) \/ AnsweredTurn(r)
    PROVE  CallersOK' /\ [Next]_vars
<1>1. /\ inbox[r] \in Seq(Tokens) /\ tasks[r] \in TaskCount
      /\ tasks \in [Runs -> TaskCount]
  BY SessionFacts DEF CallersOK, SessionsOK
<1>2. address[r] \in Sessions
  BY TurnHasLease DEF MessageTurn, WakeTurn, AnsweredTurn, AtPhase, CallersOK
<1>3. CASE MessageTurn(r)
  <2>1. inbox[r] # <<>> /\ Head(inbox[r]) \in Tokens /\ Tail(inbox[r]) \in Seq(Tokens)
    BY <1>1, <1>3 DEF MessageTurn
  <2>2. /\ Becoming(inbox, r, Tail(inbox[r])) /\ Becoming(tasks, r, tasks[r])
        /\ StartTurn(r, Head(inbox[r]))
    BY <1>3 DEF MessageTurn, Becoming, CallersOK, SessionsOK
  <2> QED BY <1>1, <1>2, <2>1, <2>2, StartTurnKept
<1>4. CASE WakeTurn(r)
  <2> DEFINE k == [tasks[r] EXCEPT !.waiting = @ - 1]
  <2>1. k \in TaskCount
    BY <1>1, <1>4 DEF WakeTurn, TaskCount
  <2>2. tasks' = [tasks EXCEPT ![r] = k]
    BY <1>1, <1>4 DEF WakeTurn, TaskCount
  <2> HIDE DEF k
  <2>3. Becoming(inbox, r, inbox[r]) /\ Becoming(tasks, r, k) /\ StartTurn(r, None)
    BY <1>4, <2>2 DEF WakeTurn, Becoming
  <2> QED BY <1>1, <1>2, <2>1, <2>3, StartTurnKept
<1>5. CASE AnsweredTurn(r)
  <2>1. Becoming(inbox, r, inbox[r]) /\ Becoming(tasks, r, tasks[r]) /\ StartTurn(r, None)
    BY <1>5 DEF AnsweredTurn, Becoming
  <2> QED BY <1>1, <1>2, <2>1, StartTurnKept
<1> QED BY <1>3, <1>4, <1>5

LEMMA FailsKept ==
    ASSUME CallersOK, NEW r \in Runs, worker[r].phase # "idle", Fails(r)
    PROVE  CallersOK' /\ [Next]_vars
<1>1. address[r] \in Sessions /\ Identity(r) \in Tokens
  BY TurnHasLease DEF CallersOK
<1>2. CallersOK'
  BY <1>1, MovesKept DEF Fails, Phase
<1> QED BY <1>1, <1>2, ReleaseCalls DEF Fails, Callers

LEMMA WorkerKept ==
    ASSUME CallersOK, NEW r \in Runs, WorkerStep(r)
    PROVE  CallersOK' /\ [Next]_vars
<1> DEFINE t == Identity(r)
<1>1. CASE MessageTurn(r) \/ WakeTurn(r) \/ AnsweredTurn(r)
  BY <1>1, TurnsKept
<1>2. worker[r].phase # "idle" => address[r] \in Sessions /\ t \in Tokens
  BY TurnHasLease DEF CallersOK
<1>3. worker[r].phase \in {"model", "step"} => worker[r].turn \in Turns
  BY SessionFacts DEF CallersOK, Rooted
<1>4. CASE ModelStep(r)
  <2>1. CASE Fails(r)
    BY <1>4, <2>1, FailsKept DEF ModelStep, AtPhase
  <2>2. CASE RunUnchanged /\ Moves(r, "step") /\ UNCHANGED tasks
    BY <1>2, <1>3, <1>4, <2>2, MovesKept, CallsStore DEF ModelStep, AtPhase, Phase
  <2> QED BY <1>4, <2>1, <2>2 DEF ModelStep
<1>5. CASE ToolCalls(r)
  BY <1>2, <1>3, <1>5, MovesKept, CallsStore DEF ToolCalls, AtPhase, Phase
<1>6. CASE Delegate(r)
  <2> DEFINE k == [delegated |-> tasks[r].delegated + 1, waiting |-> tasks[r].waiting + 1]
             w == [worker[r] EXCEPT !.phase = "model", !.delegated = TRUE]
  <2>1. tasks[r] \in TaskCount /\ worker[r] \in Worker /\ tasks \in [Runs -> TaskCount]
    BY SessionFacts DEF CallersOK, SessionsOK
  <2>2. k \in TaskCount
    BY <2>1 DEF TaskCount
  <2>3. w \in Worker /\ w.turn = worker[r].turn
    BY <2>1 DEF Worker, Phase
  <2>4. Becoming(tasks, r, k) /\ Becomes(r, w)
    BY <1>6, <2>1 DEF Delegate, Becoming
  <2>5. worker[r].phase = "step"
    BY <1>6 DEF Delegate, AtPhase
  <2>6. RunUnchanged \/ WorkerCall(r, t)
    BY <1>3, <1>6, <2>5 DEF Delegate, WorkerCall
  <2> HIDE DEF k, w
  <2>7. CallersOK'
    BY <1>2, <1>3, <2>2, <2>3, <2>4, <2>5, BecomesKept
  <2> QED BY <1>2, <2>5, <2>6, <2>7, CallsStore
<1>7. CASE Ask(r)
  <2>1. RunUnchanged \/ WorkerCall(r, t)
    BY <1>7 DEF Ask, WorkerCall
  <2>2. worker[r].phase = "step" /\ Moves(r, "parked") /\ UNCHANGED tasks
    BY <1>7 DEF Ask, AtPhase
  <2>3. CallersOK'
    BY <1>2, <2>2, MovesKept DEF Phase
  <2> QED BY <1>2, <2>1, <2>2, <2>3, CallsStore
<1>8. ASSUME NEW kind \in {"result", "nothing_to_report"}, FinalMessage(r, kind)
      PROVE  CallersOK' /\ [Next]_vars
  <2>1. worker[r].phase = "step" /\ Rests(r) /\ UNCHANGED tasks
    BY <1>8 DEF FinalMessage, AtPhase
  <2>2. RunUnchanged \/ WorkerCall(r, t)
    BY <1>3, <1>8, <2>1 DEF FinalMessage, WorkerCall
  <2>3. CallersOK'
    BY <1>2, <2>1, RestsKept
  <2> QED BY <1>2, <2>1, <2>2, <2>3, CallsStore
<1>9. CASE TurnFails(r)
  BY <1>9, FailsKept DEF TurnFails, AtPhase
<1>10. CASE SessionFails(r)
  <2>1. worker[r].phase = "parked" /\ SessionEnds(r) /\ Release(r, t, "worker")
    BY <1>10 DEF SessionFails, AtPhase
  <2>2. CallersOK'
    BY <1>10, <2>1, EndedSession, SameDispatches, SameAnswers DEF SessionFails, CallersOK
  <2> QED BY <1>2, <2>1, <2>2, ReleaseCalls DEF Callers
<1>11. CASE FailureHandled(r)
  <2>1. worker[r].phase = "failing" /\ Rests(r) /\ UNCHANGED tasks /\ RunUnchanged
    BY <1>11 DEF FailureHandled, AtPhase
  <2>2. CallersOK'
    BY <1>2, <2>1, RestsKept
  <2> QED BY <1>2, <2>1, <2>2, CallsStore
<1> QED BY <1>1, <1>4, <1>5, <1>6, <1>7, <1>8, <1>9, <1>10, <1>11 DEF WorkerStep

-----------------------------------------------------------------------------
(***************************************************************************)
(* The answer route.                                                       *)
(***************************************************************************)
LEMMA IdleAnswerIs ==
    IdleAnswer \in Answer /\ IdleAnswer.phase = "idle"
BY DEF IdleAnswer, Answer

\* The route's own record moves on, and the session stays as it is.
LEMMA AnswerStays ==
    ASSUME CallersOK, NEW a \in Answers, NEW new \in Answer,
           answer' = [answer EXCEPT ![a] = new],
           new.phase # "idle" => new.run \in Runs /\ new.token \in Tokens,
           OnlyAnswer, UNCHANGED worker
    PROVE  CallersOK'
BY AnswerMoves, SameSessions, SameDispatches DEF CallersOK, OnlyAnswer

LEMMA AnswerAskedKept ==
    ASSUME CallersOK, TypeOK, NEW a \in Answers, NEW r \in Runs, AnswerAsked(a, r)
    PROVE  CallersOK' /\ [Next]_vars
<1> DEFINE new == [phase |-> "asked", run |-> r, token |-> run[r].token, session |-> None]
<1>1. run[r].token \in Tokens
  BY DEF TypeOK, Row, AnswerAsked
<1>2. new \in Answer /\ new.run = r /\ new.token \in Tokens
  BY <1>1 DEF Answer
<1>3. answer' = [answer EXCEPT ![a] = new] /\ OnlyAnswer /\ UNCHANGED worker
  BY DEF AnswerAsked
<1> HIDE DEF new
<1>4. CallersOK'
  BY <1>2, <1>3, AnswerStays
<1> QED BY <1>4 DEF AnswerAsked, RunUnchanged, vars

\* The route's record with another phase, or another session.
LEMMA AnswerAdvances ==
    ASSUME CallersOK, NEW a \in Answers, answer[a].phase # "idle",
           NEW phase \in {"claimed", "respond", "accepted", "restore"},
           NEW s \in Sessions \cup {None}
    PROVE  LET new == [answer[a] EXCEPT !.phase = phase, !.session = s]
           IN  /\ new \in Answer
               /\ new.run \in Runs /\ new.token \in Tokens
BY DEF CallersOK, AnswersOK, Answer

\* The parked session takes the answer as the start of a turn.
LEMMA ResumesKept ==
    ASSUME SessionsOK, NEW r \in Runs, AtPhase(r, {"parked"}), Resumes(r),
           UNCHANGED <<address, inbox, tasks>>
    PROVE  SessionsOK'
<1> DEFINE w == [IdleWorker EXCEPT !.phase = "starting"]
<1>1. w \in Worker /\ w.phase = "starting"
  BY DEF IdleWorker, Worker, Phase
<1>2. /\ address[r] \in Sessions \cup {None} /\ inbox[r] \in Seq(Tokens)
      /\ tasks[r] \in TaskCount
  BY SessionFacts
<1>3. address[r] \in Sessions
  BY TurnHasLease DEF AtPhase
<1>4. Becoming(worker, r, w)
  BY DEF Resumes, Becoming
<1>5. /\ Becoming(address, r, address[r]) /\ Becoming(inbox, r, inbox[r])
      /\ Becoming(tasks, r, tasks[r])
  BY DEF Becoming
<1> HIDE DEF w
<1>6. Rooted(address[r], inbox[r], w, tasks[r])
  BY <1>1, <1>3, NoneAssumption DEF Rooted
<1> QED BY <1>1, <1>2, <1>4, <1>5, <1>6, SessionMoves

LEMMA AnswerKept ==
    ASSUME CallersOK, TypeOK, NEW a \in Answers, AnswerStep(a) \/ AnswerCrash(a)
    PROVE  CallersOK' /\ [Next]_vars
<1> DEFINE r == answer[a].run
           t == answer[a].token
           To(phase, s) == [answer[a] EXCEPT !.phase = phase, !.session = s]
           Live == {"claimed", "respond", "accepted", "restore"}
<1>1. answer \in [Answers -> Answer] /\ answer[a] \in Answer
  BY DEF CallersOK, AnswersOK
<1>2. answer[a].phase # "idle"
  BY DEF AnswerStep, AnswerClaims, AnswerReads, AnswerResponds, AnswerRestores,
         AnswerFinishes, AnswerCrash, AnswerAt
<1>3. r \in Runs /\ t \in Tokens
  BY <1>2 DEF CallersOK, AnswersOK
<1>4. ASSUME NEW phase \in Live, NEW s \in Sessions \cup {None}
      PROVE  /\ To(phase, s) \in Answer
             /\ To(phase, s).run \in Runs /\ To(phase, s).token \in Tokens
  BY <1>2, AnswerAdvances
<1>5. answer[a].session \in Sessions \cup {None} /\ run[r].session \in Sessions \cup {None}
  BY <1>1, <1>3 DEF Answer, TypeOK, Row
<1>6. \A phase \in Live : [answer[a] EXCEPT !.phase = phase] = To(phase, answer[a].session)
  BY <1>1 DEF Answer
<1>7. \A phase \in Live :
          [answer EXCEPT ![a].phase = phase] = [answer EXCEPT ![a] = To(phase, answer[a].session)]
  BY <1>1 DEF Answer
<1> HIDE DEF To
<1>8. ASSUME \/ answer' = [answer EXCEPT ![a] = IdleAnswer]
             \/ \E phase \in Live, s \in Sessions \cup {None} :
                    answer' = [answer EXCEPT ![a] = To(phase, s)]
      PROVE  AnswersOK'
  BY <1>4, <1>8, IdleAnswerIs, AnswerMoves DEF CallersOK
<1>9. ASSUME OnlyAnswer, UNCHANGED worker PROVE SessionsOK' /\ DispatchesOK'
  BY <1>9, SameSessions, SameDispatches DEF OnlyAnswer, CallersOK
<1> HIDE DEF Live
<1>10. CASE AnswerClaims(a)
  <2>1. \/ answer' = [answer EXCEPT ![a] = IdleAnswer]
        \/ answer' = [answer EXCEPT ![a] = To("claimed", answer[a].session)]
    BY <1>6, <1>10 DEF AnswerClaims, Live
  <2>2. AnswersOK'
    BY <1>5, <1>8, <2>1 DEF Live
  <2>3. RunUnchanged \/ AnswerCall(r, t)
    BY <1>10 DEF AnswerClaims, AnswerCall
  <2>4. SessionsOK' /\ DispatchesOK'
    BY <1>9, <1>10 DEF AnswerClaims
  <2> QED BY <1>3, <2>2, <2>3, <2>4, CallsStore DEF CallersOK
<1>11. CASE AnswerReads(a)
  <2>1. \/ answer' = [answer EXCEPT ![a] = IdleAnswer]
        \/ answer' = [answer EXCEPT ![a] = To("respond", run[r].session)]
    BY <1>11 DEF AnswerReads, To
  <2>2. AnswersOK'
    BY <1>5, <1>8, <2>1 DEF Live
  <2>3. SessionsOK' /\ DispatchesOK' /\ RunUnchanged
    BY <1>9, <1>11 DEF AnswerReads
  <2> QED BY <1>3, <2>2, <2>3, CallsStore DEF CallersOK
<1>12. CASE AnswerResponds(a)
  <2>1. \/ answer' = [answer EXCEPT ![a] = To("accepted", answer[a].session)]
        \/ answer' = [answer EXCEPT ![a] = To("restore", answer[a].session)]
    BY <1>7, <1>12 DEF AnswerResponds, Live
  <2>2. AnswersOK'
    BY <1>5, <1>8, <2>1 DEF Live
  <2>3. RunUnchanged /\ OnlyAnswer
    BY <1>12 DEF AnswerResponds
  <2>4. UNCHANGED worker \/ (AtPhase(r, {"parked"}) /\ Resumes(r))
    BY <1>12 DEF AnswerResponds
  <2>5. SessionsOK' /\ DispatchesOK'
    BY <1>3, <1>9, <2>3, <2>4, ResumesKept, SameDispatches DEF OnlyAnswer, CallersOK
  <2> QED BY <1>3, <2>2, <2>3, <2>5, CallsStore DEF CallersOK
<1>13. CASE AnswerRestores(a)
  <2>1. RunUnchanged \/ AnswerCall(r, t)
    BY <1>13 DEF AnswerRestores, AnswerCall
  <2>2. SessionsOK' /\ DispatchesOK' /\ AnswersOK'
    BY <1>8, <1>9, <1>13 DEF AnswerRestores
  <2> QED BY <1>3, <2>1, <2>2, CallsStore DEF CallersOK
<1>14. CASE AnswerFinishes(a)
  <2>1. \/ answer' = [answer EXCEPT ![a] = IdleAnswer]
        \/ answer' = [answer EXCEPT ![a] = To("restore", answer[a].session)]
    BY <1>7, <1>14 DEF AnswerFinishes, Live
  <2>2. AnswersOK'
    BY <1>5, <1>8, <2>1 DEF Live
  <2>3. RunUnchanged \/ AnswerCall(r, t)
    BY <1>14 DEF AnswerFinishes, AnswerCall
  <2>4. SessionsOK' /\ DispatchesOK'
    BY <1>9, <1>14 DEF AnswerFinishes
  <2> QED BY <1>3, <2>2, <2>3, <2>4, CallsStore DEF CallersOK
<1>15. CASE AnswerCrash(a)
  <2>1. SessionsOK' /\ DispatchesOK' /\ AnswersOK' /\ RunUnchanged
    BY <1>8, <1>9, <1>15 DEF AnswerCrash
  <2> QED BY <1>3, <2>1, CallsStore DEF CallersOK
<1> QED BY <1>10, <1>11, <1>12, <1>13, <1>14, <1>15 DEF AnswerStep

-----------------------------------------------------------------------------
(***************************************************************************)
(* The specification.                                                      *)
(***************************************************************************)
LEMMA WorkersStart == WorkersInit => Init /\ CallersOK
<1> SUFFICES ASSUME WorkersInit PROVE CallersOK
  BY DEF WorkersInit
<1>1. /\ NoDispatch \in Dispatch /\ NoDispatch.phase = "none"
      /\ [delegated |-> 0, waiting |-> 0] \in TaskCount
      /\ <<>> \in Seq(Tokens)
  BY DEF NoDispatch, Dispatch, TaskCount
<1>2. DispatchesOK
  BY <1>1 DEF WorkersInit, DispatchesOK
<1>3. AnswersOK
  BY IdleAnswerIs DEF WorkersInit, AnswersOK
<1>4. Rooted(None, <<>>, IdleWorker, [delegated |-> 0, waiting |-> 0])
  BY IdleWorkerIs DEF Rooted
<1>5. SessionsOK
  BY <1>1, <1>4, IdleWorkerIs DEF WorkersInit, SessionsOK
<1> QED BY <1>2, <1>3, <1>5 DEF CallersOK

LEMMA CallersStay == CallersOK /\ UNCHANGED workerVars => CallersOK'
BY SameSessions, SameDispatches, SameAnswers DEF CallersOK, workerVars

LEMMA WorkersStepKept ==
    RunsInv /\ CallersOK /\ [WorkersNext]_allVars => CallersOK' /\ [Next]_vars
<1> SUFFICES ASSUME RunsInv, CallersOK, [WorkersNext]_allVars
             PROVE  CallersOK' /\ [Next]_vars
  OBVIOUS
<1>1. TypeOK
  BY DEF RunsInv
<1>2. CASE \E batch \in SUBSET Runs, t \in Tokens : Tick(batch, t)
  BY <1>2, TickKept
<1>3. CASE \E r \in Runs, t \in Tokens : DispatchStep(r, t) \/ DispatchCrash(r, t)
  BY <1>3, DispatchKept
<1>4. CASE \E r \in Runs : WorkerStep(r)
  BY <1>4, WorkerKept
<1>5. CASE \E read \in reads : ReleaseWrites(read)
  BY <1>5, CallersStay DEF ReleaseWrites, Next
<1>6. CASE \E a \in Answers : \/ \E r \in Runs : AnswerAsked(a, r)
                               \/ AnswerStep(a)
                               \/ AnswerCrash(a)
  BY <1>1, <1>6, AnswerAskedKept, AnswerKept
<1>7. CASE \E r \in Runs : (ReportCall(r) \/ TimePasses(r)) /\ UNCHANGED workerVars
  BY <1>7, CallersStay DEF Next
<1>8. CASE UNCHANGED allVars
  BY <1>8, CallersStay DEF allVars, workerVars, vars
<1> QED BY <1>2, <1>3, <1>4, <1>5, <1>6, <1>7, <1>8 DEF WorkersNext

\* The rows stay consistent, and every caller keeps the lease it was given,
\* under any faults of the tick, the session and the answer route.
THEOREM WorkersKeepLeases == WorkersSafety => [](RunsInv /\ CallersOK)
<1>1. WorkersInit => RunsInv /\ CallersOK
  BY WorkersStart, InitRunsInv
<1>2. RunsInv /\ CallersOK /\ [WorkersNext]_allVars => RunsInv' /\ CallersOK'
  BY WorkersStepKept, NextPreserves
<1> QED BY <1>1, <1>2, PTL DEF WorkersSafety

\* The tick, the hooks and the answer route only use the store as it may be
\* used: each of their steps is a call under a lease, or leaves the rows alone.
THEOREM WorkersUseTheStore == WorkersSafety => FollowsStore
<1>1. WorkersInit => Init
  BY WorkersStart
<1>2. RunsInv /\ CallersOK /\ [WorkersNext]_allVars => [Next]_vars
  BY WorkersStepKept
<1> QED BY <1>1, <1>2, WorkersKeepLeases, PTL DEF WorkersSafety, FollowsStore, Spec

\* A run is overtaken once and for all.
LEMMA OvertakenGrows ==
    ASSUME [WorkersNext]_allVars
    PROVE  overtaken \subseteq overtaken' /\ (CallersOK => overtaken' \ overtaken \subseteq Runs)
<1>1. CASE \E batch \in SUBSET Runs, t \in Tokens : Tick(batch, t)
  BY <1>1 DEF Tick
<1>2. CASE \E r \in Runs, t \in Tokens : DispatchStep(r, t) \/ DispatchCrash(r, t)
  BY <1>2 DEF DispatchStep, DispatchCrash, Send, SendUnknown, SendRefused, PersistSession,
              ReleaseDispatch
<1>3. ASSUME NEW r \in Runs, WorkerStep(r)
      PROVE  overtaken' = overtaken \/ overtaken' = overtaken \cup {r}
  <2>1. CASE MessageTurn(r) \/ WakeTurn(r) \/ AnsweredTurn(r)
    BY <2>1 DEF MessageTurn, WakeTurn, AnsweredTurn, StartTurn
  <2>2. CASE ModelStep(r) \/ ToolCalls(r) \/ Delegate(r) \/ Ask(r)
    BY <2>2 DEF ModelStep, ToolCalls, Delegate, Ask, Fails
  <2>3. CASE \E kind \in {"result", "nothing_to_report"} : FinalMessage(r, kind)
    BY <2>3 DEF FinalMessage
  <2>4. CASE TurnFails(r) \/ SessionFails(r) \/ FailureHandled(r)
    BY <2>4 DEF TurnFails, SessionFails, FailureHandled, Fails
  <2> QED
    BY <1>3, <2>1, <2>2, <2>3, <2>4 DEF WorkerStep
<1>4. ASSUME NEW a \in Answers, AnswerStep(a) \/ AnswerCrash(a)
      PROVE  \/ overtaken' = overtaken
             \/ overtaken' = overtaken \cup {answer[a].run} /\ ~AnswerAt(a, "idle")
  BY <1>4 DEF AnswerStep, AnswerCrash, AnswerClaims, AnswerReads, AnswerResponds,
              AnswerRestores, AnswerFinishes, AnswerAt
<1>5. ASSUME CallersOK, NEW a \in Answers, ~AnswerAt(a, "idle") PROVE answer[a].run \in Runs
  BY <1>5 DEF CallersOK, AnswersOK, AnswerAt
<1>6. CASE \E a \in Answers : \E r \in Runs : AnswerAsked(a, r)
  BY <1>6 DEF AnswerAsked
<1>7. CASE \/ \E read \in reads : ReleaseWrites(read)
           \/ \E r \in Runs : (ReportCall(r) \/ TimePasses(r)) /\ UNCHANGED workerVars
           \/ UNCHANGED allVars
  BY <1>7 DEF ReleaseWrites, workerVars, allVars
<1> QED
  BY <1>1, <1>2, <1>3, <1>4, <1>5, <1>6, <1>7 DEF WorkersNext

\* Sessions, messages, turns, dispatches and answers only ever hold values of
\* their types; no more tasks end than were delegated.
THEOREM WorkersTyped == WorkersSafety => []WorkersTypeOK
<1> DEFINE AreRuns == overtaken \subseteq Runs
<1>1. RunsInv /\ CallersOK /\ AreRuns => WorkersTypeOK
  BY DEF RunsInv, CallersOK, SessionsOK, DispatchesOK, AnswersOK, TaskCount, WorkersTypeOK
<1>2. WorkersInit => AreRuns
  BY DEF WorkersInit
<1>3. RunsInv /\ CallersOK /\ AreRuns /\ [WorkersNext]_allVars => AreRuns'
  BY OvertakenGrows
<1> HIDE DEF AreRuns
<1> QED BY <1>1, <1>2, <1>3, WorkersKeepLeases, PTL DEF WorkersSafety

\* A worker whose lease was taken over, by a retry or after a crash of the
\* tick, never gets it back.
THEOREM WorkersStayFenced == WorkersSafety => LostLeaseStaysLost
BY WorkersUseTheStore, FencedForGood, PTL DEF FollowsStore

\* With its real callers, at any fault, a run keeps the promise made to the
\* owner of the schedule: bounded attempts, one ending, one report of each.
THEOREM WorkersKeepPromise == WorkersSafety => KeepsPromise
BY WorkersUseTheStore, PromiseKept, PTL DEF FollowsStore

USE SessionsAreDispatches

-----------------------------------------------------------------------------
(***************************************************************************)
(* Questions.  A run that waits, or whose question an answer has claimed,   *)
(* names the session that is parked on it, or a release of that session's   *)
(* hook is about to put it back.                                            *)
(***************************************************************************)

\* The session at the address has been given this lease.
Delivered(r, t) ==
    t = address[r] \/ t = worker[r].current \/ \E i \in 1..Len(inbox[r]) : inbox[r][i] = t

\* A lease is given to a session once, and a restart is on its way only while its run
\* is held for it.
StageOK(r, t) ==
    /\ dispatch[r][t].phase # "none" => t \in granted[r]
    /\ dispatch[r][t].phase \in {"none", "claimed"} => ~Delivered(r, t)
    /\ dispatch[r][t].phase = "sent" /\ Delivered(r, t) => dispatch[r][t].session = address[r]
    /\ dispatch[r][t].phase = "claimed" /\ dispatch[r][t].restart =>
          Holds(run[r], t) /\ run[r].session # None

\* The hook that releases a lease is at it, or its session is gone.
ReadOK(read) ==
    /\ dispatch[read.run][read.token].phase \notin {"none", "claimed"}
    /\ read.by = "worker" => worker[read.run].phase = "failing" \/ ~Delivered(read.run, read.token)

\* A turn that holds the run is a turn of the session the row names.
TurnOK(r) ==
    r \notin overtaken /\ worker[r].phase \in {"model", "step"} /\ Holds(run[r], Identity(r)) =>
        run[r].session = address[r]

Stands(r) ==
    \/ worker[r].phase = "parked" /\ address[r] = run[r].session /\ Identity(r) = run[r].token
    \/ \E read \in reads : read.run = r /\ read.by = "worker" /\ read.token = run[r].token

Asked(r) ==
    /\ run[r].question = run[r].seq /\ run[r].seq # 0 /\ run[r].session # None
    /\ Stands(r)

AskOK(r) ==
    r \notin overtaken /\ run[r].status = "waiting_for_input" =>
        Asked(r) /\ \A a \in Answers : ~UnderWay(a, r)

ClaimOK(r) == \A a \in Answers : r \notin overtaken /\ UnderWay(a, r) =>
    /\ answer[a].token \in granted[r]
    /\ answer[a].phase # "accepted" /\ Holds(run[r], answer[a].token) => Asked(r)
    /\ answer[a].token = run[r].token => \A b \in Answers : UnderWay(b, r) => a = b

\* Whatever overtakes whom, a lease is answered for after it was given to a session.
Past(r, t) == t \in Tokens /\ dispatch[r][t].phase \notin {"none", "claimed"}
PastOK(r) ==
    /\ run[r].status = "waiting_for_input" => Past(r, run[r].token)
    /\ \A a \in Answers : UnderWay(a, r) => Past(r, answer[a].token)

StandInv(r) ==
    /\ \A t \in Tokens : StageOK(r, t)
    /\ PastOK(r)
    /\ \A read \in reads : read.run = r => ReadOK(read)
    /\ TurnOK(r) /\ AskOK(r) /\ ClaimOK(r)

QuestionsInv == \A r \in Runs : StandInv(r)

Base == RunsInv /\ CallersOK

LEMMA BaseFacts ==
    ASSUME Base, NEW r \in Runs
    PROVE  /\ run \in [Runs -> Row] /\ run[r] \in Row /\ granted \in [Runs -> SUBSET Tokens]
           /\ run[r].token # None => /\ run[r].token \in granted[r] /\ run[r].token \in Tokens
                                     /\ run[r].status \in {"running", "waiting_for_input"}
           /\ run[r].session \in Sessions \cup {None}
           /\ run[r].token \in Tokens \cup {None} /\ run[r].seq \in Nat
           /\ dispatch \in [Runs -> [Tokens -> Dispatch]]
           /\ address \in [Runs -> Sessions \cup {None}]
           /\ inbox \in [Runs -> Seq(Tokens)] /\ worker \in [Runs -> Worker]
           /\ answer \in [Answers -> Answer]
           /\ worker[r] \in Worker /\ address[r] \in Sessions \cup {None}
           /\ inbox[r] \in Seq(Tokens)
           /\ worker[r].phase # "idle" => address[r] \in Sessions /\ Identity(r) \in Tokens
<1>1. worker[r].phase # "idle" => address[r] \in Sessions /\ Identity(r) \in Tokens
  BY TurnHasLease DEF Base, CallersOK
<1>2. /\ run \in [Runs -> Row] /\ granted \in [Runs -> SUBSET Tokens]
      /\ LeaseInv(run[r], granted[r])
  BY DEF Base, RunsInv, TypeOK
<1>3. run[r].token \in Tokens \cup {None} /\ run[r].session \in Sessions \cup {None}
      /\ run[r].seq \in Nat /\ run[r] \in Row
  BY <1>2 DEF Row
<1> QED
  BY <1>1, <1>2, <1>3 DEF Base, CallersOK, SessionsOK, DispatchesOK, AnswersOK, LeaseInv

\* The turn of a session has a lease the session was given.
LEMMA TurnIsDelivered ==
    ASSUME NEW r \in Runs
    PROVE  Delivered(r, Identity(r))
BY DEF Delivered, Identity

\* Nothing that concerns a run has changed.
SameRow(r) ==
    /\ run'[r].token = run[r].token /\ run'[r].status = run[r].status
    /\ run'[r].session = run[r].session /\ run'[r].question = run[r].question
    /\ run'[r].seq = run[r].seq
SameSession(r) ==
    address'[r] = address[r] /\ inbox'[r] = inbox[r] /\ worker'[r] = worker[r]
SameReads(r) ==
    \A read \in reads \cup reads' : read.run = r => read \in reads /\ read \in reads'
SameClaims(r) ==
    \A a \in Answers : answer'[a] = answer[a] \/ (~UnderWay(a, r) /\ ~UnderWay(a, r)')

LEMMA PastKept ==
    ASSUME NEW r \in Runs, StandInv(r), SameClaims(r),
           run'[r].status = "waiting_for_input" =>
               run[r].status = "waiting_for_input" /\ run'[r].token = run[r].token,
           \A t : Past(r, t) => Past(r, t)'
    PROVE  PastOK(r)'
BY DEF StandInv, PastOK, Past, SameClaims, UnderWay

LEMMA Elsewhere ==
    ASSUME NEW r \in Runs, StandInv(r), SameRow(r), granted'[r] = granted[r],
           dispatch'[r] = dispatch[r], SameSession(r), SameReads(r), SameClaims(r),
           overtaken \subseteq overtaken'
    PROVE  StandInv(r)'
<1>1. \A t : Delivered(r, t)' <=> Delivered(r, t)
  BY DEF SameSession, Delivered
<1>2. Identity(r)' = Identity(r)
  BY DEF SameSession, Identity
<1>3. \A t \in Tokens : StageOK(r, t)'
  BY <1>1 DEF StandInv, StageOK, SameRow, SameSession, Holds
<1>4. \A read \in reads' : read.run = r => ReadOK(read)'
  BY <1>1 DEF StandInv, ReadOK, SameReads, SameSession
<1>5. TurnOK(r)'
  BY <1>2 DEF StandInv, TurnOK, SameRow, SameSession, Holds
<1>6. Asked(r)' <=> Asked(r)
  BY <1>2 DEF Asked, Stands, SameRow, SameSession, SameReads
<1>7. \A a \in Answers : UnderWay(a, r)' <=> UnderWay(a, r)
  BY DEF SameClaims, UnderWay
<1>8. AskOK(r)'
  BY <1>6, <1>7 DEF StandInv, AskOK, SameRow
<1>9. ClaimOK(r)'
  <2>1. \A a \in Answers : UnderWay(a, r) => answer'[a] = answer[a]
    BY DEF SameClaims
  <2> QED
    BY <1>6, <1>7, <2>1 DEF StandInv, ClaimOK, SameRow, Holds
<1>10. PastOK(r)'
  BY PastKept, <1>7 DEF Past, SameRow
<1> QED
  BY <1>3, <1>4, <1>5, <1>8, <1>9, <1>10 DEF StandInv

\* What a step leaves alone when it is about one run.
Only(r) ==
    /\ \A q \in Runs \ {r} : /\ run'[q] = run[q] /\ granted'[q] = granted[q]
                             /\ dispatch'[q] = dispatch[q] /\ SameSession(q)
                             /\ SameClaims(q)
    /\ \A read \in reads \cup reads' : read.run # r => read \in reads /\ read \in reads'

LEMMA OneRun ==
    ASSUME QuestionsInv, overtaken \subseteq overtaken', NEW r \in Runs, Only(r), StandInv(r)'
    PROVE  QuestionsInv'
<1>1. ASSUME NEW q \in Runs \ {r} PROVE StandInv(q)'
  BY Elsewhere DEF Only, SameRow, SameReads, QuestionsInv
<1> QED
  BY <1>1 DEF QuestionsInv

\* A row that is claimed, or given up, has no restart on its way.
LEMMA TickStands ==
    ASSUME Base, QuestionsInv, overtaken \subseteq overtaken',
           NEW batch \in SUBSET Runs, NEW t \in Tokens, Tick(batch, t)
    PROVE  QuestionsInv'
<1> DEFINE spent == {r \in batch : run[r].attempts >= MaxAttempts}
<1>1. /\ \A r \in batch : Ready(run[r])
      /\ batch # spent => t \notin Issued
      /\ run' = [r \in Runs |-> IF r \in spent THEN Exhausted(run[r])
                                ELSE IF r \in batch THEN Claimed(run[r], t) ELSE run[r]]
      /\ granted' = [r \in Runs |-> IF r \in batch \ spent THEN granted[r] \cup {t} ELSE granted[r]]
      /\ UNCHANGED <<reads, address, inbox, worker, answer>>
  BY DEF Tick, ClaimReady
<1>2. dispatch' = [r \in Runs |->
          IF r \in batch /\ run[r].attempts < MaxAttempts
          THEN [dispatch[r] EXCEPT ![t] = [phase |-> "claimed", restart |-> run[r].session # None,
                                           session |-> None]]
          ELSE dispatch[r]]
  BY DEF Tick
<1>3. ASSUME NEW r \in Runs PROVE StandInv(r)'
  <2>1. /\ run[r] \in Row /\ granted \in [Runs -> SUBSET Tokens] /\ run[r].seq \in Nat
        /\ run[r].attempts \in Nat /\ answer \in [Answers -> Answer]
        /\ dispatch[r] \in [Tokens -> Dispatch]
        /\ run[r].token # None => run[r].status \in {"running", "waiting_for_input"}
    BY BaseFacts DEF Row
  <2>2. StandInv(r) /\ SameSession(r)
    BY <1>1 DEF QuestionsInv, SameSession
  <2>3. \A u : Delivered(r, u)' <=> Delivered(r, u)
    BY <2>2 DEF SameSession, Delivered
  <2>4. \A a \in Answers : UnderWay(a, r)' <=> UnderWay(a, r)
    BY <1>1 DEF UnderWay
  <2>5. CASE r \notin batch
    <3>1. run'[r] = run[r] /\ granted'[r] = granted[r] /\ dispatch'[r] = dispatch[r]
      BY <1>1, <1>2, <2>5
    <3> QED
      BY <1>1, <2>2, <3>1, Elsewhere DEF SameRow, SameReads, SameClaims
  <2>6. ASSUME r \in batch
        PROVE  \A u \in Tokens : ~(dispatch[r][u].phase = "claimed" /\ dispatch[r][u].restart)
    BY <1>1, <2>2, <2>6 DEF Ready, StandInv, StageOK, Holds
  <2>7. CASE r \in spent
    <3>1. /\ run'[r] = Exhausted(run[r]) /\ granted'[r] = granted[r] /\ dispatch'[r] = dispatch[r]
      BY <1>1, <1>2, <2>1, <2>7
    <3>2. /\ run'[r].status = "dead_letter" /\ run'[r].token = None
          /\ run'[r].seq = run[r].seq + 1
      BY <2>1, <3>1 DEF Exhausted, Row
    <3>3. \A u \in Tokens : StageOK(r, u)'
      BY <1>1, <2>2, <2>3, <2>6, <2>7, <3>1 DEF StandInv, StageOK
    <3>4. \A read \in reads' : read.run = r => ReadOK(read)'
      BY <1>1, <2>2, <2>3, <3>1 DEF StandInv, ReadOK
    <3>5. TurnOK(r)' /\ AskOK(r)'
      BY <3>2 DEF TurnOK, AskOK, Holds
    <3>6. ClaimOK(r)'
      <4>1. \A a \in Answers : r \notin overtaken /\ UnderWay(a, r) =>
                answer[a].token \in granted[r] /\ answer[a].token # None
        BY <2>1, <2>2 DEF StandInv, ClaimOK
      <4> QED
        BY <1>1, <2>2, <2>4, <3>1, <3>2, <4>1 DEF StandInv, ClaimOK, Holds
    <3>7. PastOK(r)'
      BY <1>1, <2>2, <2>4, <3>1, <3>2 DEF StandInv, PastOK, Past
    <3> QED
      BY <3>3, <3>4, <3>5, <3>6, <3>7 DEF StandInv
  <2>8. CASE r \in batch \ spent
    <3>1. /\ run'[r] = Claimed(run[r], t) /\ granted'[r] = granted[r] \cup {t}
          /\ dispatch'[r] = [dispatch[r] EXCEPT ![t] = [phase |-> "claimed",
                                restart |-> run[r].session # None, session |-> None]]
      BY <1>1, <1>2, <2>1, <2>8
    <3>2. t \notin granted[r]
      BY <1>1, <2>8 DEF Issued
    <3>3. /\ run'[r].status = "running" /\ run'[r].token = t
          /\ run'[r].seq = run[r].seq /\ run'[r].session = run[r].session
      BY <2>1, <3>1 DEF Claimed, Row
    <3>4. dispatch[r][t].phase = "none" /\ ~Delivered(r, t)
      BY <2>1, <2>2, <3>2 DEF StandInv, StageOK, Dispatch
    <3>5. /\ dispatch'[r][t] = [phase |-> "claimed", restart |-> run[r].session # None, session |-> None]
          /\ \A u \in Tokens \ {t} : dispatch'[r][u] = dispatch[r][u]
      BY <2>1, <3>1
    <3>6. StageOK(r, t)'
      <4>1. /\ dispatch'[r][t].phase = "claimed"
            /\ dispatch'[r][t].restart => run[r].session # None
        <5>1. dispatch'[r][t].phase = "claimed"
          BY <3>5
        <5>2. CASE run[r].session = None
          <6>1. (run[r].session # None) = FALSE
            BY <5>2
          <6>2. dispatch'[r][t] = [phase |-> "claimed", restart |-> FALSE, session |-> None]
            BY <3>5, <6>1
          <6> QED
            BY <5>1, <6>2
        <5> QED
          BY <5>1, <5>2
      <4>2. t \in granted'[r] /\ ~Delivered(r, t)'
        BY <2>3, <3>1, <3>4
      <4>3. dispatch'[r][t].restart => run'[r].session # None
        BY <3>3, <4>1
      <4> QED
        BY <3>3, <4>1, <4>2, <4>3 DEF StageOK, Holds
    <3>7. ASSUME NEW u \in Tokens \ {t} PROVE StageOK(r, u)'
      BY <1>1, <2>2, <2>3, <2>6, <2>8, <3>1, <3>5 DEF StandInv, StageOK, SameSession
    <3>8. ASSUME NEW read \in reads', read.run = r PROVE ReadOK(read)'
      <4>1. ReadOK(read) /\ read.token \in Tokens
        BY <1>1, <2>2, <3>8 DEF StandInv, Base, RunsInv, TypeOK, Read
      <4>2. read.token # t
        BY <3>4, <3>8, <4>1 DEF ReadOK
      <4> QED
        BY <1>1, <2>2, <2>3, <3>5, <3>8, <4>1, <4>2 DEF ReadOK, SameSession
    <3>9. TurnOK(r)'
      <4>1. Identity(r)' = Identity(r)
        BY <2>2 DEF SameSession, Identity
      <4>2. Identity(r) # t
        BY <3>4, TurnIsDelivered
      <4> QED
        BY <3>3, <4>1, <4>2 DEF TurnOK, Holds
    <3>10. AskOK(r)'
      BY <3>3 DEF AskOK
    <3>11. ClaimOK(r)'
      <4>1. \A a \in Answers : r \notin overtaken /\ UnderWay(a, r) => answer[a].token \in granted[r]
        BY <2>2 DEF StandInv, ClaimOK
      <4> QED
        BY <1>1, <2>2, <2>4, <3>1, <3>2, <3>3, <4>1 DEF StandInv, ClaimOK, Holds
    <3>12. PastOK(r)'
      <4>1. \A a \in Answers : UnderWay(a, r) => Past(r, answer[a].token)
        BY <2>2 DEF StandInv, PastOK
      <4>2. ASSUME NEW a \in Answers, UnderWay(a, r) PROVE Past(r, answer[a].token)'
        <5>1. answer[a].token # t /\ answer[a].token \in Tokens
          BY <3>4, <4>1, <4>2 DEF Past
        <5> QED
          BY <1>1, <3>5, <4>1, <4>2, <5>1 DEF Past
      <4> QED
        BY <1>1, <2>4, <3>3, <4>2 DEF PastOK
    <3> QED
      BY <3>6, <3>7, <3>8, <3>9, <3>10, <3>11, <3>12 DEF StandInv
  <2> QED
    BY <2>5, <2>7, <2>8
<1> QED
  BY <1>3 DEF QuestionsInv

\* Where neither the row nor the answers change, it is enough that the session stands.
LEMMA ClaimsKept ==
    ASSUME NEW r \in Runs, StandInv(r), SameRow(r), granted'[r] = granted[r], SameClaims(r),
           Asked(r) => Asked(r)', overtaken \subseteq overtaken'
    PROVE  AskOK(r)' /\ ClaimOK(r)'
<1>1. \A a \in Answers : UnderWay(a, r)' <=> UnderWay(a, r)
  BY DEF SameClaims, UnderWay
<1>2. \A a \in Answers : UnderWay(a, r) => answer'[a] = answer[a]
  BY DEF SameClaims
<1> QED
  BY <1>1, <1>2 DEF StandInv, AskOK, ClaimOK, SameRow, Holds

\* Only a tick claims a lease for a dispatch.
LEMMA PastSent ==
    ASSUME NEW r \in Runs, NEW t \in Tokens, StandInv(r), SameClaims(r),
           UNCHANGED run, dispatch'[r][t].phase \notin {"none", "claimed"},
           \A u \in Tokens \ {t} : dispatch'[r][u] = dispatch[r][u]
    PROVE  PastOK(r)'
<1>1. \A u : Past(r, u) => Past(r, u)'
  BY DEF Past
<1> QED
  BY <1>1, PastKept

LEMMA DeliverStands ==
    ASSUME Base, QuestionsInv, overtaken \subseteq overtaken', NEW r \in Runs,
           NEW t \in Tokens, NEW phase \in {"sent", "refused"},
           Dispatching(r, t, "claimed"), Deliver(r, t, phase), RunUnchanged, UNCHANGED answer
    PROVE  QuestionsInv'
<1> DEFINE fresh == dispatch[r][t].restart \/ address[r] = None
           s == IF fresh THEN t ELSE address[r]
<1>1. /\ dispatch \in [Runs -> [Tokens -> Dispatch]] /\ dispatch[r][t] \in Dispatch
      /\ address \in [Runs -> Sessions \cup {None}]
      /\ inbox \in [Runs -> Seq(Tokens)] /\ worker \in [Runs -> Worker]
      /\ run[r].token \in Tokens \cup {None}
  BY BaseFacts
<1>2. /\ address' = [address EXCEPT ![r] = s]
      /\ inbox' = [inbox EXCEPT ![r] = IF fresh THEN <<t>> ELSE Append(inbox[r], t)]
      /\ worker' = IF fresh THEN [worker EXCEPT ![r] = IdleWorker] ELSE worker
      /\ dispatch' = [dispatch EXCEPT ![r][t].phase = phase, ![r][t].session = s]
      /\ UNCHANGED <<run, granted, reads, answer>>
  BY <1>1 DEF Deliver, RunUnchanged
<1>3. /\ dispatch'[r][t].phase = phase /\ dispatch'[r][t].session = s
      /\ \A u \in Tokens \ {t} : dispatch'[r][u] = dispatch[r][u]
      /\ address'[r] = s
      /\ \A q \in Runs \ {r} : dispatch'[q] = dispatch[q] /\ address'[q] = address[q]
            /\ inbox'[q] = inbox[q] /\ worker'[q] = worker[q]
  BY <1>1, <1>2 DEF Dispatch
<1>4. StandInv(r) /\ StageOK(r, t) /\ ~Delivered(r, t) /\ t \in granted[r]
      /\ (dispatch[r][t].restart => run[r].token = t)
  BY DEF QuestionsInv, StandInv, StageOK, Dispatching, Holds
<1>7. PastOK(r)'
  BY <1>2, <1>3, <1>4, PastSent DEF SameClaims
<1>5. CASE fresh
  <2>1. address'[r] = t /\ inbox'[r] = <<t>> /\ worker'[r] = IdleWorker
    BY <1>1, <1>2, <1>5
  <2>2. \A u \in Tokens : Delivered(r, u)' <=> u = t
    BY <2>1 DEF Delivered, IdleWorker
  <2>3. \A u \in Tokens : StageOK(r, u)'
    BY <1>2, <1>3, <1>4, <2>1, <2>2 DEF StandInv, StageOK
  <2>4. ASSUME NEW read \in reads', read.run = r PROVE ReadOK(read)'
    <3>1. ReadOK(read) /\ read.token \in Tokens
      BY <1>2, <1>4, <2>4 DEF StandInv, Base, RunsInv, TypeOK, Read
    <3>2. read.token # t
      BY <2>4, <3>1 DEF ReadOK, Dispatching
    <3> QED
      BY <1>3, <2>2, <2>4, <3>1, <3>2 DEF ReadOK
  <2>5. TurnOK(r)'
    BY <2>1 DEF TurnOK, IdleWorker
  <2>6. Asked(r) => Asked(r)'
    <3> SUFFICES ASSUME Asked(r) PROVE Asked(r)'
      OBVIOUS
    <3>1. ~(worker[r].phase = "parked" /\ address[r] = run[r].session /\ Identity(r) = run[r].token)
      BY <1>4, <1>5, TurnIsDelivered DEF Asked
    <3> QED
      BY <1>2, <3>1 DEF Asked, Stands
  <2>7. AskOK(r)' /\ ClaimOK(r)'
    BY <1>2, <1>4, <2>6, ClaimsKept DEF SameRow, SameClaims
  <2>8. Only(r)
    BY <1>2, <1>3 DEF Only, SameSession, SameClaims
  <2> QED
    BY <1>7, <2>3, <2>4, <2>5, <2>7, <2>8, OneRun DEF StandInv
<1>6. CASE ~fresh
  <2>1. address'[r] = address[r] /\ inbox'[r] = Append(inbox[r], t) /\ worker'[r] = worker[r]
    BY <1>1, <1>2, <1>6
  <2>2. \A u \in Tokens : Delivered(r, u)' <=> u = t \/ Delivered(r, u)
    <3>1. inbox[r] \in Seq(Tokens)
      BY <1>1
    <3>2. \A u : (\E i \in 1..Len(inbox'[r]) : inbox'[r][i] = u)
                  <=> u = t \/ \E i \in 1..Len(inbox[r]) : inbox[r][i] = u
      BY <2>1, <3>1
    <3> QED
      BY <2>1, <3>2 DEF Delivered
  <2>3. Identity(r)' = Identity(r)
    BY <2>1 DEF Identity
  <2>4. StageOK(r, t)'
    BY <1>2, <1>3, <1>4, <2>1, <1>6 DEF StageOK
  <2>5. \A u \in Tokens \ {t} : StageOK(r, u)'
    BY <1>2, <1>3, <1>4, <2>1, <2>2 DEF StandInv, StageOK
  <2>6. ASSUME NEW read \in reads', read.run = r PROVE ReadOK(read)'
    <3>1. ReadOK(read) /\ read.token \in Tokens
      BY <1>2, <1>4, <2>6 DEF StandInv, Base, RunsInv, TypeOK, Read
    <3>2. read.token # t
      BY <2>6, <3>1 DEF ReadOK, Dispatching
    <3> QED
      BY <1>3, <2>1, <2>2, <2>6, <3>1, <3>2 DEF ReadOK
  <2>7. TurnOK(r)'
    BY <1>2, <1>4, <2>1, <2>3 DEF StandInv, TurnOK, Holds
  <2>8. Asked(r) => Asked(r)'
    BY <1>2, <2>1, <2>3 DEF Asked, Stands
  <2>9. AskOK(r)' /\ ClaimOK(r)'
    BY <1>2, <1>4, <2>8, ClaimsKept DEF SameRow, SameClaims
  <2>10. Only(r)
    BY <1>2, <1>3, <1>6 DEF Only, SameSession, SameClaims
  <2> QED
    BY <1>7, <2>4, <2>5, <2>6, <2>7, <2>9, <2>10, OneRun DEF StandInv
<1> QED
  BY <1>5, <1>6

\* A dispatch that moves on without sending; it may have reset the session.
LEMMA DispatchMovesOn ==
    ASSUME Base, QuestionsInv, overtaken \subseteq overtaken',
           NEW r \in Runs, NEW t \in Tokens,
           NEW new \in Dispatch, new.phase \in {"refused", "done"},
           dispatch' = [dispatch EXCEPT ![r][t] = new], t \in granted[r],
           UNCHANGED <<address, inbox, worker, answer, run, granted>>,
           \A read \in reads' \ reads : read.run = r /\ read.by = "dispatcher" /\ read.token = t,
           \A read \in reads \ reads' : read.run = r /\ read.by = "dispatcher"
    PROVE  QuestionsInv'
<1>1. /\ dispatch'[r][t] = new
      /\ \A u \in Tokens \ {t} : dispatch'[r][u] = dispatch[r][u]
      /\ \A q \in Runs \ {r} : dispatch'[q] = dispatch[q]
  BY BaseFacts
<1>2. StandInv(r) /\ \A u : Delivered(r, u)' <=> Delivered(r, u)
  BY DEF QuestionsInv, Delivered
<1>3. \A u \in Tokens : StageOK(r, u)'
  BY <1>1, <1>2 DEF StandInv, StageOK
<1>4. ASSUME NEW read \in reads', read.run = r PROVE ReadOK(read)'
  <2>1. CASE read.token = t
    <3>1. read \in reads => ReadOK(read)
      BY <1>2, <1>4 DEF StandInv
    <3> QED
      BY <1>1, <1>2, <1>4, <2>1, <3>1 DEF ReadOK
  <2>2. CASE read.token # t
    <3>1. ReadOK(read) /\ read.token \in Tokens
      BY <1>2, <1>4, <2>2 DEF StandInv, Base, RunsInv, TypeOK, Read
    <3> QED
      BY <1>1, <1>2, <1>4, <2>2, <3>1 DEF ReadOK
  <2> QED
    BY <2>1, <2>2
<1>5. TurnOK(r)' /\ (Asked(r) => Asked(r)')
  BY <1>2 DEF StandInv, TurnOK, Asked, Stands, Identity
<1>6. AskOK(r)' /\ ClaimOK(r)'
  BY <1>2, <1>5, ClaimsKept DEF SameRow, SameClaims
<1>7. Only(r)
  BY <1>1 DEF Only, SameSession, SameClaims
<1>8. PastOK(r)'
  BY <1>1, <1>2, PastSent DEF SameClaims
<1> QED
  BY <1>3, <1>4, <1>5, <1>6, <1>7, <1>8, OneRun DEF StandInv

\* A lease that is claimed for a restart is nobody's turn.
LEMMA StagesKept ==
    ASSUME NEW r \in Runs, StandInv(r), NEW t \in Tokens, Delivered(r, t),
           dispatch'[r] = dispatch[r], granted'[r] = granted[r], address'[r] = address[r],
           \A u \in Tokens : Delivered(r, u)' => Delivered(r, u),
           SameRow(r) \/ Holds(run[r], t)
    PROVE  \A u \in Tokens : StageOK(r, u)'
<1>1. ASSUME NEW u \in Tokens, Dispatching(r, u, "claimed"), dispatch[r][u].restart
      PROVE  /\ Holds(run[r], u) /\ run[r].session # None /\ SameRow(r)
  BY <1>1 DEF StandInv, StageOK, Dispatching, Holds
<1>2. ASSUME NEW u \in Tokens, Dispatching(r, u, "claimed"), dispatch[r][u].restart
      PROVE  Holds(run[r], u)' /\ run'[r].session # None
  BY <1>1, <1>2 DEF SameRow, Holds
<1> QED
  BY <1>2 DEF StandInv, StageOK, Dispatching

\* A turn goes on, ends, or begins, and its hook calls the store.
LEMMA TurnStands ==
    ASSUME Base, QuestionsInv, overtaken \subseteq overtaken',
           NEW r \in Runs, NEW t \in Tokens, Delivered(r, t),
           UNCHANGED <<dispatch, answer, granted, address>>,
           \A q \in Runs \ {r} : run'[q] = run[q] /\ worker'[q] = worker[q] /\ inbox'[q] = inbox[q],
           \A u \in Tokens : Delivered(r, u)' => Delivered(r, u),
           \A read \in reads : read \in reads',
           \A read \in reads' \ reads :
               read.run = r /\ read.token = t /\ worker'[r].phase = "failing",
           worker[r].phase = "failing" =>
               \/ worker'[r].phase = "failing"
               \/ \A read \in reads : read.run # r \/ read.by # "worker",
           SameRow(r) \/ Holds(run[r], t),
           SameRow(r) \/ run'[r].status # "waiting_for_input" \/ run'[r].token = run[r].token,
           TurnOK(r)', AskOK(r)', ClaimOK(r)'
    PROVE  QuestionsInv'
<1>1. StandInv(r)
  BY DEF QuestionsInv
<1>2. \A u \in Tokens : StageOK(r, u)'
  BY <1>1, StagesKept
<1>3. ASSUME NEW read \in reads', read.run = r PROVE ReadOK(read)'
  <2>1. CASE read \in reads
    <3>1. ReadOK(read) /\ read.token \in Tokens
      BY <1>1, <1>3, <2>1 DEF StandInv, Base, RunsInv, TypeOK, Read
    <3> QED
      BY <1>3, <2>1, <3>1 DEF ReadOK
  <2>2. CASE read \notin reads
    <3>1. dispatch[r][t].phase \notin {"none", "claimed"}
      BY <1>1 DEF StandInv, StageOK
    <3> QED
      BY <1>3, <2>2, <3>1 DEF ReadOK
  <2> QED
    BY <2>1, <2>2
<1>4. Only(r)
  BY DEF Only, SameSession, SameClaims
<1>5. PastOK(r)'
  <2>1. Past(r, t) /\ \A u : Past(r, u)' <=> Past(r, u)
    BY <1>1 DEF StandInv, StageOK, Past
  <2>2. CASE SameRow(r)
    BY <1>1, <2>1, <2>2, PastKept DEF SameRow, SameClaims
  <2>3. CASE Holds(run[r], t) /\ (run'[r].status = "waiting_for_input" => run'[r].token = t)
    <3>1. \A a \in Answers : UnderWay(a, r)' => Past(r, answer[a].token)
      BY <1>1 DEF StandInv, PastOK, UnderWay
    <3> QED
      BY <2>1, <2>3, <3>1 DEF PastOK, Past
  <2> QED
    BY <2>2, <2>3 DEF Holds
<1> QED
  BY <1>2, <1>3, <1>4, <1>5, OneRun DEF StandInv

\* A turn whose hook has released nothing is not what a waiting run stands on.
LEMMA TurnAsksNothing ==
    ASSUME NEW r \in Runs, StandInv(r), NEW t \in Tokens, Delivered(r, t), Holds(run[r], t),
           worker[r].phase \notin {"parked", "failing"}
    PROVE  ~Asked(r)
BY DEF Asked, Stands, StandInv, ReadOK, Holds

LEMMA StartTurnStands ==
    ASSUME Base, QuestionsInv, overtaken \subseteq overtaken',
           NEW r \in Runs, address[r] \in Sessions,
           NEW current \in Tokens \cup {None},
           StartTurn(r, current), worker[r].phase \in {"idle", "starting"},
           current # None => Delivered(r, current),
           \A q \in Runs \ {r} : inbox'[q] = inbox[q],
           \A i \in 1..Len(inbox'[r]) : \E j \in 1..Len(inbox[r]) : inbox'[r][i] = inbox[r][j]
    PROVE  QuestionsInv'
<1> DEFINE t == IF current # None THEN current ELSE address[r]
<1>1. t \in Tokens /\ Delivered(r, t)
  BY DEF Delivered
<1>2. /\ run[r] \in Row /\ run \in [Runs -> Row] /\ worker \in [Runs -> Worker]
      /\ run[r].session \in Sessions \cup {None} /\ address[r] # None
  BY BaseFacts
<1>3. PICK u \in Turns : worker' = [worker EXCEPT ![r] = TurnOf(current, u)]
  BY DEF StartTurn, TurnOf
<1>4. /\ worker'[r].phase = "model" /\ worker'[r].current = current
      /\ \A q \in Runs \ {r} : worker'[q] = worker[q]
  BY <1>2, <1>3 DEF TurnOf
<1>5. /\ UNCHANGED <<dispatch, address, answer, granted, reads>>
      /\ \/ ~Holds(run[r], t) /\ run' = run
         \/ Holds(run[r], t) /\ run' = [run EXCEPT ![r] = [run[r] EXCEPT !.lease = "future", !.session = address[r]]]
  BY DEF StartTurn, MarkStarted, Write, RunUnchanged
<1>6. Identity(r)' = t
  BY <1>4, <1>5 DEF Identity
<1>7. \A u1 \in Tokens : Delivered(r, u1)' => Delivered(r, u1)
  BY <1>1, <1>2, <1>4, <1>5 DEF Delivered
<1>8. StandInv(r)
  BY DEF QuestionsInv
<1>9. CASE Holds(run[r], t) /\ run' = [run EXCEPT ![r] = [run[r] EXCEPT !.lease = "future", !.session = address[r]]]
  <2>1. /\ run'[r].status = "running" /\ run'[r].token = t /\ run'[r].session = address[r]
        /\ run'[r].seq = run[r].seq
        /\ \A q \in Runs \ {r} : run'[q] = run[q]
    BY <1>2, <1>9 DEF Holds, Row
  <2>2. ~Asked(r)
    BY <1>1, <1>8, <1>9, TurnAsksNothing
  <2>3. \A a \in Answers : UnderWay(a, r)' <=> UnderWay(a, r)
    BY <1>5 DEF UnderWay
  <2>4. ClaimOK(r)'
    BY <1>5, <1>8, <1>9, <2>1, <2>2, <2>3 DEF StandInv, ClaimOK, Holds
  <2>5. TurnOK(r)' /\ AskOK(r)'
    BY <1>5, <2>1 DEF TurnOK, AskOK
  <2> QED
    BY <1>1, <1>4, <1>5, <1>7, <1>9, <2>1, <2>4, <2>5, TurnStands
<1>10. CASE ~Holds(run[r], t) /\ run' = run
  <2>1. TurnOK(r)'
    BY <1>6, <1>10 DEF TurnOK
  <2>2. SameRow(r) /\ SameClaims(r)
    BY <1>5, <1>10 DEF SameRow, SameClaims
  <2>3. Asked(r) => Asked(r)'
    BY <1>5, <1>10 DEF Asked, Stands
  <2>4. AskOK(r)' /\ ClaimOK(r)'
    BY <1>5, <1>8, <2>2, <2>3, ClaimsKept
  <2> QED
    BY <1>1, <1>4, <1>5, <1>7, <1>10, <2>1, <2>2, <2>4, TurnStands
<1> QED
  BY <1>5, <1>9, <1>10

LEMMA TurnsStand ==
    ASSUME Base, QuestionsInv, overtaken \subseteq overtaken',
           NEW r \in Runs, MessageTurn(r) \/ WakeTurn(r) \/ AnsweredTurn(r)
    PROVE  QuestionsInv'
<1>1. /\ inbox \in [Runs -> Seq(Tokens)] /\ inbox[r] \in Seq(Tokens)
  BY BaseFacts
<1>2. address[r] \in Sessions
  BY TurnHasLease DEF MessageTurn, WakeTurn, AnsweredTurn, AtPhase, Base, CallersOK
<1>3. CASE MessageTurn(r)
  <2>1. inbox[r] # <<>> /\ Head(inbox[r]) \in Tokens /\ Tail(inbox[r]) \in Seq(Tokens)
        /\ StartTurn(r, Head(inbox[r])) /\ worker[r].phase = "idle"
    BY <1>1, <1>3 DEF MessageTurn, AtPhase
  <2>2. inbox'[r] = Tail(inbox[r]) /\ \A q \in Runs \ {r} : inbox'[q] = inbox[q]
    BY <1>1, <1>3 DEF MessageTurn
  <2>3. Head(inbox[r]) = inbox[r][1] /\ 1 \in 1..Len(inbox[r])
    BY <1>1, <2>1
  <2>4. Delivered(r, Head(inbox[r]))
    BY <2>3 DEF Delivered
  <2>5. \A i \in 1..Len(Tail(inbox[r])) :
            i + 1 \in 1..Len(inbox[r]) /\ Tail(inbox[r])[i] = inbox[r][i + 1]
    BY <1>1, <2>1
  <2>6. \A i \in 1..Len(inbox'[r]) : \E j \in 1..Len(inbox[r]) : inbox'[r][i] = inbox[r][j]
    BY <2>2, <2>5
  <2> QED
    BY <1>2, <2>1, <2>2, <2>4, <2>6, StartTurnStands
<1>4. CASE WakeTurn(r) \/ AnsweredTurn(r)
  <2>1. StartTurn(r, None) /\ inbox' = inbox /\ worker[r].phase \in {"idle", "starting"}
    BY <1>4 DEF WakeTurn, AnsweredTurn, AtPhase
  <2> QED
    BY <1>2, <2>1, StartTurnStands
<1> QED
  BY <1>3, <1>4

\* A turn that goes on changes neither its lease nor, by itself, the row.
LEMMA MovesStands ==
    ASSUME Base, QuestionsInv, overtaken \subseteq overtaken',
           NEW r \in Runs, NEW t \in Tokens, t = Identity(r),
           NEW w \in Worker, w.current = worker[r].current, Becomes(r, w),
           worker[r].phase \notin {"idle", "failing"},
           \A q \in Runs \ {r} : run'[q] = run[q], UNCHANGED <<granted>>,
           \A read \in reads : read \in reads',
           \A read \in reads' \ reads :
               read.run = r /\ read.token = t /\ w.phase = "failing",
           SameRow(r) \/ Holds(run[r], t),
           SameRow(r) \/ run'[r].status # "waiting_for_input" \/ run'[r].token = run[r].token,
           r \notin overtaken /\ w.phase \in {"model", "step"} /\ Holds(run[r], t)' =>
               run'[r].session = address[r],
           AskOK(r)', ClaimOK(r)'
    PROVE  QuestionsInv'
<1>1. worker \in [Runs -> Worker]
  BY BaseFacts
<1>2. /\ worker'[r] = w /\ \A q \in Runs \ {r} : worker'[q] = worker[q]
      /\ UNCHANGED <<dispatch, address, inbox, answer>>
  BY <1>1 DEF Becomes
<1>3. Identity(r)' = t /\ \A u \in Tokens : Delivered(r, u)' => Delivered(r, u)
  BY <1>2 DEF Identity, Delivered
<1>4. TurnOK(r)'
  BY <1>2, <1>3 DEF TurnOK, Holds
<1> QED
  BY <1>2, <1>3, <1>4, TurnIsDelivered, TurnStands

LEMMA FailsStands ==
    ASSUME Base, QuestionsInv, overtaken \subseteq overtaken',
           NEW r \in Runs, worker[r].phase \notin {"idle", "failing"}, Fails(r)
    PROVE  QuestionsInv'
<1> DEFINE w == [worker[r] EXCEPT !.phase = "failing"]
<1>1. Identity(r) \in Tokens /\ worker[r] \in Worker
  BY BaseFacts
<1>0. PICK t \in Tokens : t = Identity(r)
  BY <1>1
<1>2. w \in Worker /\ w.phase = "failing" /\ w.current = worker[r].current
  BY <1>1 DEF Worker, Phase
<1>3. Becomes(r, w) /\ UNCHANGED <<run, granted, answer>>
  BY DEF Fails, Moves, Becomes, Release, ReleaseRead, RunUnchanged
<1>4. /\ \A read \in reads : read \in reads'
      /\ \A read \in reads' \ reads : read.run = r /\ read.token = t
      /\ run[r].token = t => \E read \in reads' :
                                read.run = r /\ read.by = "worker" /\ read.token = t
  <2>1. CASE run[r].token # t
    BY <1>0, <2>1 DEF Fails, Release, RunUnchanged
  <2>2. CASE run[r].token = t
    <3> DEFINE new == [run |-> r, by |-> "worker", token |-> t, attempts |-> run[r].attempts,
                       outcome |-> run[r].outcome, report |-> run[r].report]
    <3>1. reads' = reads \cup {new}
      BY <1>0, <2>2 DEF Fails, Release, ReleaseRead
    <3>2. new.run = r /\ new.by = "worker" /\ new.token = t
      OBVIOUS
    <3> HIDE DEF new
    <3> QED
      BY <3>1, <3>2
  <2> QED
    BY <2>1, <2>2
<1>5. StandInv(r) /\ SameRow(r) /\ SameClaims(r)
  BY <1>3 DEF QuestionsInv, SameRow, SameClaims
<1>6. Asked(r) => Asked(r)'
  BY <1>0, <1>3, <1>4 DEF Asked, Stands
<1>7. AskOK(r)' /\ ClaimOK(r)'
  BY <1>3, <1>5, <1>6, ClaimsKept
<1> HIDE DEF w
<1> QED
  BY <1>0, <1>1, <1>2, <1>3, <1>4, <1>5, <1>7, MovesStands

LEMMA StepsStand ==
    ASSUME Base, QuestionsInv, overtaken \subseteq overtaken', NEW r \in Runs,
           NEW t \in Tokens, t = Identity(r),
           ModelStep(r) \/ ToolCalls(r) \/ Delegate(r) \/ Ask(r) \/ TurnFails(r)
    PROVE  QuestionsInv'
<1>1. /\ worker[r] \in Worker /\ run[r] \in Row /\ run \in [Runs -> Row]
      /\ worker[r].phase \in {"model", "step", "parked"}
      /\ run[r].seq \in Nat
  BY BaseFacts DEF ModelStep, ToolCalls, Delegate, Ask, TurnFails, AtPhase
<1>2. t \in Tokens /\ address[r] \in Sessions /\ Delivered(r, t)
  BY <1>1, BaseFacts, TurnIsDelivered
<1>3. StandInv(r)
  BY DEF QuestionsInv
<1>4. CASE Fails(r)
  BY <1>1, <1>4, FailsStands
<1>5. CASE RunUnchanged /\ (Moves(r, "step") \/ Moves(r, "model")) /\ worker[r].phase \in {"model", "step"}
  <2>1. PICK phase \in {"model", "step"} : Moves(r, phase)
    BY <1>5
  <2> DEFINE w == [worker[r] EXCEPT !.phase = phase]
  <2>2. w \in Worker /\ w.current = worker[r].current /\ Becomes(r, w)
    BY <1>1, <2>1 DEF Worker, Phase, Moves
  <2>3. UNCHANGED <<run, granted, reads, answer, address>> /\ SameRow(r) /\ SameClaims(r)
    BY <1>5, <2>2 DEF RunUnchanged, Becomes, SameRow, SameClaims
  <2>4. Asked(r) => Asked(r)'
    BY <1>5, <2>3 DEF Asked, Stands
  <2>5. AskOK(r)' /\ ClaimOK(r)'
    BY <1>3, <2>3, <2>4, ClaimsKept
  <2>6. r \notin overtaken /\ Holds(run[r], t)' => run'[r].session = address[r]
    BY <1>3, <1>5, <2>3 DEF StandInv, TurnOK, Holds
  <2> HIDE DEF w
  <2> QED
    BY <1>2, <1>5, <2>2, <2>3, <2>5, <2>6, MovesStands
<1>6. CASE Delegate(r)
  <2> DEFINE w == [worker[r] EXCEPT !.phase = "model", !.delegated = TRUE]
  <2>1. w \in Worker /\ w.current = worker[r].current /\ Becomes(r, w) /\ w.phase = "model"
    BY <1>1, <1>6 DEF Worker, Phase, Delegate
  <2>2. UNCHANGED <<granted, reads, answer, address>> /\ SameClaims(r) /\ worker[r].phase = "step"
        /\ (run' = run \/ (Holds(run[r], t)
                           /\ run' = [run EXCEPT ![r] = [run[r] EXCEPT !.deferred = worker[r].turn]]))
    BY <1>6, <2>1 DEF Delegate, Becomes, Defer, Write, RunUnchanged, SameClaims, AtPhase
  <2>3. SameRow(r) /\ \A q \in Runs \ {r} : run'[q] = run[q]
    BY <1>1, <2>2 DEF SameRow, Row
  <2>4. Asked(r) => Asked(r)'
    BY <2>2, <2>3 DEF Asked, Stands, SameRow
  <2>5. AskOK(r)' /\ ClaimOK(r)'
    BY <1>3, <2>2, <2>3, <2>4, ClaimsKept
  <2>6. r \notin overtaken /\ Holds(run[r], t)' => run'[r].session = address[r]
    BY <1>3, <2>2, <2>3 DEF StandInv, TurnOK, Holds, SameRow
  <2> HIDE DEF w
  <2> QED
    BY <1>2, <2>1, <2>2, <2>3, <2>5, <2>6, MovesStands
<1>7. CASE Ask(r)
  <2> DEFINE w == [worker[r] EXCEPT !.phase = "parked"]
  <2>1. w \in Worker /\ w.current = worker[r].current /\ Becomes(r, w) /\ w.phase = "parked"
    BY <1>1, <1>7 DEF Worker, Phase, Ask, Moves
  <2>2. UNCHANGED <<granted, reads, answer, address>> /\ SameClaims(r) /\ worker[r].phase = "step"
    BY <1>7, <2>1 DEF Ask, Becomes, WaitForInput, Write, RunUnchanged, SameClaims, AtPhase
  <2>3. CASE run' = run
    <3>1. SameRow(r) /\ (Asked(r) => Asked(r)')
      BY <2>2, <2>3 DEF SameRow, Asked, Stands
    <3>2. AskOK(r)' /\ ClaimOK(r)'
      BY <1>3, <2>2, <3>1, ClaimsKept
    <3> HIDE DEF w
    <3> QED
      BY <1>2, <2>1, <2>2, <2>3, <3>1, <3>2, MovesStands
  <2>4. CASE Holds(run[r], t) /\ WaitForInput(r, t)
    <3>1. /\ run' = [run EXCEPT ![r] = [run[r] EXCEPT
                         !.question = run[r].seq + 1, !.lease = "none", !.seq = run[r].seq + 1,
                         !.report = "pending", !.status = "waiting_for_input"]]
          /\ overtaken' = IF \E a \in Answers : UnderWay(a, r)
                          THEN overtaken \cup {r} ELSE overtaken
      BY <1>1, <1>7, <2>4 DEF Ask, WaitForInput, Write
    <3>2. /\ run'[r].question = run'[r].seq /\ run'[r].seq # 0
          /\ run'[r].session = run[r].session /\ run'[r].token = t /\ run[r].token = t
          /\ \A q \in Runs \ {r} : run'[q] = run[q]
      BY <1>1, <2>4, <3>1 DEF Row, Holds
    <3>3. r \notin overtaken => run[r].session = address[r]
      BY <1>3, <2>2, <2>4 DEF StandInv, TurnOK
    <3>4. worker'[r].phase = "parked" /\ Identity(r)' = t
      BY <2>1, <2>2, BaseFacts DEF Becomes, Identity
    <3>5. r \notin overtaken => Asked(r)'
      BY <1>2, <2>2, <3>2, <3>3, <3>4 DEF Asked, Stands
    <3>6. ASSUME NEW a \in Answers, UnderWay(a, r)' PROVE r \in overtaken'
      BY <2>2, <3>1, <3>6 DEF UnderWay
    <3>7. AskOK(r)' /\ ClaimOK(r)'
      BY <3>5, <3>6 DEF AskOK, ClaimOK
    <3> HIDE DEF w
    <3> QED
      BY <1>2, <2>1, <2>2, <2>4, <3>2, <3>7, MovesStands
  <2> QED
    BY <1>7, <2>3, <2>4 DEF Ask, RunUnchanged
<1> QED
  BY <1>4, <1>5, <1>6, <1>7 DEF ModelStep, ToolCalls, TurnFails, AtPhase

\* A turn ends, and its session waits for the next message.
LEMMA RestsStands ==
    ASSUME Base, QuestionsInv, overtaken \subseteq overtaken',
           NEW r \in Runs, NEW t \in Tokens, t = Identity(r),
           Rests(r), UNCHANGED <<granted, reads>>,
           worker[r].phase = "failing" =>
               \A read \in reads : read.run # r \/ read.by # "worker",
           \A q \in Runs \ {r} : run'[q] = run[q],
           SameRow(r) \/ Holds(run[r], t),
           SameRow(r) \/ run'[r].status # "waiting_for_input" \/ run'[r].token = run[r].token,
           AskOK(r)', ClaimOK(r)'
    PROVE  QuestionsInv'
<1>1. /\ worker'[r] = IdleWorker /\ \A q \in Runs \ {r} : worker'[q] = worker[q]
      /\ UNCHANGED <<dispatch, address, inbox, answer>>
  BY BaseFacts DEF Rests, Becomes
<1>2. \A u \in Tokens : Delivered(r, u)' => Delivered(r, u)
  BY <1>1, NoneAssumption DEF Delivered, IdleWorker
<1>3. TurnOK(r)'
  BY <1>1 DEF TurnOK, IdleWorker
<1> QED
  BY <1>1, <1>2, <1>3, TurnIsDelivered, TurnStands

LEMMA EndsStand ==
    ASSUME Base, QuestionsInv, overtaken \subseteq overtaken',
           NEW r \in Runs, NEW t \in Tokens, t = Identity(r),
           FailureHandled(r) \/ \E kind \in {"result", "nothing_to_report"} : FinalMessage(r, kind)
    PROVE  QuestionsInv'
<1>1. /\ run[r] \in Row /\ run \in [Runs -> Row] /\ answer \in [Answers -> Answer]
      /\ granted \in [Runs -> SUBSET Tokens]
      /\ Rests(r) /\ UNCHANGED <<granted, reads, answer>>
      /\ worker[r].phase \in {"step", "failing"}
  BY BaseFacts DEF FailureHandled, FinalMessage, Complete, Write, RunUnchanged, Rests, Becomes, AtPhase
<1>2. StandInv(r) /\ SameClaims(r) /\ Delivered(r, t)
  BY <1>1, TurnIsDelivered DEF QuestionsInv, SameClaims
<1>3. worker[r].phase = "failing" =>
               \A read \in reads : read.run # r \/ read.by # "worker"
  BY DEF FailureHandled, FinalMessage, AtPhase
<1>4. CASE run' = run
  <2>1. SameRow(r) /\ (Asked(r) => Asked(r)')
    BY <1>1, <1>4 DEF SameRow, Asked, Stands, Rests, Becomes
  <2>2. AskOK(r)' /\ ClaimOK(r)'
    BY <1>1, <1>2, <2>1, ClaimsKept
  <2> QED
    BY <1>1, <1>3, <1>4, <2>1, <2>2, RestsStands
<1>5. ASSUME NEW kind \in {"result", "nothing_to_report"},
             Holds(run[r], t), Write(r, Completed(run[r], kind))
      PROVE  QuestionsInv'
  <2>1. /\ run'[r] = Completed(run[r], kind) /\ \A q \in Runs \ {r} : run'[q] = run[q]
    BY <1>1, <1>5 DEF Write
  <2>2. run'[r].status = "completed" /\ run'[r].token = None
    BY <1>1, <2>1 DEF Completed, Row
  <2>3. AskOK(r)'
    BY <2>2 DEF AskOK
  <2>4. \A a \in Answers : UnderWay(a, r)' <=> UnderWay(a, r)
    BY <1>1 DEF UnderWay
  <2>5. \A a \in Answers : r \notin overtaken /\ UnderWay(a, r) =>
            answer[a].token \in granted[r] /\ answer[a].token # None
    BY <1>1, <1>2 DEF StandInv, ClaimOK
  <2>6. ClaimOK(r)'
    <3>1. answer' = answer /\ granted' = granted
      BY <1>1
    <3>2. ASSUME NEW a \in Answers, r \notin overtaken', UnderWay(a, r)'
          PROVE  /\ answer[a].token \in granted[r] /\ answer[a].token # run'[r].token
                 /\ ~Holds(run[r], answer[a].token)'
      BY <2>2, <2>4, <2>5, <3>1, <3>2 DEF Holds
    <3> QED
      BY <2>2, <3>1, <3>2 DEF ClaimOK, Holds
  <2> QED
    BY <1>1, <1>3, <1>5, <2>1, <2>2, <2>3, <2>6, RestsStands
<1> QED
  BY <1>4, <1>5 DEF FailureHandled, FinalMessage, Complete, RunUnchanged

\* A session that is gone holds no lease.
LEMMA SessionGone ==
    ASSUME Base, NEW r \in Runs, SessionEnds(r)
    PROVE  /\ worker'[r].phase = "idle" /\ \A u \in Tokens : ~Delivered(r, u)'
           /\ \A q \in Runs \ {r} : /\ address'[q] = address[q] /\ inbox'[q] = inbox[q]
                                    /\ worker'[q] = worker[q]
<1>1. /\ address'[r] = None /\ inbox'[r] = <<>> /\ worker'[r] = IdleWorker
      /\ \A q \in Runs \ {r} : /\ address'[q] = address[q] /\ inbox'[q] = inbox[q]
                               /\ worker'[q] = worker[q]
  BY BaseFacts DEF SessionEnds
<1> QED
  BY <1>1 DEF Delivered, IdleWorker

LEMMA SessionFailsStands ==
    ASSUME Base, QuestionsInv, overtaken \subseteq overtaken',
           NEW r \in Runs, NEW t \in Tokens, t = Identity(r), SessionFails(r)
    PROVE  QuestionsInv'
<1>1. /\ UNCHANGED <<run, granted, dispatch, answer>> /\ Release(r, t, "worker")
      /\ worker[r].phase = "parked"
      /\ worker'[r].phase = "idle" /\ \A u \in Tokens : ~Delivered(r, u)'
      /\ \A q \in Runs \ {r} : /\ address'[q] = address[q] /\ inbox'[q] = inbox[q]
                               /\ worker'[q] = worker[q]
  BY SessionGone DEF SessionFails, Release, ReleaseRead, RunUnchanged, AtPhase
<1>2. /\ \A read \in reads : read \in reads'
      /\ \A read \in reads' \ reads : read.run = r /\ read.token = t
      /\ run[r].token = t => \E read \in reads' :
                                read.run = r /\ read.by = "worker" /\ read.token = t
  <2>1. CASE run[r].token # t
    BY <1>1, <2>1 DEF Release, RunUnchanged
  <2>2. CASE run[r].token = t
    <3> DEFINE new == [run |-> r, by |-> "worker", token |-> t, attempts |-> run[r].attempts,
                       outcome |-> run[r].outcome, report |-> run[r].report]
    <3>1. reads' = reads \cup {new}
      BY <1>1, <2>2 DEF Release, ReleaseRead
    <3>2. new.run = r /\ new.by = "worker" /\ new.token = t
      OBVIOUS
    <3> HIDE DEF new
    <3> QED
      BY <3>1, <3>2
  <2> QED
    BY <2>1, <2>2
<1>3. StandInv(r) /\ SameRow(r) /\ SameClaims(r) /\ Delivered(r, t)
  BY <1>1, TurnIsDelivered DEF QuestionsInv, SameRow, SameClaims
<1>4. \A u \in Tokens : StageOK(r, u)'
  BY <1>1, <1>3 DEF StandInv, StageOK, Holds
<1>5. ASSUME NEW read \in reads', read.run = r PROVE ReadOK(read)'
  <2>1. CASE read \in reads
    <3>1. ReadOK(read) /\ read.token \in Tokens
      BY <1>3, <1>5, <2>1 DEF StandInv, Base, RunsInv, TypeOK, Read
    <3> QED
      BY <1>1, <1>5, <2>1, <3>1 DEF ReadOK
  <2>2. CASE read \notin reads
    <3>1. dispatch[r][t].phase \notin {"none", "claimed"}
      BY <1>3 DEF StandInv, StageOK
    <3> QED
      BY <1>1, <1>2, <1>5, <2>2, <3>1 DEF ReadOK
  <2> QED
    BY <2>1, <2>2
<1>6. TurnOK(r)'
  BY <1>1 DEF TurnOK
<1>7. Asked(r) => Asked(r)'
  BY <1>1, <1>2 DEF Asked, Stands
<1>8. AskOK(r)' /\ ClaimOK(r)'
  BY <1>1, <1>3, <1>7, ClaimsKept
<1>9. Only(r)
  BY <1>1, <1>2 DEF Only, SameSession, SameClaims
<1>10. PastOK(r)'
  BY <1>1, <1>3, PastKept DEF SameRow, Past
<1> QED
  BY <1>4, <1>5, <1>6, <1>8, <1>9, <1>10, OneRun DEF StandInv

LEMMA WorkerStands ==
    ASSUME Base, QuestionsInv, overtaken \subseteq overtaken', NEW r \in Runs, WorkerStep(r)
    PROVE  QuestionsInv'
<1>1. CASE MessageTurn(r) \/ WakeTurn(r) \/ AnsweredTurn(r)
  BY <1>1, TurnsStand
<1>2. CASE ~(MessageTurn(r) \/ WakeTurn(r) \/ AnsweredTurn(r))
  <2>1. worker[r].phase # "idle"
    BY <1>2 DEF WorkerStep, ModelStep, ToolCalls, Delegate, Ask, FinalMessage, TurnFails,
                SessionFails, FailureHandled, AtPhase
  <2>2. PICK t \in Tokens : t = Identity(r)
    BY <2>1, BaseFacts
  <2> QED
    BY <1>2, <2>2, StepsStand, EndsStand, SessionFailsStands DEF WorkerStep
<1> QED
  BY <1>1, <1>2

\* The session a dispatch records is the one that was given its lease.
LEMMA PersistStands ==
    ASSUME Base, QuestionsInv, overtaken \subseteq overtaken',
           NEW r \in Runs, NEW t \in Tokens, PersistSession(r, t)
    PROVE  QuestionsInv'
<1> DEFINE s == dispatch[r][t].session
           new == IF SessionPersisted(run[r], t, s) THEN DispatchOver
                  ELSE [dispatch[r][t] EXCEPT !.phase = "refused"]
<1>1. /\ dispatch \in [Runs -> [Tokens -> Dispatch]] /\ dispatch[r][t] \in Dispatch
      /\ run[r] \in Row /\ run \in [Runs -> Row] /\ dispatch[r][t].phase = "sent"
      /\ s \in Sessions /\ s # None
  BY BaseFacts DEF PersistSession, Dispatching, Base, CallersOK, DispatchesOK
<1>2. new \in Dispatch /\ new.phase \in {"done", "refused"}
  BY <1>1, DispatchOverIs DEF Dispatch
<1>3. /\ dispatch' = [dispatch EXCEPT ![r][t] = new]
      /\ UNCHANGED <<granted, reads, address, inbox, worker, answer>>
      /\ \/ ~Holds(run[r], t) /\ run' = run
         \/ Holds(run[r], t) /\ run' = [run EXCEPT ![r] = [run[r] EXCEPT !.session = s]]
  BY <1>1 DEF PersistSession, SetSession, Write, RunUnchanged
<1>4. StandInv(r) /\ StageOK(r, t) /\ t \in granted[r]
  BY <1>1 DEF QuestionsInv, StandInv, StageOK
<1> HIDE DEF s, new
<1>5. CASE run' = run
  BY <1>2, <1>3, <1>4, <1>5, DispatchMovesOn
<1>6. CASE Holds(run[r], t) /\ run' = [run EXCEPT ![r] = [run[r] EXCEPT !.session = s]]
  <2>1. /\ dispatch'[r][t] = new
        /\ \A u \in Tokens \ {t} : dispatch'[r][u] = dispatch[r][u]
        /\ \A q \in Runs \ {r} : dispatch'[q] = dispatch[q] /\ run'[q] = run[q]
    BY <1>1, <1>2, <1>3, <1>6
  <2>2. /\ run'[r].token = t /\ run'[r].status = "running" /\ run'[r].session = s
        /\ run'[r].question = run[r].question /\ run'[r].seq = run[r].seq
    BY <1>1, <1>6 DEF Holds, Row
  <2>3. \A u : Delivered(r, u)' <=> Delivered(r, u)
    BY <1>3 DEF Delivered
  <2>4. Delivered(r, t) => s = address[r]
    BY <1>1, <1>4 DEF StageOK, s
  <2>5. \A u \in Tokens : StageOK(r, u)'
    <3>1. StageOK(r, t)'
      BY <1>2, <1>3, <1>4, <2>1 DEF StageOK
    <3>2. ASSUME NEW u \in Tokens \ {t} PROVE StageOK(r, u)'
      BY <1>3, <1>4, <1>6, <2>1, <2>3 DEF StandInv, StageOK, Holds
    <3> QED
      BY <3>1, <3>2
  <2>6. ASSUME NEW read \in reads', read.run = r PROVE ReadOK(read)'
    <3>1. ReadOK(read) /\ read.token \in Tokens
      BY <1>3, <1>4, <2>6 DEF StandInv, Base, RunsInv, TypeOK, Read
    <3> QED
      BY <1>2, <1>3, <2>1, <2>3, <2>6, <3>1 DEF ReadOK
  <2>7. TurnOK(r)'
    <3>1. Identity(r)' = Identity(r) /\ Delivered(r, Identity(r))
      BY <1>3, TurnIsDelivered DEF Identity
    <3> QED
      BY <1>3, <2>2, <2>4, <3>1 DEF TurnOK, Holds
  <2>8. Asked(r) => Asked(r)'
    <3> SUFFICES ASSUME Asked(r) PROVE Asked(r)'
      OBVIOUS
    <3>1. run[r].token = t
      BY <1>6 DEF Holds
    <3>2. CASE worker[r].phase = "parked" /\ address[r] = run[r].session /\ Identity(r) = run[r].token
      <4>1. s = address[r] /\ Identity(r)' = t
        BY <1>3, <2>4, <3>1, <3>2, TurnIsDelivered DEF Identity
      <4> QED
        BY <1>1, <1>3, <2>2, <3>2, <4>1 DEF Asked, Stands
    <3>3. CASE \E read \in reads : read.run = r /\ read.by = "worker" /\ read.token = run[r].token
      BY <1>1, <1>3, <2>2, <3>1, <3>3 DEF Asked, Stands
    <3> QED
      BY <3>2, <3>3 DEF Asked, Stands
  <2>9. AskOK(r)'
    BY <2>2 DEF AskOK
  <2>10. ClaimOK(r)'
    <3>1. \A a \in Answers : UnderWay(a, r)' <=> UnderWay(a, r)
      BY <1>3 DEF UnderWay
    <3> QED
      BY <1>3, <1>4, <1>6, <2>2, <2>8, <3>1 DEF StandInv, ClaimOK, Holds
  <2>11. Only(r)
    BY <1>3, <2>1 DEF Only, SameSession, SameClaims
  <2>12. PastOK(r)'
    <3>1. \A u : Past(r, u) => Past(r, u)'
      BY <1>2, <2>1 DEF Past
    <3> QED
      BY <1>3, <1>4, <2>2, <3>1, PastKept DEF SameClaims
  <2> QED
    BY <2>5, <2>6, <2>7, <2>9, <2>10, <2>11, <2>12, OneRun DEF StandInv
<1> QED
  BY <1>3, <1>5, <1>6

LEMMA RefusedStands ==
    ASSUME Base, QuestionsInv, overtaken \subseteq overtaken',
           NEW r \in Runs, NEW t \in Tokens, SendRefused(r, t)
    PROVE  QuestionsInv'
<1> DEFINE new == [dispatch[r][t] EXCEPT !.phase = "refused"]
<1>1. /\ dispatch \in [Runs -> [Tokens -> Dispatch]] /\ dispatch[r][t] \in Dispatch
      /\ dispatch[r][t].phase = "claimed" /\ RunUnchanged /\ UNCHANGED answer
  BY BaseFacts DEF SendRefused, Dispatching
<1>2. new \in Dispatch /\ new.phase = "refused"
  BY <1>1 DEF Dispatch
<1>3. dispatch' = [dispatch EXCEPT ![r][t] = new]
  BY <1>1 DEF SendRefused, Dispatch
<1> HIDE DEF new
<1>4. StandInv(r) /\ StageOK(r, t) /\ t \in granted[r] /\ ~Delivered(r, t)
  BY <1>1 DEF QuestionsInv, StandInv, StageOK
<1>5. CASE UNCHANGED <<address, inbox, worker, tasks>>
  BY <1>1, <1>2, <1>3, <1>4, <1>5, DispatchMovesOn DEF RunUnchanged
<1>6. CASE dispatch[r][t].restart /\ SessionEnds(r)
  <2>1. /\ worker'[r].phase = "idle" /\ \A u \in Tokens : ~Delivered(r, u)'
        /\ \A q \in Runs \ {r} : /\ address'[q] = address[q] /\ inbox'[q] = inbox[q]
                                 /\ worker'[q] = worker[q]
    BY <1>6, SessionGone
  <2>2. /\ dispatch'[r][t] = new
        /\ \A u \in Tokens \ {t} : dispatch'[r][u] = dispatch[r][u]
        /\ \A q \in Runs \ {r} : dispatch'[q] = dispatch[q]
    BY <1>1, <1>2, <1>3
  <2>3. run[r].token = t
    BY <1>1, <1>4, <1>6 DEF StageOK, Holds
  <2>4. \A u \in Tokens : StageOK(r, u)'
    BY <1>1, <1>2, <1>4, <2>1, <2>2 DEF StandInv, StageOK, RunUnchanged
  <2>5. ASSUME NEW read \in reads', read.run = r PROVE ReadOK(read)'
    <3>1. ReadOK(read) /\ read.token \in Tokens
      BY <1>1, <1>4, <2>5 DEF StandInv, Base, RunsInv, TypeOK, Read, RunUnchanged
    <3> QED
      BY <1>2, <2>1, <2>2, <2>5, <3>1 DEF ReadOK
  <2>6. TurnOK(r)'
    BY <2>1 DEF TurnOK
  <2>7. Asked(r) => Asked(r)'
    BY <1>1, <1>4, <2>3, TurnIsDelivered DEF Asked, Stands, RunUnchanged
  <2>8. AskOK(r)' /\ ClaimOK(r)'
    BY <1>1, <1>4, <2>7, ClaimsKept DEF SameRow, SameClaims, RunUnchanged
  <2>9. Only(r)
    BY <1>1, <2>1, <2>2 DEF Only, SameSession, SameClaims, RunUnchanged
  <2>10. PastOK(r)'
    BY <1>1, <1>2, <1>4, <2>2, PastSent DEF SameClaims, RunUnchanged
  <2> QED
    BY <2>4, <2>5, <2>6, <2>8, <2>9, <2>10, OneRun DEF StandInv
<1> QED
  BY <1>5, <1>6 DEF SendRefused

LEMMA DispatchStands ==
    ASSUME Base, QuestionsInv, overtaken \subseteq overtaken',
           NEW r \in Runs, NEW t \in Tokens,
           DispatchStep(r, t) \/ DispatchCrash(r, t)
    PROVE  QuestionsInv'
<1>1. CASE Send(r, t) \/ SendUnknown(r, t)
  BY <1>1, DeliverStands DEF Send, SendUnknown
<1>2. CASE SendRefused(r, t) \/ PersistSession(r, t)
  BY <1>2, RefusedStands, PersistStands
<1>3. CASE ReleaseDispatch(r, t)
  <2>1. /\ dispatch' = [dispatch EXCEPT ![r][t] = DispatchOver]
        /\ UNCHANGED <<run, granted, address, inbox, worker, answer>>
        /\ \A read \in reads' \ reads : read.run = r /\ read.by = "dispatcher" /\ read.token = t
        /\ \A read \in reads : read \in reads'
    BY <1>3 DEF ReleaseDispatch, Release, ReleaseRead, RunUnchanged
  <2>2. t \in granted[r]
    BY <1>3 DEF ReleaseDispatch, Dispatching, QuestionsInv, StandInv, StageOK
  <2> QED
    BY <2>1, <2>2, DispatchOverIs, DispatchMovesOn
<1>4. CASE DispatchCrash(r, t)
  <2>1. /\ dispatch' = [dispatch EXCEPT ![r][t] = DispatchOver]
        /\ UNCHANGED <<run, granted, address, inbox, worker, answer>>
        /\ \A read \in reads' : read \in reads
        /\ \A read \in reads \ reads' : read.run = r /\ read.by = "dispatcher"
    BY <1>4 DEF DispatchCrash, ReleaseLost, RunUnchanged
  <2>2. t \in granted[r]
    <3>1. CASE dispatch[r][t].phase \in {"claimed", "sent", "refused"}
      BY <3>1 DEF QuestionsInv, StandInv, StageOK
    <3>2. ASSUME NEW read \in reads, read.run = r, read.token = t PROVE t \in granted[r]
      BY <3>2 DEF Base, RunsInv, ReadInv
    <3> QED
      BY <1>4, <3>1, <3>2 DEF DispatchCrash
  <2> QED
    BY <2>1, <2>2, DispatchOverIs, DispatchMovesOn
<1> QED
  BY <1>1, <1>2, <1>3, <1>4 DEF DispatchStep

\* The second statement of a release: the row leaves the lease, or had left it.
LEMMA WritesStand ==
    ASSUME Base, QuestionsInv, overtaken \subseteq overtaken',
           NEW read \in reads, ReleaseWrites(read)
    PROVE  QuestionsInv'
<1>1. /\ read.run \in Runs /\ read.token \in Tokens
      /\ reads' = reads \ {read}
      /\ UNCHANGED <<granted, dispatch, address, inbox, worker, answer>>
      /\ run' = IF run[read.run].token = read.token
                THEN [run EXCEPT ![read.run] = Released(run[read.run], read)] ELSE run
  BY DEF ReleaseWrites, ReleaseWrite, workerVars, Base, RunsInv, TypeOK, Read
<1>2. PICK r \in Runs : r = read.run
  BY <1>1
<1>3. /\ run[r] \in Row /\ run \in [Runs -> Row] /\ run[r].seq \in Nat
      /\ granted \in [Runs -> SUBSET Tokens] /\ answer \in [Answers -> Answer]
  BY BaseFacts
<1>4. StandInv(r) /\ ReadOK(read) /\ \A u : Delivered(r, u)' <=> Delivered(r, u)
  BY <1>1, <1>2 DEF QuestionsInv, StandInv, Delivered
<1>5. ASSUME NEW other \in reads', other.run = r PROVE ReadOK(other)'
  <2>1. ReadOK(other)
    BY <1>1, <1>4, <1>5 DEF StandInv
  <2> QED
    BY <1>1, <1>4, <1>5, <2>1 DEF ReadOK
<1>6. CASE run[r].token # read.token
  <2>1. run' = run
    BY <1>1, <1>2, <1>6
  <2>2. \A u \in Tokens : StageOK(r, u)'
    BY <1>1, <1>4, <2>1 DEF StandInv, StageOK
  <2>3. TurnOK(r)'
    BY <1>1, <1>4, <2>1 DEF StandInv, TurnOK, Identity
  <2>4. Asked(r) => Asked(r)'
    BY <1>1, <1>6, <2>1 DEF Asked, Stands, Identity
  <2>5. AskOK(r)' /\ ClaimOK(r)'
    BY <1>1, <1>4, <2>1, <2>4, ClaimsKept DEF SameRow, SameClaims
  <2>6. Only(r)
    BY <1>1, <1>2, <2>1 DEF Only, SameSession, SameClaims
  <2>7. PastOK(r)'
    BY <1>1, <1>4, <2>1, PastKept DEF SameClaims, Past
  <2> QED
    BY <1>5, <2>2, <2>3, <2>5, <2>6, <2>7, OneRun DEF StandInv
<1>7. CASE run[r].token = read.token
  <2>1. /\ run'[r] = Released(run[r], read)
        /\ \A q \in Runs \ {r} : run'[q] = run[q]
    BY <1>1, <1>2, <1>3, <1>7
  <2>2. /\ run'[r].token = None /\ run'[r].status \in {"queued", "dead_letter"}
    BY <1>3, <2>1 DEF Released, Row
  <2>3. \A u \in Tokens : StageOK(r, u)'
    <3>1. ASSUME NEW u \in Tokens
          PROVE  ~(dispatch[r][u].phase = "claimed" /\ dispatch[r][u].restart)
      BY <1>2, <1>4, <1>7 DEF StandInv, StageOK, ReadOK, Holds
    <3> QED
      BY <1>1, <1>4, <3>1 DEF StandInv, StageOK
  <2>4. TurnOK(r)' /\ AskOK(r)'
    BY <2>2 DEF TurnOK, AskOK, Holds
  <2>5. ClaimOK(r)'
    <3>1. \A a \in Answers : r \notin overtaken /\ UnderWay(a, r) =>
              answer[a].token \in granted[r] /\ answer[a].token # None
      BY <1>3, <1>4 DEF StandInv, ClaimOK
    <3>2. \A a \in Answers : UnderWay(a, r)' <=> UnderWay(a, r)
      BY <1>1 DEF UnderWay
    <3> QED
      BY <1>1, <1>4, <2>2, <3>1, <3>2 DEF StandInv, ClaimOK, Holds
  <2>6. Only(r)
    BY <1>1, <1>2, <2>1 DEF Only, SameSession, SameClaims
  <2>7. PastOK(r)'
    BY <1>1, <1>4, <2>2, PastKept DEF SameClaims, Past
  <2> QED
    BY <1>5, <2>3, <2>4, <2>5, <2>6, <2>7, OneRun DEF StandInv
<1> QED
  BY <1>6, <1>7

LEMMA PastRouted ==
    ASSUME NEW r \in Runs, UNCHANGED dispatch,
           run'[r].status = "waiting_for_input" => Past(r, run'[r].token),
           \A b \in Answers : UnderWay(b, r)' => Past(r, answer'[b].token)
    PROVE  PastOK(r)'
BY DEF PastOK, Past

\* A step of the answer route is about the run it was asked for.
LEMMA RouteStands ==
    ASSUME Base, QuestionsInv, overtaken \subseteq overtaken',
           NEW r \in Runs, NEW a \in Answers,
           UNCHANGED <<dispatch, address, inbox, granted, reads>>,
           \A q \in Runs \ {r} : run'[q] = run[q] /\ worker'[q] = worker[q],
           \A b \in Answers \ {a} : answer'[b] = answer[b],
           \A q \in Runs \ {r} : ~UnderWay(a, q) /\ ~UnderWay(a, q)',
           \A u \in Tokens : Delivered(r, u)' => Delivered(r, u),
           worker[r].phase = "failing" => worker'[r].phase = "failing",
           run'[r].token = run[r].token, run'[r].session = run[r].session,
           \/ run'[r].status = "running"
           \/ run'[r].status = run[r].status
           \/ \A u \in Tokens : Holds(run[r], u) => ~Dispatching(r, u, "claimed"),
           PastOK(r)', TurnOK(r)', AskOK(r)', ClaimOK(r)'
    PROVE  QuestionsInv'
<1>1. StandInv(r)
  BY DEF QuestionsInv
<1>2. \A u \in Tokens : StageOK(r, u)'
  BY <1>1 DEF StandInv, StageOK, Holds, Dispatching
<1>3. ASSUME NEW read \in reads', read.run = r PROVE ReadOK(read)'
  <2>1. ReadOK(read) /\ read.token \in Tokens
    BY <1>1, <1>3 DEF StandInv, Base, RunsInv, TypeOK, Read
  <2> QED
    BY <1>3, <2>1 DEF ReadOK
<1>4. Only(r)
  BY DEF Only, SameSession, SameClaims
<1> QED
  BY <1>2, <1>3, <1>4, OneRun DEF StandInv

\* An answer that gives up, or goes on while its question stands.
LEMMA RouteMoves ==
    ASSUME Base, QuestionsInv, overtaken \subseteq overtaken',
           NEW a \in Answers, NEW r \in Runs, NEW new \in Answer,
           answer' = [answer EXCEPT ![a] = new],
           UNCHANGED <<run, granted, reads, dispatch, address, inbox, worker>>,
           answer[a].phase \in {"idle", "asked"} \/ answer[a].run = r,
           \/ new.phase \in {"idle", "asked"}
           \/ /\ answer[a].phase \notin {"idle", "asked", "accepted"}
              /\ new.run = r /\ new.token = answer[a].token
    PROVE  QuestionsInv'
<1>1. /\ answer'[a] = new /\ \A b \in Answers \ {a} : answer'[b] = answer[b]
      /\ StandInv(r)
  BY BaseFacts DEF QuestionsInv
<1>2. \A q \in Runs \ {r} : ~UnderWay(a, q) /\ ~UnderWay(a, q)'
  BY <1>1 DEF UnderWay
<1>3. \A u \in Tokens : Delivered(r, u)' => Delivered(r, u)
  BY DEF Delivered
<1>4. \A b \in Answers : UnderWay(b, r)' => UnderWay(b, r)
  BY <1>1 DEF UnderWay
<1>5. TurnOK(r)' /\ (Asked(r) => Asked(r)')
  BY <1>1 DEF StandInv, TurnOK, Asked, Stands, Identity
<1>6. AskOK(r)'
  BY <1>1, <1>4, <1>5 DEF StandInv, AskOK
<1>7. ClaimOK(r)'
  <2>1. \A b \in Answers : UnderWay(b, r)' =>
            /\ answer'[b].token = answer[b].token
            /\ answer[b].phase = "accepted" => answer'[b].phase = "accepted"
    BY <1>1 DEF UnderWay
  <2> QED
    BY <1>1, <1>4, <1>5, <2>1 DEF StandInv, ClaimOK, Holds
<1>8. PastOK(r)'
  <2>1. \A b \in Answers : UnderWay(b, r)' => answer'[b].token = answer[b].token
    BY <1>1 DEF UnderWay
  <2> QED
    BY <1>1, <1>4, <2>1, PastRouted DEF StandInv, PastOK
<1> QED
  BY <1>1, <1>2, <1>3, <1>5, <1>6, <1>7, <1>8, RouteStands

\* The claim takes a waiting run's question for one answer.
LEMMA ClaimStands ==
    ASSUME Base, QuestionsInv, overtaken \subseteq overtaken',
           NEW a \in Answers, NEW r \in Runs, NEW t \in Tokens,
           r = answer[a].run, t = answer[a].token, answer[a].phase = "asked",
           ClaimInput(r, t), AnswerClaims(a)
    PROVE  QuestionsInv'
<1>1. /\ run[r] \in Row /\ run \in [Runs -> Row] /\ answer \in [Answers -> Answer]
      /\ answer[a] \in Answer /\ StandInv(r)
  BY BaseFacts DEF QuestionsInv
<1>2. /\ run' = [run EXCEPT ![r] = [run[r] EXCEPT !.status = "running", !.lease = "future"]]
      /\ UNCHANGED <<granted, reads, dispatch, address, inbox, worker, tasks>>
      /\ run[r].status = "waiting_for_input" /\ run[r].token = t
  BY DEF ClaimInput, Write, AnswerClaims, OnlyAnswer
<1>3. r \notin overtaken => Asked(r) /\ \A b \in Answers : ~UnderWay(b, r)
  BY <1>1, <1>2 DEF StandInv, AskOK
<1>4. \/ answer' = [answer EXCEPT ![a] = IdleAnswer] /\ r \in overtaken
      \/ answer' = [answer EXCEPT ![a] = [answer[a] EXCEPT !.phase = "claimed"]]
  BY <1>1, <1>2, <1>3 DEF AnswerClaims, Asked
<1>5. /\ \/ answer'[a].phase = "idle" /\ r \in overtaken
         \/ answer'[a].phase = "claimed" /\ answer'[a].run = r /\ answer'[a].token = t
      /\ \A b \in Answers \ {a} : answer'[b] = answer[b]
  <2>1. CASE answer' = [answer EXCEPT ![a] = IdleAnswer] /\ r \in overtaken
    BY <1>1, <2>1 DEF IdleAnswer
  <2>2. CASE answer' = [answer EXCEPT ![a] = [answer[a] EXCEPT !.phase = "claimed"]]
    BY <1>1, <2>2 DEF Answer
  <2> QED
    BY <1>4, <2>1, <2>2
<1>6. /\ run'[r].status = "running" /\ run'[r].token = t /\ run'[r].session = run[r].session
      /\ run'[r].question = run[r].question /\ run'[r].seq = run[r].seq
      /\ \A q \in Runs \ {r} : run'[q] = run[q]
  BY <1>1, <1>2 DEF Row
<1>7. r \notin overtaken => Asked(r)'
  BY <1>2, <1>3, <1>6 DEF Asked, Stands, Identity
<1>8. TurnOK(r)'
  <2>1. CASE worker[r].phase = "parked"
    BY <1>2, <2>1 DEF TurnOK
  <2>2. ASSUME NEW read \in reads, read.run = r, read.by = "worker", read.token = t
        PROVE  worker[r].phase = "failing" \/ Identity(r) # t
    BY <1>1, <2>2, TurnIsDelivered DEF StandInv, ReadOK
  <2>3. r \in overtaken \/ worker[r].phase = "parked" \/ worker[r].phase = "failing" \/ Identity(r) # t
    BY <1>2, <1>3, <2>2 DEF Asked, Stands
  <2> QED
    BY <1>2, <1>6, <2>3 DEF TurnOK, Holds, Identity
<1>9. AskOK(r)'
  BY <1>6 DEF AskOK
<1>10. ClaimOK(r)'
  <2>1. \A b \in Answers : r \notin overtaken /\ UnderWay(b, r)' => b = a
    BY <1>3, <1>5 DEF UnderWay
  <2>2. t \in granted[r]
    BY <1>2, BaseFacts
  <2>3. r \notin overtaken => answer'[a].phase = "claimed" /\ answer'[a].token = t
    BY <1>5
  <2> QED
    BY <1>2, <1>6, <1>7, <2>1, <2>2, <2>3 DEF ClaimOK
<1>11. \A q \in Runs \ {r} : ~UnderWay(a, q) /\ ~UnderWay(a, q)'
  BY <1>5 DEF UnderWay
<1>12. \A u \in Tokens : Delivered(r, u)' => Delivered(r, u)
  BY <1>2 DEF Delivered
<1>13. PastOK(r)'
  <2>1. Past(r, t) /\ \A b \in Answers : UnderWay(b, r) => Past(r, answer[b].token)
    BY <1>1, <1>2 DEF StandInv, PastOK
  <2>2. ASSUME NEW b \in Answers, UnderWay(b, r)' PROVE Past(r, answer'[b].token)
    BY <1>5, <2>1, <2>2 DEF UnderWay
  <2> QED
    BY <1>2, <1>6, <2>1, <2>2, PastRouted
<1> QED
  BY <1>2, <1>5, <1>6, <1>8, <1>9, <1>10, <1>11, <1>12, <1>13, RouteStands

\* A parked session takes the answer that holds its question.
LEMMA ResumeStands ==
    ASSUME Base, QuestionsInv, overtaken \subseteq overtaken',
           NEW a \in Answers, NEW r \in Runs, r = answer[a].run,
           answer[a].phase = "respond", AtPhase(r, {"parked"}), Resumes(r),
           answer' = [answer EXCEPT ![a].phase = "accepted"], RunUnchanged, OnlyAnswer
    PROVE  QuestionsInv'
<1>1. /\ answer[a] \in Answer /\ answer \in [Answers -> Answer]
      /\ worker \in [Runs -> Worker] /\ StandInv(r) /\ UnderWay(a, r)
      /\ run[r].token # None => run[r].token \in Tokens
  BY BaseFacts DEF QuestionsInv, UnderWay
<1>2. /\ answer'[a].phase = "accepted" /\ answer'[a].run = r
      /\ answer'[a].token = answer[a].token
      /\ \A b \in Answers \ {a} : answer'[b] = answer[b]
      /\ worker'[r].phase = "starting" /\ worker'[r].current = None
      /\ \A q \in Runs \ {r} : worker'[q] = worker[q]
      /\ UNCHANGED <<run, granted, reads, dispatch, address, inbox>>
  BY <1>1 DEF Answer, Resumes, IdleWorker, RunUnchanged, OnlyAnswer
<1>3. \A b \in Answers : UnderWay(b, r)' <=> UnderWay(b, r)
  BY <1>1, <1>2 DEF UnderWay
<1>4. \A q \in Runs \ {r} : ~UnderWay(a, q) /\ ~UnderWay(a, q)'
  BY <1>2 DEF UnderWay
<1>5. \A u \in Tokens : Delivered(r, u)' => Delivered(r, u)
  BY <1>2, NoneAssumption DEF Delivered
<1>6. TurnOK(r)'
  BY <1>2 DEF TurnOK
<1>7. AskOK(r)'
  BY <1>1, <1>2 DEF StandInv, AskOK
<1>8. ASSUME NEW b \in Answers, UnderWay(b, r)', answer'[b].phase # "accepted"
      PROVE  r \in overtaken \/ ~Holds(run[r], answer[b].token)'
  <2>1. b # a /\ UnderWay(b, r) /\ answer'[b] = answer[b]
    BY <1>2, <1>3, <1>8
  <2>2. r \in overtaken \/ answer[b].token # run[r].token
    BY <1>1, <2>1 DEF StandInv, ClaimOK
  <2> QED
    BY <1>2, <2>1, <2>2 DEF Holds
<1>9. ClaimOK(r)'
  <2>1. \A b \in Answers : answer'[b].token = answer[b].token
    BY <1>2
  <2>2. ASSUME NEW b \in Answers, UnderWay(b, r)', answer'[b].phase # "accepted",
               Holds(run[r], answer[b].token)'
        PROVE  r \in overtaken
    BY <1>8, <2>2
  <2> QED
    BY <1>1, <1>2, <1>3, <2>1, <2>2 DEF StandInv, ClaimOK
<1>10. AtPhase(r, {"parked"}) => worker[r].phase = "parked"
  BY DEF AtPhase
<1>11. PastOK(r)'
  <2>1. \A b \in Answers : answer'[b].token = answer[b].token
    BY <1>2
  <2>2. \A b \in Answers : UnderWay(b, r)' => Past(r, answer'[b].token)
    BY <1>1, <1>3, <2>1 DEF StandInv, PastOK
  <2>3. run'[r].status = "waiting_for_input" => Past(r, run'[r].token)
    BY <1>1, <1>2 DEF StandInv, PastOK
  <2> QED
    BY <1>2, <2>2, <2>3, PastRouted
<1> QED
  BY <1>2, <1>4, <1>5, <1>6, <1>7, <1>9, <1>10, <1>11, RouteStands

\* The question is put back for whoever held it.
LEMMA RestoreStands ==
    ASSUME Base, QuestionsInv, overtaken \subseteq overtaken',
           NEW a \in Answers, NEW r \in Runs, NEW t \in Tokens,
           r = answer[a].run, t = answer[a].token, answer[a].phase \in {"restore", "respond"},
           RestoreInput(r, t), answer' = [answer EXCEPT ![a] = IdleAnswer],
           OnlyAnswer, UNCHANGED worker
    PROVE  QuestionsInv'
<1>1. /\ run[r] \in Row /\ run \in [Runs -> Row] /\ answer \in [Answers -> Answer]
      /\ StandInv(r) /\ UnderWay(a, r)
  BY BaseFacts DEF QuestionsInv, UnderWay
<1>2. /\ run' = [run EXCEPT ![r] = [run[r] EXCEPT !.status = "waiting_for_input",
                                                  !.lease = "none", !.deferred = None]]
      /\ UNCHANGED <<granted, reads, dispatch, address, inbox, worker>>
      /\ Holds(run[r], t) /\ run[r].token = t
  BY DEF RestoreInput, Write, OnlyAnswer, Holds
<1>3. r \notin overtaken => Asked(r) /\ \A b \in Answers : UnderWay(b, r) => a = b
  BY <1>1, <1>2 DEF StandInv, ClaimOK
<1>4. /\ answer'[a].phase = "idle" /\ \A b \in Answers \ {a} : answer'[b] = answer[b]
  BY <1>1 DEF IdleAnswer
<1>5. /\ run'[r].status = "waiting_for_input" /\ run'[r].token = run[r].token
      /\ run'[r].session = run[r].session
      /\ run'[r].question = run[r].question /\ run'[r].seq = run[r].seq
      /\ \A q \in Runs \ {r} : run'[q] = run[q]
  BY <1>1, <1>2 DEF Row
<1>6. r \notin overtaken => Asked(r)'
  BY <1>2, <1>3, <1>5 DEF Asked, Stands, Identity
<1>7. r \notin overtaken => \A b \in Answers : ~UnderWay(b, r)'
  BY <1>3, <1>4 DEF UnderWay
<1>8. TurnOK(r)' /\ AskOK(r)' /\ ClaimOK(r)'
  BY <1>5, <1>6, <1>7 DEF TurnOK, Holds, AskOK, ClaimOK
<1>9. ~Dispatching(r, t, "claimed")
  BY <1>1 DEF StandInv, PastOK, Past, Dispatching
<1>10. \A u \in Tokens : Holds(run[r], u) => ~Dispatching(r, u, "claimed")
  BY <1>2, <1>9 DEF Holds
<1>11. \A q \in Runs \ {r} : ~UnderWay(a, q) /\ ~UnderWay(a, q)'
  BY <1>4 DEF UnderWay
<1>12. \A u \in Tokens : Delivered(r, u)' => Delivered(r, u)
  BY <1>2 DEF Delivered
<1>13. PastOK(r)'
  <2>1. \A b \in Answers : UnderWay(b, r) => Past(r, answer[b].token)
    BY <1>1 DEF StandInv, PastOK
  <2>2. ASSUME NEW b \in Answers, UnderWay(b, r)' PROVE Past(r, answer'[b].token)
    BY <1>2, <1>4, <2>1, <2>2 DEF UnderWay
  <2>3. run'[r].status = "waiting_for_input" => Past(r, run'[r].token)
    BY <1>1, <1>2, <1>5, <2>1 DEF UnderWay
  <2> QED
    BY <1>2, <2>2, <2>3, PastRouted
<1> QED
  BY <1>2, <1>4, <1>5, <1>8, <1>10, <1>11, <1>12, <1>13, RouteStands

\* The answered question is taken down by the one answer that held it.
LEMMA FinishStands ==
    ASSUME Base, QuestionsInv, overtaken \subseteq overtaken',
           NEW a \in Answers, NEW r \in Runs, NEW t \in Tokens,
           r = answer[a].run, t = answer[a].token, answer[a].phase = "accepted",
           FinishInput(r, t), answer' = [answer EXCEPT ![a] = IdleAnswer],
           OnlyAnswer, UNCHANGED worker
    PROVE  QuestionsInv'
<1>1. /\ run[r] \in Row /\ run \in [Runs -> Row] /\ answer \in [Answers -> Answer]
      /\ StandInv(r) /\ UnderWay(a, r)
  BY BaseFacts DEF QuestionsInv, UnderWay
<1>2. /\ run' = [run EXCEPT ![r] = [run[r] EXCEPT !.deferred = None, !.question = 0,
                         !.reportLease = "none", !.reportToken = None, !.report = "not_ready"]]
      /\ UNCHANGED <<granted, reads, dispatch, address, inbox, worker>>
      /\ Holds(run[r], t) /\ run[r].token = t
  BY DEF FinishInput, Write, OnlyAnswer, Holds
<1>3. r \notin overtaken => \A b \in Answers : UnderWay(b, r) => a = b
  BY <1>1, <1>2 DEF StandInv, ClaimOK
<1>4. /\ answer'[a].phase = "idle" /\ \A b \in Answers \ {a} : answer'[b] = answer[b]
  BY <1>1 DEF IdleAnswer
<1>5. /\ run'[r].status = "running" /\ run'[r].token = run[r].token
      /\ run'[r].session = run[r].session
      /\ \A q \in Runs \ {r} : run'[q] = run[q]
  BY <1>1, <1>2 DEF Row, Holds
<1>6. r \notin overtaken => \A b \in Answers : ~UnderWay(b, r)'
  BY <1>3, <1>4 DEF UnderWay
<1>7. AskOK(r)' /\ ClaimOK(r)'
  BY <1>5, <1>6 DEF AskOK, ClaimOK
<1>8. TurnOK(r)'
  BY <1>1, <1>2, <1>5 DEF StandInv, TurnOK, Holds, Identity
<1>9. \A q \in Runs \ {r} : ~UnderWay(a, q) /\ ~UnderWay(a, q)'
  BY <1>4 DEF UnderWay
<1>10. \A u \in Tokens : Delivered(r, u)' => Delivered(r, u)
  BY <1>2 DEF Delivered
<1>11. PastOK(r)'
  <2>1. \A b \in Answers : UnderWay(b, r) => Past(r, answer[b].token)
    BY <1>1 DEF StandInv, PastOK
  <2>2. ASSUME NEW b \in Answers, UnderWay(b, r)' PROVE Past(r, answer'[b].token)
    BY <1>2, <1>4, <2>1, <2>2 DEF UnderWay
  <2>3. run'[r].status = "waiting_for_input" => Past(r, run'[r].token)
    BY <1>1, <1>2, <1>5, <2>1
  <2> QED
    BY <1>2, <2>2, <2>3, PastRouted
<1> QED
  BY <1>2, <1>4, <1>5, <1>7, <1>8, <1>9, <1>10, <1>11, RouteStands

\* The route puts the question back after its answer was delivered.
LEMMA OvertakenStands ==
    ASSUME Base, QuestionsInv, overtaken \subseteq overtaken', NEW a \in Answers,
           NEW r \in Runs, NEW t \in Tokens, r = answer[a].run, t = answer[a].token,
           UnderWay(a, r), r \in overtaken',
           answer' = [answer EXCEPT ![a].phase = "restore"], OnlyAnswer,
           \/ RunUnchanged /\ (UNCHANGED worker \/ (AtPhase(r, {"parked"}) /\ Resumes(r)))
           \/ Holds(run[r], t) /\ FinishInput(r, t) /\ UNCHANGED worker
    PROVE  QuestionsInv'
<1>1. /\ run[r] \in Row /\ run \in [Runs -> Row] /\ answer \in [Answers -> Answer]
      /\ answer[a] \in Answer /\ worker \in [Runs -> Worker] /\ StandInv(r)
  BY BaseFacts DEF QuestionsInv
<1>2. /\ answer'[a].phase = "restore" /\ answer'[a].run = r /\ answer'[a].token = t
      /\ \A b \in Answers \ {a} : answer'[b] = answer[b]
  BY <1>1 DEF Answer
<1>3. UNCHANGED <<granted, reads, dispatch, address, inbox>>
  BY DEF RunUnchanged, FinishInput, Write, OnlyAnswer
<1>4. /\ run'[r].token = run[r].token /\ run'[r].session = run[r].session
      /\ run'[r].status = run[r].status
      /\ \A q \in Runs \ {r} : run'[q] = run[q]
  <2>1. CASE run' = run
    BY <2>1
  <2>2. CASE FinishInput(r, t)
    BY <1>1, <2>2 DEF FinishInput, Write, Row
  <2> QED
    BY <2>1, <2>2 DEF RunUnchanged
<1>5. /\ \A q \in Runs \ {r} : worker'[q] = worker[q]
      /\ \/ worker'[r] = worker[r]
         \/ worker[r].phase = "parked" /\ worker'[r].current = None
  BY <1>1 DEF Resumes, IdleWorker, AtPhase
<1>6. \A q \in Runs \ {r} : ~UnderWay(a, q) /\ ~UnderWay(a, q)'
  BY <1>2 DEF UnderWay
<1>7. \A u \in Tokens : Delivered(r, u)' => Delivered(r, u)
  BY <1>3, <1>5, NoneAssumption DEF Delivered
<1>8. PastOK(r)'
  <2>1. \A b \in Answers : UnderWay(b, r) => Past(r, answer[b].token)
    BY <1>1 DEF StandInv, PastOK
  <2>2. ASSUME NEW b \in Answers, UnderWay(b, r)' PROVE Past(r, answer'[b].token)
    BY <1>2, <2>1, <2>2 DEF UnderWay
  <2>3. run'[r].status = "waiting_for_input" => Past(r, run'[r].token)
    BY <1>1, <1>4 DEF StandInv, PastOK
  <2> QED
    BY <1>3, <2>2, <2>3, PastRouted
<1>9. TurnOK(r)' /\ AskOK(r)' /\ ClaimOK(r)'
  BY DEF TurnOK, AskOK, ClaimOK
<1>10. worker[r].phase = "failing" => worker'[r].phase = "failing"
  BY <1>5
<1> QED
  BY <1>2, <1>3, <1>4, <1>5, <1>6, <1>7, <1>8, <1>9, <1>10, RouteStands

LEMMA AnswersStand ==
    ASSUME Base, QuestionsInv, overtaken \subseteq overtaken', NEW a \in Answers,
           AnswerStep(a) \/ AnswerCrash(a)
    PROVE  QuestionsInv'
<1>1. /\ answer[a].run \in Runs /\ answer[a].token \in Tokens
      /\ answer[a] \in Answer /\ answer \in [Answers -> Answer]
  BY DEF AnswerStep, AnswerClaims, AnswerReads, AnswerResponds, AnswerRestores,
         AnswerFinishes, AnswerCrash, AnswerAt, Base, CallersOK, AnswersOK
<1>2. PICK r \in Runs, t \in Tokens : r = answer[a].run /\ t = answer[a].token
  BY <1>1
<1>3. ASSUME RunUnchanged, OnlyAnswer, UNCHANGED worker,
             answer' = [answer EXCEPT ![a] = IdleAnswer]
      PROVE  QuestionsInv'
  BY <1>2, <1>3, IdleAnswerIs, RouteMoves DEF RunUnchanged, OnlyAnswer
<1>4. CASE AnswerClaims(a)
  <2>1. CASE ClaimInput(r, t)
    BY <1>2, <1>4, <2>1, ClaimStands DEF AnswerClaims, AnswerAt
  <2>2. CASE ~(run[r].status = "waiting_for_input" /\ run[r].token = t)
    BY <1>2, <1>3, <1>4, <2>2 DEF AnswerClaims
  <2> QED
    BY <1>2, <1>4, <2>1, <2>2 DEF AnswerClaims
<1>5. CASE AnswerReads(a)
  <2>1. CASE answer' = [answer EXCEPT ![a] = IdleAnswer]
    BY <1>3, <1>5, <2>1 DEF AnswerReads
  <2>2. CASE answer' = [answer EXCEPT ![a] = [answer[a] EXCEPT !.phase = "respond",
                                                            !.session = run[r].session]]
    <3> DEFINE new == [answer[a] EXCEPT !.phase = "respond", !.session = run[r].session]
    <3>1. run[r].session \in Sessions \cup {None}
      BY BaseFacts
    <3>2. new \in Answer /\ new.phase = "respond" /\ new.run = r /\ new.token = t
      BY <1>1, <1>2, <3>1 DEF Answer
    <3>3. answer' = [answer EXCEPT ![a] = new]
      BY <2>2
    <3>4. answer[a].phase = "claimed" /\ RunUnchanged /\ OnlyAnswer /\ UNCHANGED worker
      BY <1>5 DEF AnswerReads, AnswerAt
    <3> HIDE DEF new
    <3> QED
      BY <1>2, <3>2, <3>3, <3>4, RouteMoves DEF RunUnchanged, OnlyAnswer
  <2> QED
    BY <1>2, <1>5, <2>1, <2>2 DEF AnswerReads
<1>6. CASE AnswerResponds(a)
  <2>1. RunUnchanged /\ OnlyAnswer /\ answer[a].phase = "respond"
    BY <1>6 DEF AnswerResponds, AnswerAt
  <2>2. CASE /\ AtPhase(r, {"parked"}) /\ Resumes(r)
             /\ answer' = [answer EXCEPT ![a].phase = "accepted"]
    BY <1>2, <2>1, <2>2, ResumeStands
  <2>3. ASSUME NEW phase \in {"accepted", "restore"}, UNCHANGED worker,
               answer' = [answer EXCEPT ![a].phase = phase]
        PROVE  QuestionsInv'
    <3> DEFINE new == [answer[a] EXCEPT !.phase = phase]
    <3>1. new \in Answer /\ new.run = r /\ new.token = t
      BY <1>1, <1>2 DEF Answer
    <3>2. answer' = [answer EXCEPT ![a] = new]
      BY <1>1, <2>3 DEF Answer
    <3>3. UNCHANGED <<run, granted, reads, dispatch, address, inbox, worker>>
      BY <2>1, <2>3 DEF RunUnchanged, OnlyAnswer
    <3> HIDE DEF new
    <3> QED
      BY <1>2, <2>1, <3>1, <3>2, <3>3, RouteMoves
  <2>4. CASE /\ AtPhase(r, {"parked"}) /\ Resumes(r) /\ overtaken' = overtaken \cup {r}
             /\ answer' = [answer EXCEPT ![a].phase = "restore"]
    <3>1. UnderWay(a, r)
      BY <1>2, <2>1 DEF UnderWay
    <3> QED
      BY <1>2, <2>1, <2>4, <3>1, OvertakenStands
  <2> QED
    BY <1>2, <1>6, <2>2, <2>3, <2>4 DEF AnswerResponds
<1>7. CASE AnswerRestores(a)
  <2>1. CASE RestoreInput(r, t)
    BY <1>2, <1>7, <2>1, RestoreStands DEF AnswerRestores, AnswerAt
  <2>2. CASE RunUnchanged
    BY <1>3, <1>7, <2>2 DEF AnswerRestores
  <2> QED
    BY <1>2, <1>7, <2>1, <2>2 DEF AnswerRestores
<1>8. CASE AnswerFinishes(a)
  <2>1. /\ answer[a].phase = "accepted" /\ OnlyAnswer /\ UNCHANGED worker
        /\ RunUnchanged \/ (Holds(run[r], t) /\ FinishInput(r, t))
        /\ \/ answer' = [answer EXCEPT ![a] = IdleAnswer]
           \/ /\ answer' = [answer EXCEPT ![a].phase = "restore"]
              /\ overtaken' = overtaken \cup {r}
    BY <1>2, <1>8 DEF AnswerFinishes, AnswerAt
  <2>2. CASE answer' = [answer EXCEPT ![a] = IdleAnswer]
    BY <1>2, <1>3, <2>1, <2>2, FinishStands
  <2>3. CASE /\ answer' = [answer EXCEPT ![a].phase = "restore"]
             /\ overtaken' = overtaken \cup {r}
    <3>1. UnderWay(a, r)
      BY <1>2, <2>1 DEF UnderWay
    <3> QED
      BY <1>2, <2>1, <2>3, <3>1, OvertakenStands
  <2> QED
    BY <2>1, <2>2, <2>3
<1>9. CASE AnswerCrash(a)
  BY <1>3, <1>9 DEF AnswerCrash
<1> QED
  BY <1>4, <1>5, <1>6, <1>7, <1>8, <1>9 DEF AnswerStep

LEMMA AskedStands ==
    ASSUME Base, QuestionsInv, overtaken \subseteq overtaken',
           NEW a \in Answers, NEW r \in Runs, AnswerAsked(a, r)
    PROVE  QuestionsInv'
<1> DEFINE new == [phase |-> "asked", run |-> r, token |-> run[r].token, session |-> None]
<1>1. run[r].token \in Tokens
  BY BaseFacts DEF AnswerAsked
<1>2. new \in Answer /\ new.phase = "asked"
  BY <1>1 DEF Answer
<1>3. answer' = [answer EXCEPT ![a] = new] /\ answer[a].phase = "idle"
  BY DEF AnswerAsked, AnswerAt
<1> HIDE DEF new
<1> QED
  BY <1>2, <1>3, RouteMoves DEF AnswerAsked, RunUnchanged, OnlyAnswer

\* Report calls and the passage of time are not about questions.
LEMMA QuietStands ==
    ASSUME Base, QuestionsInv, overtaken \subseteq overtaken',
           NEW r \in Runs, ReportCall(r) \/ TimePasses(r), UNCHANGED workerVars
    PROVE  QuestionsInv'
<1>1. /\ SameRow(r) /\ \A q \in Runs \ {r} : run'[q] = run[q]
      /\ UNCHANGED <<granted, reads, dispatch, address, inbox, worker, answer>>
  BY QuietColumns DEF SameRow, Base, workerVars
<1>2. ASSUME NEW q \in Runs PROVE StandInv(q)'
  <2>1. SameRow(q)
    BY <1>1 DEF SameRow
  <2> QED
    BY <1>1, <2>1, Elsewhere DEF QuestionsInv, SameSession, SameReads, SameClaims
<1> QED
  BY <1>2 DEF QuestionsInv

LEMMA QuestionsStart == WorkersInit => QuestionsInv
<1> SUFFICES ASSUME WorkersInit, NEW r \in Runs PROVE StandInv(r)
  BY DEF QuestionsInv
<1>1. /\ run[r].status = "queued" /\ reads = {}
      /\ \A t \in Tokens : dispatch[r][t].phase = "none"
      /\ address[r] = None /\ inbox[r] = <<>> /\ worker[r] = IdleWorker
      /\ \A a \in Answers : answer[a].phase = "idle"
  BY DEF WorkersInit, Init, QueuedRow, NoDispatch, IdleAnswer
<1>2. \A t \in Tokens : ~Delivered(r, t)
  BY <1>1, NoneAssumption DEF Delivered, IdleWorker
<1>3. \A t \in Tokens : StageOK(r, t)
  BY <1>1, <1>2 DEF StageOK
<1>4. TurnOK(r) /\ AskOK(r) /\ ClaimOK(r)
  BY <1>1 DEF TurnOK, AskOK, ClaimOK, UnderWay, IdleWorker
<1>5. PastOK(r)
  BY <1>1 DEF PastOK, UnderWay
<1> QED
  BY <1>1, <1>3, <1>4, <1>5 DEF StandInv

LEMMA QuestionsStep ==
    ASSUME Base, QuestionsInv, [WorkersNext]_allVars
    PROVE  QuestionsInv'
<1>0. overtaken \subseteq overtaken'
  BY OvertakenGrows
<1>1. CASE \E batch \in SUBSET Runs, t \in Tokens : Tick(batch, t)
  BY <1>0, <1>1, TickStands
<1>2. CASE \E r \in Runs, t \in Tokens : DispatchStep(r, t) \/ DispatchCrash(r, t)
  BY <1>0, <1>2, DispatchStands
<1>3. CASE \E r \in Runs : WorkerStep(r)
  BY <1>0, <1>3, WorkerStands
<1>4. CASE \E read \in reads : ReleaseWrites(read)
  BY <1>0, <1>4, WritesStand
<1>5. CASE \E a \in Answers : \/ \E r \in Runs : AnswerAsked(a, r)
                               \/ AnswerStep(a)
                               \/ AnswerCrash(a)
  BY <1>0, <1>5, AskedStands, AnswersStand
<1>6. CASE \E r \in Runs : (ReportCall(r) \/ TimePasses(r)) /\ UNCHANGED workerVars
  BY <1>0, <1>6, QuietStands
<1>7. CASE UNCHANGED allVars
  <2>1. ASSUME NEW r \in Runs PROVE StandInv(r)'
    BY <1>0, <1>7, Elsewhere DEF QuestionsInv, allVars, SameRow, SameSession, SameReads, SameClaims
  <2> QED
    BY <2>1 DEF QuestionsInv
<1> QED
  BY <1>1, <1>2, <1>3, <1>4, <1>5, <1>6, <1>7 DEF WorkersNext

\* A release that is about to be written finds the row of its own lease.
LEMMA QuestionsHold == QuestionsInv => QuestionsStand
<1> SUFFICES ASSUME QuestionsInv, NEW r \in Runs \ overtaken, run[r].status = "waiting_for_input"
             PROVE  /\ run[r].question # 0 /\ run[r].session # None
                    /\ run[r].question = run[r].seq
                    /\ \/ AtPhase(r, {"parked"}) /\ address[r] = run[r].session
                       \/ \E read \in reads : read.run = r /\ read.token = run[r].token
  BY DEF QuestionsStand, WaitingIsAnswerable, WaitingHasParkedWorker, QuestionKeepsItsSequence
<1>1. Asked(r)
  BY DEF QuestionsInv, StandInv, AskOK
<1> QED
  BY <1>1 DEF Asked, Stands, AtPhase

\* A waiting run has a question under its own report sequence and a session that is
\* parked on it, or whose hook is releasing it, whatever the runs, leases, questions and
\* answers, and under every fault: no dispatch, retry, late hook or second answer leaves a
\* run waiting for an answer nobody can take.  What can is the worker going on past an
\* answer: asking again while one is under way, or going on with one whose question the
\* route then puts back because it does not know the outcome (README section 6).
THEOREM QuestionsAreAnswerable == WorkersSafety => []QuestionsStand
<1>1. WorkersInit => QuestionsInv
  BY QuestionsStart
<1>2. RunsInv /\ CallersOK /\ QuestionsInv /\ [WorkersNext]_allVars => QuestionsInv'
  BY QuestionsStep DEF Base
<1> QED
  BY <1>1, <1>2, WorkersKeepLeases, QuestionsHold, PTL DEF WorkersSafety

-----------------------------------------------------------------------------
(***************************************************************************)
(* Final words.  A run that asked nothing and delegated work has its turn    *)
(* recorded as deferred for as long as that turn, or its work, can be told   *)
(* apart from the run's last word.                                           *)
(***************************************************************************)

\* A run that is worked on under a lease and has asked no question.
Untold(r) == run[r].status = "running" /\ run[r].token # None /\ run[r].seq = 0

\* A lease is given to a session once; a dispatch of a run without a session asks for
\* no restart.
GivenOnce(r, t) ==
    /\ dispatch[r][t].phase # "none" => t \in granted[r]
    /\ dispatch[r][t].phase \in {"none", "claimed"} => ~Delivered(r, t)
    /\ dispatch[r][t].phase = "sent" /\ Delivered(r, t) => dispatch[r][t].session = address[r]
    /\ dispatch[r][t].phase = "claimed" /\ ~dispatch[r][t].restart
          /\ Untold(r) /\ run[r].token = t => run[r].session = None

\* The session that works for a run is recorded before it can delegate.
Recorded(r) ==
    /\ worker[r].phase \in {"model", "step"} /\ Untold(r) /\ Identity(r) = run[r].token =>
          run[r].session = address[r]
    /\ run[r].seq = 0 /\ (tasks[r].waiting > 0 \/ worker[r].phase = "step") =>
          run[r].session # None

\* Of the leases a session was given, the one in the row is the one that took the step.
StepIsCurrent(r) ==
    Untold(r) /\ worker[r].phase = "step" /\ Delivered(r, run[r].token) =>
        Identity(r) = run[r].token

\* Work that is outstanding, or was delegated by this turn, is remembered in the row.
Remembered(r) ==
    /\ Untold(r) /\ tasks[r].waiting > 0 /\ Delivered(r, run[r].token) => run[r].deferred # None
    /\ Untold(r) /\ worker[r].delegated /\ Identity(r) = run[r].token =>
          run[r].deferred = worker[r].turn /\ worker[r].turn # None

\* Only a question is answered.
AnswersFollow(r) ==
    /\ run[r].status = "waiting_for_input" => run[r].seq # 0
    /\ \A a \in Answers : answer[a].phase # "idle" /\ answer[a].run = r => run[r].seq # 0

WordsOK(r) ==
    /\ \A t \in Tokens : GivenOnce(r, t)
    /\ Recorded(r) /\ StepIsCurrent(r) /\ Remembered(r) /\ AnswersFollow(r)

WordsInv == \A r \in Runs : WordsOK(r)

\* What a step leaves alone when it is about one run.
Around(r) ==
    \A q \in Runs \ {r} :
        /\ run'[q] = run[q] /\ granted'[q] = granted[q] /\ dispatch'[q] = dispatch[q]
        /\ SameSession(q) /\ tasks'[q] = tasks[q]
        /\ \A a \in Answers : answer'[a].phase # "idle" /\ answer'[a].run = q =>
                                  answer[a].phase # "idle" /\ answer[a].run = q

\* The row as far as this invariant reads it.
SameWords(r) ==
    /\ run'[r].status = run[r].status /\ run'[r].token = run[r].token
    /\ run'[r].seq = run[r].seq /\ run'[r].session = run[r].session
    /\ run'[r].deferred = run[r].deferred

LEMMA WordsElsewhere ==
    ASSUME NEW r \in Runs, WordsOK(r), SameWords(r), granted'[r] = granted[r],
           dispatch'[r] = dispatch[r], SameSession(r), tasks'[r] = tasks[r],
           \A a \in Answers : answer'[a].phase # "idle" /\ answer'[a].run = r =>
               (answer[a].phase # "idle" /\ answer[a].run = r) \/ run[r].seq # 0
    PROVE  WordsOK(r)'
<1>1. \A t : Delivered(r, t)' <=> Delivered(r, t)
  BY DEF SameSession, Delivered
<1>2. Identity(r)' = Identity(r) /\ (Untold(r)' <=> Untold(r))
  BY DEF SameSession, Identity, SameWords, Untold
<1>3. \A t \in Tokens : GivenOnce(r, t)'
  BY <1>1, <1>2 DEF WordsOK, GivenOnce, SameWords, SameSession
<1>4. Recorded(r)'
  BY <1>2 DEF WordsOK, Recorded, SameWords, SameSession
<1>5. StepIsCurrent(r)' /\ Remembered(r)'
  BY <1>1, <1>2 DEF WordsOK, StepIsCurrent, Remembered, SameWords, SameSession
<1>6. AnswersFollow(r)'
  BY DEF WordsOK, AnswersFollow, SameWords
<1> QED
  BY <1>3, <1>4, <1>5, <1>6 DEF WordsOK

LEMMA WordsOfOne ==
    ASSUME WordsInv, NEW r \in Runs, Around(r), WordsOK(r)'
    PROVE  WordsInv'
<1>1. ASSUME NEW q \in Runs \ {r} PROVE WordsOK(q)'
  BY WordsElsewhere DEF Around, SameWords, WordsInv
<1> QED
  BY <1>1 DEF WordsInv

\* A session that was given no new lease.
LEMMA GivenKept ==
    ASSUME NEW r \in Runs, WordsOK(r), dispatch'[r] = dispatch[r], granted'[r] = granted[r],
           address'[r] = address[r] \/ \A u \in Tokens : ~Delivered(r, u)',
           \A u \in Tokens : Delivered(r, u)' => Delivered(r, u),
           \/ SameRow(r)
           \/ ~Untold(r)'
           \/ \E t \in Tokens : Delivered(r, t) /\ run'[r].token = t
    PROVE  \A u \in Tokens : GivenOnce(r, u)'
<1> SUFFICES ASSUME NEW u \in Tokens PROVE GivenOnce(r, u)'
  OBVIOUS
<1>1. GivenOnce(r, u)
  BY DEF WordsOK
<1>2. /\ dispatch'[r][u].phase # "none" => u \in granted'[r]
      /\ dispatch'[r][u].phase \in {"none", "claimed"} => ~Delivered(r, u)'
      /\ dispatch'[r][u].phase = "sent" /\ Delivered(r, u)' => dispatch'[r][u].session = address'[r]
  BY <1>1 DEF GivenOnce
<1>3. CASE SameRow(r)
  BY <1>1, <1>2, <1>3 DEF GivenOnce, SameRow, Untold
<1>4. CASE ~Untold(r)'
  BY <1>2, <1>4 DEF GivenOnce
<1>5. CASE \E t \in Tokens : Delivered(r, t) /\ run'[r].token = t
  BY <1>1, <1>2, <1>5 DEF GivenOnce
<1> QED
  BY <1>3, <1>4, <1>5

\* What is left to show of a run that is over, is due, waits or has asked.
LEMMA ToldWords ==
    ASSUME NEW r \in Runs, ~Untold(r)', \A u \in Tokens : GivenOnce(r, u)',
           run'[r].seq # 0 \/ run'[r].session # None
               \/ (tasks'[r].waiting <= 0 /\ worker'[r].phase # "step"),
           tasks'[r].waiting \in Nat,
           AnswersFollow(r)'
    PROVE  WordsOK(r)'
BY DEF WordsOK, Recorded, StepIsCurrent, Remembered

LEMMA WordsFacts ==
    ASSUME Base, NEW r \in Runs
    PROVE  tasks \in [Runs -> TaskCount] /\ tasks[r].waiting \in Nat /\ tasks[r].delegated \in Nat
           /\ (address[r] = None => worker[r].phase = "idle" /\ tasks[r].waiting = 0)
           /\ (worker[r].phase \in {"model", "step"} => worker[r].turn \in Turns)
BY SessionFacts DEF Base, CallersOK, SessionsOK, TaskCount, Rooted

\* A lease that is drawn is new to every session.
LEMMA TickWords ==
    ASSUME Base, WordsInv, NEW batch \in SUBSET Runs, NEW t \in Tokens, Tick(batch, t)
    PROVE  WordsInv'
<1> DEFINE spent == {r \in batch : run[r].attempts >= MaxAttempts}
<1>1. /\ \A r \in batch : Ready(run[r])
      /\ batch # spent => t \notin Issued
      /\ run' = [r \in Runs |-> IF r \in spent THEN Exhausted(run[r])
                                ELSE IF r \in batch THEN Claimed(run[r], t) ELSE run[r]]
      /\ granted' = [r \in Runs |-> IF r \in batch \ spent THEN granted[r] \cup {t} ELSE granted[r]]
      /\ UNCHANGED <<address, inbox, worker, tasks, answer>>
  BY DEF Tick, ClaimReady
<1>2. dispatch' = [r \in Runs |->
          IF r \in batch /\ run[r].attempts < MaxAttempts
          THEN [dispatch[r] EXCEPT ![t] = [phase |-> "claimed", restart |-> run[r].session # None,
                                           session |-> None]]
          ELSE dispatch[r]]
  BY DEF Tick
<1>3. ASSUME NEW r \in Runs PROVE WordsOK(r)'
  <2>1. /\ run[r] \in Row /\ granted \in [Runs -> SUBSET Tokens] /\ run[r].seq \in Nat
        /\ run[r].attempts \in Nat /\ dispatch[r] \in [Tokens -> Dispatch]
    BY BaseFacts DEF Row
  <2>2. WordsOK(r) /\ SameSession(r) /\ tasks[r].waiting \in Nat /\ UNCHANGED <<tasks, answer>>
    BY <1>1, WordsFacts DEF WordsInv, SameSession
  <2>3. \A u : Delivered(r, u)' <=> Delivered(r, u)
    BY <2>2 DEF SameSession, Delivered
  <2>4. CASE r \notin batch
    <3>1. run'[r] = run[r] /\ granted'[r] = granted[r] /\ dispatch'[r] = dispatch[r]
      BY <1>1, <1>2, <2>4
    <3> QED
      BY <2>2, <3>1, WordsElsewhere DEF SameWords
  <2>5. CASE r \in spent
    <3>1. /\ run'[r] = Exhausted(run[r]) /\ granted'[r] = granted[r] /\ dispatch'[r] = dispatch[r]
      BY <1>1, <1>2, <2>1, <2>5
    <3>2. /\ run'[r].status = "dead_letter" /\ run'[r].seq = run[r].seq + 1
      BY <2>1, <3>1 DEF Exhausted, Row
    <3>3. ~Untold(r)' /\ run'[r].seq # 0
      BY <2>1, <3>2 DEF Untold
    <3>4. \A u \in Tokens : GivenOnce(r, u)'
      BY <2>2, <2>3, <3>1, <3>3, GivenKept DEF SameSession
    <3>5. AnswersFollow(r)'
      BY <3>2, <3>3 DEF AnswersFollow
    <3> QED
      BY <2>2, <3>3, <3>4, <3>5, ToldWords
  <2>6. CASE r \in batch \ spent
    <3>1. /\ run'[r] = Claimed(run[r], t) /\ granted'[r] = granted[r] \cup {t}
          /\ dispatch'[r] = [dispatch[r] EXCEPT ![t] = [phase |-> "claimed",
                                restart |-> run[r].session # None, session |-> None]]
      BY <1>1, <1>2, <2>1, <2>6
    <3>2. t \notin granted[r]
      BY <1>1, <2>6 DEF Issued
    <3>3. /\ run'[r].status = "running" /\ run'[r].token = t
          /\ run'[r].seq = run[r].seq /\ run'[r].session = run[r].session
      BY <2>1, <3>1 DEF Claimed, Row
    <3>4. ~Delivered(r, t) /\ Identity(r)' # t
      <4>1. ~Delivered(r, t)
        BY <2>1, <2>2, <3>2 DEF WordsOK, GivenOnce, Dispatch
      <4> QED
        BY <2>2, <4>1, TurnIsDelivered DEF SameSession, Identity
    <3>5. /\ dispatch'[r][t] = [phase |-> "claimed", restart |-> run[r].session # None, session |-> None]
          /\ \A u \in Tokens \ {t} : dispatch'[r][u] = dispatch[r][u]
      BY <2>1, <3>1
    <3>6. GivenOnce(r, t)'
      <4>1. /\ dispatch'[r][t].phase = "claimed"
            /\ ~dispatch'[r][t].restart => run[r].session = None
        <5>1. dispatch'[r][t].phase = "claimed"
          BY <3>5
        <5>2. CASE run[r].session # None
          <6>1. (run[r].session # None) = TRUE
            BY <5>2
          <6>2. dispatch'[r][t] = [phase |-> "claimed", restart |-> TRUE, session |-> None]
            BY <3>5, <6>1
          <6> QED
            BY <5>1, <6>2
        <5> QED
          BY <5>1, <5>2
      <4>2. t \in granted'[r] /\ ~Delivered(r, t)'
        BY <2>3, <3>1, <3>4
      <4> QED
        BY <3>3, <4>1, <4>2 DEF GivenOnce
    <3>7. ASSUME NEW u \in Tokens \ {t} PROVE GivenOnce(r, u)'
      <4>1. GivenOnce(r, u) /\ granted[r] \subseteq granted'[r]
        BY <2>2, <3>1 DEF WordsOK
      <4> QED
        BY <2>2, <2>3, <3>3, <3>5, <4>1 DEF GivenOnce, SameSession
    <3>8. Recorded(r)'
      BY <2>2, <3>3, <3>4 DEF WordsOK, Recorded, SameSession
    <3>9. StepIsCurrent(r)' /\ Remembered(r)'
      BY <2>3, <3>3, <3>4 DEF StepIsCurrent, Remembered
    <3>10. AnswersFollow(r)'
      BY <2>2, <3>3 DEF WordsOK, AnswersFollow
    <3> QED
      BY <3>6, <3>7, <3>8, <3>9, <3>10 DEF WordsOK
  <2> QED
    BY <2>4, <2>5, <2>6
<1> QED
  BY <1>3 DEF WordsInv

LEMMA DeliverWords ==
    ASSUME Base, WordsInv, NEW r \in Runs, NEW t \in Tokens, NEW phase \in {"sent", "refused"},
           Dispatching(r, t, "claimed"), Deliver(r, t, phase), RunUnchanged, UNCHANGED answer
    PROVE  WordsInv'
<1> DEFINE fresh == dispatch[r][t].restart \/ address[r] = None
           s == IF fresh THEN t ELSE address[r]
<1>1. /\ dispatch \in [Runs -> [Tokens -> Dispatch]] /\ dispatch[r][t] \in Dispatch
      /\ address \in [Runs -> Sessions \cup {None}]
      /\ inbox \in [Runs -> Seq(Tokens)] /\ worker \in [Runs -> Worker]
      /\ tasks \in [Runs -> TaskCount] /\ tasks[r].waiting \in Nat /\ tasks[r] \in TaskCount
  BY BaseFacts, WordsFacts
<1>2. /\ address' = [address EXCEPT ![r] = s]
      /\ inbox' = [inbox EXCEPT ![r] = IF fresh THEN <<t>> ELSE Append(inbox[r], t)]
      /\ worker' = IF fresh THEN [worker EXCEPT ![r] = IdleWorker] ELSE worker
      /\ tasks' = IF fresh THEN [tasks EXCEPT ![r].waiting = 0] ELSE tasks
      /\ dispatch' = [dispatch EXCEPT ![r][t].phase = phase, ![r][t].session = s]
      /\ UNCHANGED <<run, granted, answer>>
  BY <1>1 DEF Deliver, RunUnchanged
<1>3. /\ dispatch'[r][t].phase = phase /\ dispatch'[r][t].session = s
      /\ \A u \in Tokens \ {t} : dispatch'[r][u] = dispatch[r][u]
      /\ address'[r] = s
  BY <1>1, <1>2 DEF Dispatch
<1>4. Around(r)
  <2>1. \A q \in Runs \ {r} : dispatch'[q] = dispatch[q] /\ address'[q] = address[q]
            /\ inbox'[q] = inbox[q] /\ worker'[q] = worker[q] /\ tasks'[q] = tasks[q]
    BY <1>1, <1>2
  <2> QED
    BY <1>2, <2>1 DEF Around, SameSession
<1>5. WordsOK(r) /\ GivenOnce(r, t) /\ t \in granted[r]
  BY DEF WordsInv, WordsOK, GivenOnce, Dispatching
<1>6. CASE fresh
  <2>1. address'[r] = t /\ inbox'[r] = <<t>> /\ worker'[r] = IdleWorker /\ tasks'[r].waiting = 0
    BY <1>1, <1>2, <1>6 DEF TaskCount
  <2>2. \A u \in Tokens : Delivered(r, u)' <=> u = t
    BY <2>1 DEF Delivered, IdleWorker
  <2>3. \A u \in Tokens : GivenOnce(r, u)'
    BY <1>2, <1>3, <1>5, <2>1, <2>2 DEF WordsOK, GivenOnce, Untold
  <2>4. worker'[r].phase = "idle" /\ ~worker'[r].delegated
    BY <2>1 DEF IdleWorker
  <2>5. Recorded(r)' /\ StepIsCurrent(r)' /\ Remembered(r)'
    BY <2>1, <2>4 DEF Recorded, StepIsCurrent, Remembered
  <2>6. AnswersFollow(r)'
    BY <1>2, <1>5 DEF WordsOK, AnswersFollow
  <2> QED
    BY <1>4, <2>3, <2>5, <2>6, WordsOfOne DEF WordsOK
<1>7. CASE ~fresh
  <2>1. /\ address'[r] = address[r] /\ inbox'[r] = Append(inbox[r], t) /\ worker'[r] = worker[r]
        /\ tasks'[r] = tasks[r]
    BY <1>1, <1>2, <1>7
  <2>2. \A u : Delivered(r, u)' <=> u = t \/ Delivered(r, u)
    <3>1. inbox[r] \in Seq(Tokens)
      BY <1>1
    <3>2. \A u : (\E i \in 1..Len(inbox'[r]) : inbox'[r][i] = u)
                  <=> u = t \/ \E i \in 1..Len(inbox[r]) : inbox[r][i] = u
      BY <2>1, <3>1
    <3> QED
      BY <2>1, <3>2 DEF Delivered
  <2>3. Identity(r)' = Identity(r) /\ (Untold(r)' <=> Untold(r))
    BY <1>2, <2>1 DEF Identity, Untold
  <2>4. GivenOnce(r, t)'
    BY <1>2, <1>3, <1>5, <2>1, <1>7 DEF GivenOnce
  <2>5. \A u \in Tokens \ {t} : GivenOnce(r, u)'
    BY <1>2, <1>3, <1>5, <2>1, <2>2, <2>3 DEF WordsOK, GivenOnce
  <2>6. Untold(r) /\ run[r].token = t => tasks[r].waiting = 0 /\ worker[r].phase # "step"
    BY <1>1, <1>5, <1>7 DEF WordsOK, GivenOnce, Recorded, Untold, Dispatching
  <2>7. StepIsCurrent(r)' /\ Remembered(r)'
    BY <1>2, <1>5, <2>1, <2>2, <2>3, <2>6 DEF WordsOK, StepIsCurrent, Remembered
  <2>8. Recorded(r)' /\ AnswersFollow(r)'
    BY <1>2, <1>5, <2>1, <2>3 DEF WordsOK, Recorded, AnswersFollow
  <2> QED
    BY <1>4, <2>4, <2>5, <2>7, <2>8, WordsOfOne DEF WordsOK
<1> QED
  BY <1>6, <1>7

\* A session that is gone has delegated nothing.
LEMMA GoneWords ==
    ASSUME Base, WordsInv, NEW r \in Runs, SessionEnds(r), UNCHANGED <<run, granted, answer>>,
           \A q \in Runs \ {r} : dispatch'[q] = dispatch[q],
           \A u \in Tokens : \/ dispatch'[r][u] = dispatch[r][u]
                             \/ dispatch'[r][u].phase \in {"refused", "done"} /\ u \in granted[r]
    PROVE  WordsInv'
<1>1. /\ worker'[r] = IdleWorker /\ \A u \in Tokens : ~Delivered(r, u)'
      /\ \A q \in Runs \ {r} : /\ address'[q] = address[q] /\ inbox'[q] = inbox[q]
                               /\ worker'[q] = worker[q]
  <2>1. worker'[r] = IdleWorker
    BY BaseFacts DEF SessionEnds
  <2> QED
    BY <2>1, SessionGone
<1>2. tasks'[r].waiting = 0 /\ \A q \in Runs \ {r} : tasks'[q] = tasks[q]
  BY WordsFacts DEF SessionEnds, TaskCount
<1>3. Around(r)
  BY <1>1, <1>2 DEF Around, SameSession
<1>4. WordsOK(r) /\ worker'[r].phase = "idle" /\ ~worker'[r].delegated
  BY <1>1 DEF WordsInv, IdleWorker
<1>5. \A u \in Tokens : GivenOnce(r, u)'
  BY <1>1, <1>4 DEF WordsOK, GivenOnce, Untold
<1>6. Recorded(r)' /\ StepIsCurrent(r)' /\ Remembered(r)'
  BY <1>2, <1>4 DEF Recorded, StepIsCurrent, Remembered
<1>7. AnswersFollow(r)'
  BY <1>4 DEF WordsOK, AnswersFollow
<1> QED
  BY <1>3, <1>5, <1>6, <1>7, WordsOfOne DEF WordsOK

\* A dispatch that moves on without sending, and at most records its session.
LEMMA DispatchOverWords ==
    ASSUME Base, WordsInv, NEW r \in Runs, NEW t \in Tokens, NEW new \in Dispatch,
           new.phase \in {"refused", "done"}, t \in granted[r],
           dispatch' = [dispatch EXCEPT ![r][t] = new],
           UNCHANGED <<granted, address, inbox, worker, tasks, answer>>,
           \/ run' = run
           \/ /\ Holds(run[r], t)
              /\ \E s \in Sessions : /\ run' = [run EXCEPT ![r] = [run[r] EXCEPT !.session = s]]
                                     /\ Delivered(r, t) => s = address[r]
    PROVE  WordsInv'
<1>1. /\ dispatch'[r][t] = new
      /\ \A u \in Tokens \ {t} : dispatch'[r][u] = dispatch[r][u]
      /\ \A q \in Runs \ {r} : dispatch'[q] = dispatch[q]
      /\ run \in [Runs -> Row] /\ run[r] \in Row
  BY BaseFacts
<1>2. WordsOK(r) /\ (\A u : Delivered(r, u)' <=> Delivered(r, u)) /\ Identity(r)' = Identity(r)
  BY DEF WordsInv, Delivered, Identity
<1>3. /\ run'[r].status = run[r].status /\ run'[r].token = run[r].token
      /\ run'[r].seq = run[r].seq /\ run'[r].deferred = run[r].deferred
      /\ \A q \in Runs \ {r} : run'[q] = run[q]
  BY <1>1 DEF Row
<1>4. \/ run'[r].session = run[r].session
      \/ /\ run[r].token = t /\ run'[r].session # None
         /\ Delivered(r, t) => run'[r].session = address[r]
  BY <1>1, NoneAssumption DEF Holds, Row
<1>5. Around(r)
  BY <1>1, <1>3 DEF Around, SameSession
<1>6. Untold(r)' <=> Untold(r)
  BY <1>3 DEF Untold
<1>7. GivenOnce(r, t)'
  BY <1>1 DEF GivenOnce
<1>8. ASSUME NEW u \in Tokens \ {t} PROVE GivenOnce(r, u)'
  BY <1>1, <1>2, <1>3, <1>4, <1>6 DEF WordsOK, GivenOnce
<1>9. Recorded(r)'
  BY <1>2, <1>3, <1>4, <1>6, TurnIsDelivered DEF WordsOK, Recorded
<1>10. StepIsCurrent(r)' /\ Remembered(r)' /\ AnswersFollow(r)'
  BY <1>2, <1>3, <1>6 DEF WordsOK, StepIsCurrent, Remembered, AnswersFollow
<1> QED
  BY <1>5, <1>7, <1>8, <1>9, <1>10, WordsOfOne DEF WordsOK

LEMMA DispatchWords ==
    ASSUME Base, WordsInv, NEW r \in Runs, NEW t \in Tokens,
           DispatchStep(r, t) \/ DispatchCrash(r, t)
    PROVE  WordsInv'
<1>1. /\ dispatch \in [Runs -> [Tokens -> Dispatch]] /\ dispatch[r][t] \in Dispatch
      /\ run[r] \in Row /\ run \in [Runs -> Row]
      /\ GivenOnce(r, t)
  BY BaseFacts DEF WordsInv, WordsOK
<1>2. CASE Send(r, t) \/ SendUnknown(r, t)
  BY <1>2, DeliverWords DEF Send, SendUnknown
<1>3. CASE SendRefused(r, t)
  <2> DEFINE new == [dispatch[r][t] EXCEPT !.phase = "refused"]
  <2>1. new \in Dispatch /\ new.phase = "refused"
    BY <1>1 DEF Dispatch
  <2>2. /\ dispatch' = [dispatch EXCEPT ![r][t] = new] /\ t \in granted[r]
        /\ UNCHANGED <<run, granted, answer>>
    BY <1>1, <1>3 DEF SendRefused, Dispatching, GivenOnce, Dispatch, RunUnchanged
  <2>3. CASE UNCHANGED <<address, inbox, worker, tasks>>
    <3> HIDE DEF new
    <3> QED
      BY <2>1, <2>2, <2>3, DispatchOverWords
  <2>4. CASE SessionEnds(r)
    <3> HIDE DEF new
    <3>1. /\ dispatch'[r][t] = new /\ \A u \in Tokens \ {t} : dispatch'[r][u] = dispatch[r][u]
          /\ \A q \in Runs \ {r} : dispatch'[q] = dispatch[q]
      BY <1>1, <2>1, <2>2
    <3> QED
      BY <2>1, <2>2, <2>4, <3>1, GoneWords
  <2> QED
    BY <1>3, <2>3, <2>4 DEF SendRefused
<1>4. CASE PersistSession(r, t)
  <2> DEFINE s == dispatch[r][t].session
             new == IF SessionPersisted(run[r], t, s) THEN DispatchOver
                    ELSE [dispatch[r][t] EXCEPT !.phase = "refused"]
  <2>1. dispatch[r][t].phase = "sent" /\ s \in Sessions
    BY <1>4 DEF PersistSession, Dispatching, Base, CallersOK, DispatchesOK
  <2>2. new \in Dispatch /\ new.phase \in {"done", "refused"}
    BY <1>1, DispatchOverIs DEF Dispatch
  <2>3. /\ dispatch' = [dispatch EXCEPT ![r][t] = new]
        /\ UNCHANGED <<granted, address, inbox, worker, tasks, answer>>
        /\ \/ run' = run
           \/ Holds(run[r], t) /\ run' = [run EXCEPT ![r] = [run[r] EXCEPT !.session = s]]
    BY <1>1, <1>4 DEF PersistSession, SetSession, Write, RunUnchanged
  <2>4. t \in granted[r] /\ (Delivered(r, t) => s = address[r])
    BY <1>1, <2>1 DEF GivenOnce
  <2> HIDE DEF s, new
  <2> QED
    BY <2>1, <2>2, <2>3, <2>4, DispatchOverWords
<1>5. CASE ReleaseDispatch(r, t) \/ DispatchCrash(r, t)
  <2>1. /\ dispatch' = [dispatch EXCEPT ![r][t] = DispatchOver]
        /\ UNCHANGED <<run, granted, address, inbox, worker, tasks, answer>>
    BY <1>5 DEF ReleaseDispatch, Release, ReleaseRead, RunUnchanged, DispatchCrash, ReleaseLost
  <2>2. t \in granted[r]
    <3>1. CASE dispatch[r][t].phase \in {"claimed", "sent", "refused"}
      BY <1>1, <3>1 DEF GivenOnce
    <3>2. ASSUME NEW read \in reads, read.run = r, read.token = t PROVE t \in granted[r]
      BY <3>2 DEF Base, RunsInv, ReadInv
    <3> QED
      BY <1>5, <3>1, <3>2 DEF DispatchCrash, ReleaseDispatch, Dispatching
  <2> QED
    BY <2>1, <2>2, DispatchOverIs, DispatchOverWords
<1> QED
  BY <1>2, <1>3, <1>4, <1>5 DEF DispatchStep

\* A turn begins, goes on or ends.
LEMMA TurnWords ==
    ASSUME Base, WordsInv, NEW r \in Runs, NEW t \in Tokens, Delivered(r, t),
           UNCHANGED <<dispatch, answer, granted, address>>,
           \A q \in Runs \ {r} : /\ run'[q] = run[q] /\ worker'[q] = worker[q]
                                 /\ inbox'[q] = inbox[q] /\ tasks'[q] = tasks[q],
           \A u \in Tokens : Delivered(r, u)' => Delivered(r, u),
           SameRow(r) \/ ~Untold(r)' \/ run'[r].token = t,
           Recorded(r)', StepIsCurrent(r)', Remembered(r)', AnswersFollow(r)'
    PROVE  WordsInv'
<1>1. WordsOK(r)
  BY DEF WordsInv
<1>2. \A u \in Tokens : GivenOnce(r, u)'
  BY <1>1, GivenKept
<1>3. Around(r)
  BY DEF Around, SameSession
<1> QED
  BY <1>2, <1>3, WordsOfOne DEF WordsOK

LEMMA StartTurnWords ==
    ASSUME Base, WordsInv, NEW r \in Runs, address[r] \in Sessions,
           NEW current \in Tokens \cup {None}, StartTurn(r, current),
           current # None => Delivered(r, current),
           \A q \in Runs \ {r} : inbox'[q] = inbox[q] /\ tasks'[q] = tasks[q],
           \A i \in 1..Len(inbox'[r]) : \E j \in 1..Len(inbox[r]) : inbox'[r][i] = inbox[r][j],
           tasks'[r].waiting > 0 => tasks[r].waiting > 0
    PROVE  WordsInv'
<1> DEFINE t == IF current # None THEN current ELSE address[r]
<1>1. t \in Tokens /\ Delivered(r, t)
  BY DEF Delivered
<1>2. /\ run[r] \in Row /\ run \in [Runs -> Row] /\ worker \in [Runs -> Worker]
      /\ address[r] # None /\ run[r].token \in Tokens \cup {None}
  BY BaseFacts
<1>3. PICK u \in Turns : worker' = [worker EXCEPT ![r] = TurnOf(current, u)]
  BY DEF StartTurn, TurnOf
<1>4. /\ worker'[r].phase = "model" /\ worker'[r].current = current /\ ~worker'[r].delegated
      /\ \A q \in Runs \ {r} : worker'[q] = worker[q]
  BY <1>2, <1>3 DEF TurnOf
<1>5. /\ UNCHANGED <<dispatch, address, answer, granted, reads>>
      /\ \/ ~Holds(run[r], t) /\ run' = run
         \/ Holds(run[r], t) /\ run' = [run EXCEPT ![r] = [run[r] EXCEPT !.lease = "future", !.session = address[r]]]
  BY DEF StartTurn, MarkStarted, Write, RunUnchanged
<1>6. Identity(r)' = t
  BY <1>4, <1>5 DEF Identity
<1>7. \A u1 \in Tokens : Delivered(r, u1)' => Delivered(r, u1)
  BY <1>1, <1>2, <1>4, <1>5 DEF Delivered
<1>8. /\ run'[r].status = run[r].status /\ run'[r].token = run[r].token
      /\ run'[r].seq = run[r].seq /\ run'[r].deferred = run[r].deferred
      /\ \/ run'[r].session = run[r].session /\ ~Holds(run[r], t)
         \/ run'[r].session = address[r] /\ run[r].token = t
      /\ \A q \in Runs \ {r} : run'[q] = run[q]
  <2>1. CASE ~Holds(run[r], t) /\ run' = run
    BY <2>1
  <2>2. CASE /\ Holds(run[r], t)
             /\ run' = [run EXCEPT ![r] = [run[r] EXCEPT !.lease = "future", !.session = address[r]]]
    BY <1>2, <2>2 DEF Holds, Row
  <2> QED
    BY <1>5, <2>1, <2>2
<1>9. WordsOK(r) /\ (Untold(r)' <=> Untold(r))
  BY <1>8 DEF WordsInv, Untold
<1>10. Recorded(r)'
  BY <1>2, <1>4, <1>5, <1>6, <1>8, <1>9 DEF WordsOK, Recorded, Holds, Untold
<1>11. StepIsCurrent(r)'
  BY <1>4 DEF StepIsCurrent
<1>12. Remembered(r)'
  BY <1>2, <1>4, <1>7, <1>8, <1>9 DEF WordsOK, Remembered, Untold
<1>13. AnswersFollow(r)'
  BY <1>5, <1>8, <1>9 DEF WordsOK, AnswersFollow
<1>14. SameRow(r) \/ ~Untold(r)' \/ run'[r].token = t
  BY <1>5, <1>8 DEF SameRow
<1> HIDE DEF t
<1> QED
  BY <1>1, <1>4, <1>5, <1>7, <1>8, <1>10, <1>11, <1>12, <1>13, <1>14, TurnWords

LEMMA TurnsWords ==
    ASSUME Base, WordsInv, NEW r \in Runs, MessageTurn(r) \/ WakeTurn(r) \/ AnsweredTurn(r)
    PROVE  WordsInv'
<1>1. /\ inbox \in [Runs -> Seq(Tokens)] /\ inbox[r] \in Seq(Tokens)
      /\ tasks \in [Runs -> TaskCount] /\ tasks[r] \in TaskCount
  BY BaseFacts, WordsFacts
<1>2. address[r] \in Sessions
  BY TurnHasLease DEF MessageTurn, WakeTurn, AnsweredTurn, AtPhase, Base, CallersOK
<1>3. CASE MessageTurn(r)
  <2>1. inbox[r] # <<>> /\ Head(inbox[r]) \in Tokens /\ Tail(inbox[r]) \in Seq(Tokens)
        /\ StartTurn(r, Head(inbox[r])) /\ tasks' = tasks
    BY <1>1, <1>3 DEF MessageTurn, AtPhase
  <2>2. inbox'[r] = Tail(inbox[r]) /\ \A q \in Runs \ {r} : inbox'[q] = inbox[q]
    BY <1>1, <1>3 DEF MessageTurn
  <2>3. Head(inbox[r]) = inbox[r][1] /\ 1 \in 1..Len(inbox[r])
    BY <1>1, <2>1
  <2>4. Delivered(r, Head(inbox[r]))
    BY <2>3 DEF Delivered
  <2>5. \A i \in 1..Len(Tail(inbox[r])) :
            i + 1 \in 1..Len(inbox[r]) /\ Tail(inbox[r])[i] = inbox[r][i + 1]
    BY <1>1, <2>1
  <2>6. \A i \in 1..Len(inbox'[r]) : \E j \in 1..Len(inbox[r]) : inbox'[r][i] = inbox[r][j]
    BY <2>2, <2>5
  <2> QED
    BY <1>2, <2>1, <2>2, <2>4, <2>6, StartTurnWords
<1>4. CASE WakeTurn(r) \/ AnsweredTurn(r)
  <2>1. StartTurn(r, None) /\ inbox' = inbox
    BY <1>4 DEF WakeTurn, AnsweredTurn
  <2>2. /\ \A q \in Runs \ {r} : tasks'[q] = tasks[q]
        /\ tasks'[r].waiting > 0 => tasks[r].waiting > 0
    BY <1>1, <1>4 DEF WakeTurn, AnsweredTurn, TaskCount
  <2> QED
    BY <1>2, <2>1, <2>2, StartTurnWords
<1> QED
  BY <1>3, <1>4

\* A turn that goes on without a word to the store.
LEMMA QuietTurnWords ==
    ASSUME Base, WordsInv, NEW r \in Runs, worker[r].phase # "idle",
           NEW w \in Worker, worker' = [worker EXCEPT ![r] = w],
           w.current \in {worker[r].current, None},
           w.phase = "step" => /\ worker[r].phase = "model" /\ Holds(run[r], Identity(r))
                               /\ w.current = worker[r].current,
           w.phase = "model" => worker[r].phase = "step" /\ w.current = worker[r].current,
           w.delegated => /\ worker[r].delegated /\ w.turn = worker[r].turn
                          /\ w.current = worker[r].current,
           UNCHANGED <<run, granted, dispatch, address, inbox, tasks, answer>>
    PROVE  WordsInv'
<1>1. /\ worker \in [Runs -> Worker] /\ address[r] \in Sessions /\ Identity(r) \in Tokens
      /\ worker[r] \in Worker
  BY BaseFacts
<1>2. PICK t \in Tokens : t = Identity(r) /\ Delivered(r, t)
  BY <1>1, TurnIsDelivered
<1>3. worker'[r] = w /\ \A q \in Runs \ {r} : worker'[q] = worker[q]
  BY <1>1
<1>4. \A u \in Tokens : Delivered(r, u)' => Delivered(r, u)
  BY <1>3 DEF Delivered
<1>5. WordsOK(r) /\ SameRow(r) /\ (Untold(r)' <=> Untold(r))
  BY DEF WordsInv, SameRow, Untold
<1>6. w.current = worker[r].current => Identity(r)' = Identity(r)
  BY <1>3 DEF Identity
<1>7. Recorded(r)'
  <2>1. CASE w.phase = "step"
    <3>1. (run[r].session = address[r] /\ address[r] # None) \/ run[r].seq # 0
      BY <1>1, <1>5, <2>1 DEF WordsOK, Recorded, Untold, Holds
    <3> QED
      BY <1>3, <1>5, <1>6, <2>1, <3>1 DEF WordsOK, Recorded, Untold
  <2>2. CASE w.phase # "step"
    BY <1>3, <1>5, <1>6, <2>2 DEF WordsOK, Recorded
  <2> QED
    BY <2>1, <2>2
<1>8. StepIsCurrent(r)'
  BY <1>3, <1>5, <1>6 DEF StepIsCurrent, Holds
<1>9. Remembered(r)'
  <2>1. run[r].token \in Tokens \/ ~Untold(r)
    BY BaseFacts DEF Untold
  <2> QED
    BY <1>3, <1>4, <1>5, <1>6, <2>1 DEF WordsOK, Remembered
<1>10. AnswersFollow(r)'
  BY <1>5 DEF WordsOK, AnswersFollow
<1> QED
  BY <1>2, <1>3, <1>4, <1>5, <1>7, <1>8, <1>9, <1>10, TurnWords

LEMMA DelegateWords ==
    ASSUME Base, WordsInv, NEW r \in Runs, NEW t \in Tokens, t = Identity(r), Delegate(r)
    PROVE  WordsInv'
<1> DEFINE w == [worker[r] EXCEPT !.phase = "model", !.delegated = TRUE]
<1>1. /\ worker \in [Runs -> Worker] /\ worker[r] \in Worker /\ address[r] \in Sessions
      /\ run[r] \in Row /\ run \in [Runs -> Row] /\ Delivered(r, t)
      /\ worker[r].phase = "step" /\ worker[r].turn \in Turns /\ worker[r].turn # None
      /\ tasks \in [Runs -> TaskCount]
  BY BaseFacts, WordsFacts, TurnIsDelivered, NoneAssumption DEF Delegate, AtPhase
<1>2. /\ w \in Worker /\ w.phase = "model" /\ w.delegated /\ w.current = worker[r].current
      /\ w.turn = worker[r].turn /\ worker' = [worker EXCEPT ![r] = w]
      /\ UNCHANGED <<dispatch, address, inbox, answer>>
  BY <1>1 DEF Worker, Phase, Delegate, Becomes
<1> HIDE DEF w
<1>3. worker'[r] = w /\ \A q \in Runs \ {r} : worker'[q] = worker[q]
  BY <1>1, <1>2
<1>4. /\ UNCHANGED granted
      /\ \/ ~Holds(run[r], t) /\ run' = run
         \/ Holds(run[r], t) /\ run' = [run EXCEPT ![r] = [run[r] EXCEPT !.deferred = worker[r].turn]]
      /\ \A q \in Runs \ {r} : tasks'[q] = tasks[q]
  BY <1>1 DEF Delegate, Defer, Write, RunUnchanged
<1>5. /\ run'[r].status = run[r].status /\ run'[r].token = run[r].token
      /\ run'[r].seq = run[r].seq /\ run'[r].session = run[r].session
      /\ run'[r].question = run[r].question
      /\ Holds(run[r], t) => run'[r].deferred = worker[r].turn
      /\ \A q \in Runs \ {r} : run'[q] = run[q]
  <2>1. CASE ~Holds(run[r], t) /\ run' = run
    BY <2>1
  <2>2. CASE /\ Holds(run[r], t)
             /\ run' = [run EXCEPT ![r] = [run[r] EXCEPT !.deferred = worker[r].turn]]
    BY <1>1, <2>2 DEF Row
  <2> QED
    BY <1>4, <2>1, <2>2
<1>6. /\ Identity(r)' = t /\ \A u \in Tokens : Delivered(r, u)' => Delivered(r, u)
  BY <1>2, <1>3 DEF Identity, Delivered
<1>7. WordsOK(r) /\ SameRow(r) /\ (Untold(r)' <=> Untold(r))
  BY <1>5 DEF WordsInv, SameRow, Untold
<1>8. Recorded(r)'
  BY <1>1, <1>2, <1>3, <1>5, <1>6, <1>7 DEF WordsOK, Recorded
<1>9. StepIsCurrent(r)'
  BY <1>2, <1>3 DEF StepIsCurrent
<1>10. Remembered(r)'
  <2>1. Untold(r) => run[r].token \in Tokens
    BY BaseFacts DEF Untold
  <2>2. Untold(r) /\ Delivered(r, run[r].token)' => Holds(run[r], t)
    BY <1>1, <1>5, <1>6, <1>7, <2>1 DEF WordsOK, StepIsCurrent, Untold, Holds
  <2>3. Untold(r) /\ Identity(r)' = run[r].token => Holds(run[r], t)
    BY <1>6 DEF Untold, Holds
  <2> QED
    BY <1>1, <1>2, <1>3, <1>5, <1>7, <2>2, <2>3 DEF Remembered
<1>11. AnswersFollow(r)'
  BY <1>2, <1>5, <1>7 DEF WordsOK, AnswersFollow
<1> QED
  BY <1>1, <1>2, <1>3, <1>4, <1>5, <1>6, <1>7, <1>8, <1>9, <1>10, <1>11, TurnWords

\* A turn that ends what was untold: it asks, or says its last word.
LEMMA ToldTurnWords ==
    ASSUME Base, WordsInv, NEW r \in Runs, NEW t \in Tokens, t = Identity(r), NEW row,
           worker[r].phase = "step", Holds(run[r], t), Write(r, row),
           row.status # "running", row.session = run[r].session,
           row.seq = run[r].seq \/ row.seq = run[r].seq + 1,
           row.status = "waiting_for_input" => row.seq # 0,
           NEW w \in Worker, worker' = [worker EXCEPT ![r] = w], w.phase # "step",
           w.current \in {worker[r].current, None},
           UNCHANGED <<dispatch, address, inbox, tasks, answer>>
    PROVE  WordsInv'
<1>1. /\ worker \in [Runs -> Worker] /\ run[r] \in Row /\ run \in [Runs -> Row]
      /\ run[r].seq \in Nat /\ tasks[r].waiting \in Nat /\ address[r] \in Sessions
      /\ Delivered(r, t)
  BY BaseFacts, WordsFacts, TurnIsDelivered
<1>2. /\ run'[r] = row /\ \A q \in Runs \ {r} : run'[q] = run[q]
      /\ worker'[r] = w /\ \A q \in Runs \ {r} : worker'[q] = worker[q]
      /\ UNCHANGED granted
  BY <1>1 DEF Write
<1>3. \A u \in Tokens : Delivered(r, u)' => Delivered(r, u)
  BY <1>2 DEF Delivered
<1>4. WordsOK(r) /\ ~Untold(r)' /\ (run[r].seq # 0 => run'[r].seq # 0)
  BY <1>1, <1>2 DEF WordsInv, Untold
<1>5. StepIsCurrent(r)' /\ Remembered(r)'
  BY <1>4 DEF StepIsCurrent, Remembered
<1>6. Recorded(r)'
  BY <1>1, <1>2, <1>4 DEF WordsOK, Recorded
<1>7. AnswersFollow(r)'
  BY <1>2, <1>4 DEF WordsOK, AnswersFollow
<1> QED
  BY <1>1, <1>2, <1>3, <1>4, <1>5, <1>6, <1>7, TurnWords

LEMMA WorkerWords ==
    ASSUME Base, WordsInv, NEW r \in Runs, WorkerStep(r)
    PROVE  WordsInv'
<1>1. CASE MessageTurn(r) \/ WakeTurn(r) \/ AnsweredTurn(r)
  BY <1>1, TurnsWords
<1>2. worker[r] \in Worker /\ run[r] \in Row /\ run[r].seq \in Nat
  BY BaseFacts
<1>3. worker[r].phase # "idle" => Identity(r) \in Tokens
  BY BaseFacts
<1>4. \A phase \in Phase : LET w == [worker[r] EXCEPT !.phase = phase]
                           IN  /\ w \in Worker /\ w.phase = phase /\ w.current = worker[r].current
                               /\ w.turn = worker[r].turn /\ w.delegated = worker[r].delegated
  BY <1>2 DEF Worker
<1>5. IdleWorker \in Worker /\ IdleWorker.phase = "idle" /\ IdleWorker.current = None
      /\ ~IdleWorker.delegated
  BY IdleWorkerIs DEF IdleWorker
<1>6. CASE ModelStep(r) \/ ToolCalls(r) \/ TurnFails(r)
  <2>1. CASE Fails(r)
    <3>1. worker[r].phase # "idle" /\ "failing" \in Phase
      BY <1>6 DEF ModelStep, ToolCalls, TurnFails, AtPhase, Phase
    <3>2. /\ worker' = [worker EXCEPT ![r] = [worker[r] EXCEPT !.phase = "failing"]]
          /\ UNCHANGED <<run, granted, dispatch, address, inbox, tasks, answer>>
      BY <2>1 DEF Fails, Moves, Becomes, Release, ReleaseRead, RunUnchanged
    <3> QED
      BY <1>4, <3>1, <3>2, QuietTurnWords
  <2>2. CASE /\ RunUnchanged /\ Moves(r, "step") /\ UNCHANGED tasks
             /\ worker[r].phase = "model" /\ Holds(run[r], Identity(r))
    <3>1. /\ worker' = [worker EXCEPT ![r] = [worker[r] EXCEPT !.phase = "step"]]
          /\ UNCHANGED <<run, granted, dispatch, address, inbox, tasks, answer>>
          /\ "step" \in Phase
      BY <2>2 DEF Moves, Becomes, RunUnchanged, Phase
    <3> QED
      BY <1>4, <2>2, <3>1, QuietTurnWords
  <2>3. CASE /\ RunUnchanged /\ Moves(r, "model") /\ UNCHANGED tasks /\ worker[r].phase = "step"
    <3>1. /\ worker' = [worker EXCEPT ![r] = [worker[r] EXCEPT !.phase = "model"]]
          /\ UNCHANGED <<run, granted, dispatch, address, inbox, tasks, answer>>
          /\ "model" \in Phase
      BY <2>3 DEF Moves, Becomes, RunUnchanged, Phase
    <3> QED
      BY <1>4, <2>3, <3>1, QuietTurnWords
  <2> QED
    BY <1>6, <2>1, <2>2, <2>3 DEF ModelStep, ToolCalls, TurnFails, AtPhase, LeaseActive
<1>7. CASE Delegate(r)
  BY <1>3, <1>7, DelegateWords DEF Delegate, AtPhase
<1>8. CASE Ask(r)
  <2>1. /\ worker[r].phase = "step" /\ UNCHANGED <<dispatch, address, inbox, tasks, answer>>
        /\ worker' = [worker EXCEPT ![r] = [worker[r] EXCEPT !.phase = "parked"]]
        /\ "parked" \in Phase
    BY <1>8 DEF Ask, AtPhase, Moves, Becomes, Phase
  <2>2. CASE RunUnchanged
    BY <1>4, <2>1, <2>2, QuietTurnWords DEF RunUnchanged
  <2>3. CASE Holds(run[r], Identity(r)) /\ WaitForInput(r, Identity(r))
    <3> DEFINE row == [run[r] EXCEPT
                         !.question = run[r].seq + 1, !.lease = "none", !.seq = run[r].seq + 1,
                         !.report = "pending", !.status = "waiting_for_input"]
    <3>1. Write(r, row)
      BY <2>3 DEF WaitForInput
    <3>2. /\ row.status = "waiting_for_input" /\ row.session = run[r].session
          /\ row.seq = run[r].seq + 1 /\ row.seq # 0
      BY <1>2 DEF Row
    <3> HIDE DEF row
    <3>3. PICK t \in Tokens : t = Identity(r)
      BY <1>3, <2>1
    <3> QED
      BY <1>4, <2>1, <2>3, <3>1, <3>2, <3>3, ToldTurnWords
  <2> QED
    BY <1>8, <2>2, <2>3 DEF Ask
<1>9. ASSUME NEW kind \in {"result", "nothing_to_report"}, FinalMessage(r, kind)
      PROVE  WordsInv'
  <2>1. /\ worker[r].phase = "step" /\ UNCHANGED <<dispatch, address, inbox, tasks, answer>>
        /\ worker' = [worker EXCEPT ![r] = IdleWorker]
    BY <1>9 DEF FinalMessage, AtPhase, Rests, Becomes
  <2>2. CASE RunUnchanged
    BY <1>5, <2>1, <2>2, QuietTurnWords DEF RunUnchanged
  <2>3. CASE Holds(run[r], Identity(r)) /\ Write(r, Completed(run[r], kind))
    <3> DEFINE row == Completed(run[r], kind)
    <3>1. /\ row.status = "completed" /\ row.session = run[r].session
          /\ (row.seq = run[r].seq \/ row.seq = run[r].seq + 1)
      BY <1>2 DEF Completed, Row
    <3> HIDE DEF row
    <3>2. PICK t \in Tokens : t = Identity(r)
      BY <1>3, <2>1
    <3>3. Write(r, row)
      BY <2>3 DEF row
    <3> QED
      BY <1>5, <2>1, <2>3, <3>1, <3>2, <3>3, ToldTurnWords
  <2> QED
    BY <1>9, <2>2, <2>3 DEF FinalMessage, Complete
<1>10. CASE SessionFails(r)
  <2>1. SessionEnds(r) /\ UNCHANGED <<run, granted, dispatch, answer>>
    BY <1>10 DEF SessionFails, Release, ReleaseRead, RunUnchanged
  <2> QED
    BY <2>1, GoneWords
<1>11. CASE FailureHandled(r)
  <2>1. /\ worker[r].phase = "failing"
        /\ UNCHANGED <<run, granted, dispatch, address, inbox, tasks, answer>>
        /\ worker' = [worker EXCEPT ![r] = IdleWorker]
    BY <1>11 DEF FailureHandled, AtPhase, Rests, Becomes, RunUnchanged
  <2> QED
    BY <1>5, <2>1, QuietTurnWords
<1> QED
  BY <1>1, <1>6, <1>7, <1>8, <1>9, <1>10, <1>11 DEF WorkerStep

\* A release takes the row out of its worker's hands.
LEMMA WritesWords ==
    ASSUME Base, WordsInv, NEW read \in reads, ReleaseWrites(read)
    PROVE  WordsInv'
<1>1. /\ read.run \in Runs /\ read.token \in Tokens
      /\ UNCHANGED <<granted, dispatch, address, inbox, worker, tasks, answer>>
      /\ run' = IF run[read.run].token = read.token
                THEN [run EXCEPT ![read.run] = Released(run[read.run], read)] ELSE run
  BY DEF ReleaseWrites, ReleaseWrite, workerVars, Base, RunsInv, TypeOK, Read
<1>2. PICK r \in Runs : r = read.run
  BY <1>1
<1>3. /\ run[r] \in Row /\ run \in [Runs -> Row] /\ run[r].seq \in Nat
      /\ tasks[r].waiting \in Nat
  BY BaseFacts, WordsFacts
<1>4. WordsOK(r) /\ SameSession(r) /\ (\A u : Delivered(r, u)' <=> Delivered(r, u))
  BY <1>1, <1>2 DEF WordsInv, Delivered, SameSession
<1>5. Around(r)
  BY <1>1, <1>2, <1>3 DEF Around, SameSession
<1>6. CASE run' = run
  BY <1>1, <1>4, <1>5, <1>6, WordsElsewhere, WordsOfOne DEF SameWords
<1>7. CASE run'[r] = Released(run[r], read)
  <2>1. /\ run'[r].status \in {"queued", "dead_letter"} /\ run'[r].session = run[r].session
        /\ (run'[r].seq = run[r].seq \/ run'[r].seq = run[r].seq + 1)
    BY <1>3, <1>7 DEF Released, Row
  <2>2. ~Untold(r)' /\ (run[r].seq # 0 => run'[r].seq # 0)
    BY <1>3, <2>1 DEF Untold
  <2>3. \A u \in Tokens : GivenOnce(r, u)'
    BY <1>1, <1>4, <2>2, GivenKept
  <2>4. StepIsCurrent(r)' /\ Remembered(r)'
    BY <2>2 DEF StepIsCurrent, Remembered
  <2>5. Recorded(r)' /\ AnswersFollow(r)'
    BY <1>1, <1>4, <2>1, <2>2 DEF WordsOK, Recorded, AnswersFollow
  <2> QED
    BY <1>5, <2>3, <2>4, <2>5, WordsOfOne DEF WordsOK
<1> QED
  BY <1>1, <1>2, <1>3, <1>6, <1>7

\* An answer is about a run that has asked.
LEMMA AnswerWords ==
    ASSUME Base, WordsInv, NEW a \in Answers, AnswerStep(a) \/ AnswerCrash(a)
    PROVE  WordsInv'
<1>1. /\ answer[a].phase # "idle"
      /\ answer[a].run \in Runs /\ answer[a] \in Answer /\ answer \in [Answers -> Answer]
  BY DEF AnswerStep, AnswerClaims, AnswerReads, AnswerResponds, AnswerRestores,
         AnswerFinishes, AnswerCrash, AnswerAt, Base, CallersOK, AnswersOK
<1>2. PICK r \in Runs : r = answer[a].run
  BY <1>1
<1>3. /\ run[r] \in Row /\ run \in [Runs -> Row] /\ worker \in [Runs -> Worker]
      /\ run[r].seq \in Nat /\ tasks[r].waiting \in Nat
  BY BaseFacts, WordsFacts
<1>4. WordsOK(r) /\ run[r].seq # 0
  BY <1>1, <1>2 DEF WordsInv, WordsOK, AnswersFollow
<1>5. UNCHANGED <<dispatch, address, inbox, tasks, granted>>
  BY DEF AnswerStep, AnswerClaims, AnswerReads, AnswerResponds, AnswerRestores, AnswerFinishes,
         AnswerCrash, OnlyAnswer, RunUnchanged, ClaimInput, RestoreInput, FinishInput, Write
<1>6. \/ worker' = worker
      \/ worker' = [worker EXCEPT ![r] = [IdleWorker EXCEPT !.phase = "starting"]]
  BY <1>2 DEF AnswerStep, AnswerClaims, AnswerReads, AnswerResponds, AnswerRestores,
              AnswerFinishes, AnswerCrash, Resumes
<1>7. /\ \A q \in Runs \ {r} : run'[q] = run[q]
      /\ run'[r].seq = run[r].seq
  <2>1. \/ run' = run
        \/ ClaimInput(r, answer[a].token) \/ RestoreInput(r, answer[a].token)
        \/ FinishInput(r, answer[a].token)
    BY <1>2 DEF AnswerStep, AnswerClaims, AnswerReads, AnswerResponds, AnswerRestores,
                AnswerFinishes, AnswerCrash, RunUnchanged
  <2>2. ASSUME NEW row, row.seq = run[r].seq, Write(r, row)
        PROVE  /\ \A q \in Runs \ {r} : run'[q] = run[q]
               /\ run'[r].seq = run[r].seq
    BY <1>3, <2>2 DEF Write
  <2>3. CASE ClaimInput(r, answer[a].token)
    <3> DEFINE row == [run[r] EXCEPT !.status = "running", !.lease = "future"]
    <3>1. row.seq = run[r].seq /\ Write(r, row)
      BY <1>3, <2>3 DEF ClaimInput, Row
    <3> QED
      BY <2>2, <3>1
  <2>4. CASE RestoreInput(r, answer[a].token)
    <3> DEFINE row == [run[r] EXCEPT !.status = "waiting_for_input",
                                     !.lease = "none", !.deferred = None]
    <3>1. row.seq = run[r].seq /\ Write(r, row)
      BY <1>3, <2>4 DEF RestoreInput, Row
    <3> QED
      BY <2>2, <3>1
  <2>5. CASE FinishInput(r, answer[a].token)
    <3> DEFINE row == [run[r] EXCEPT !.deferred = None, !.question = 0,
                                     !.reportLease = "none", !.reportToken = None,
                                     !.report = "not_ready"]
    <3>1. row.seq = run[r].seq /\ Write(r, row)
      BY <1>3, <2>5 DEF FinishInput, Row
    <3> QED
      BY <2>2, <3>1
  <2> QED
    BY <2>1, <2>3, <2>4, <2>5
<1>8. /\ \A b \in Answers \ {a} : answer'[b] = answer[b]
      /\ answer'[a].phase = "idle" \/ answer'[a].run = r
  <2>1. ASSUME answer' = [answer EXCEPT ![a] = IdleAnswer]
        PROVE  answer'[a].phase = "idle" /\ \A b \in Answers \ {a} : answer'[b] = answer[b]
    BY <1>1, <2>1, IdleAnswerIs
  <2>2. ASSUME NEW at, answer' = [answer EXCEPT ![a].phase = at]
        PROVE  answer'[a].run = r /\ \A b \in Answers \ {a} : answer'[b] = answer[b]
    BY <1>1, <1>2, <2>2 DEF Answer
  <2>3. CASE AnswerClaims(a)
    BY <1>1, <1>2, <2>1, <2>2, <2>3 DEF AnswerClaims
  <2>4. CASE AnswerReads(a)
    BY <1>1, <1>2, <2>1, <2>4 DEF AnswerReads, Answer
  <2>5. CASE AnswerResponds(a)
    BY <2>2, <2>5 DEF AnswerResponds
  <2>6. CASE AnswerRestores(a) \/ AnswerFinishes(a) \/ AnswerCrash(a)
    BY <2>1, <2>2, <2>6 DEF AnswerRestores, AnswerFinishes, AnswerCrash
  <2> QED
    BY <2>3, <2>4, <2>5, <2>6 DEF AnswerStep
<1>9. /\ \A q \in Runs \ {r} : worker'[q] = worker[q]
      /\ worker'[r] = worker[r] \/ (worker'[r].phase = "starting" /\ worker'[r].current = None)
  BY <1>3, <1>6 DEF IdleWorker
<1>10. Around(r)
  BY <1>5, <1>7, <1>8, <1>9 DEF Around, SameSession
<1>11. \A u \in Tokens : Delivered(r, u)' => Delivered(r, u)
  BY <1>5, <1>9 DEF Delivered
<1>12. ~Untold(r)' /\ run'[r].seq # 0
  BY <1>4, <1>7 DEF Untold
<1>13. \A u \in Tokens : GivenOnce(r, u)'
  BY <1>4, <1>5, <1>11, <1>12, GivenKept
<1>14. Recorded(r)' /\ StepIsCurrent(r)' /\ Remembered(r)' /\ AnswersFollow(r)'
  BY <1>12 DEF Recorded, StepIsCurrent, Remembered, AnswersFollow
<1> QED
  BY <1>10, <1>13, <1>14, WordsOfOne DEF WordsOK

LEMMA AskedWords ==
    ASSUME Base, WordsInv, NEW a \in Answers, NEW r \in Runs, AnswerAsked(a, r)
    PROVE  WordsInv'
<1>1. /\ UNCHANGED <<run, granted, dispatch, address, inbox, worker, tasks>>
      /\ answer'[a].run = r /\ \A b \in Answers \ {a} : answer'[b] = answer[b]
      /\ run[r].status = "waiting_for_input"
  BY BaseFacts DEF AnswerAsked, RunUnchanged, OnlyAnswer
<1>2. WordsOK(r) /\ run[r].seq # 0
  BY <1>1 DEF WordsInv, WordsOK, AnswersFollow
<1>3. Around(r) /\ SameSession(r) /\ SameWords(r)
  BY <1>1 DEF Around, SameSession, SameWords
<1>4. WordsOK(r)'
  BY <1>1, <1>2, <1>3, WordsElsewhere
<1> QED
  BY <1>3, <1>4, WordsOfOne

LEMMA QuietWords ==
    ASSUME Base, WordsInv, NEW r \in Runs, ReportCall(r) \/ TimePasses(r), UNCHANGED workerVars
    PROVE  WordsInv'
<1>1. /\ SameWords(r) /\ \A q \in Runs \ {r} : run'[q] = run[q]
      /\ UNCHANGED <<granted, dispatch, address, inbox, worker, tasks, answer>>
  BY QuietColumns DEF SameWords, Base, workerVars
<1>2. WordsOK(r)' /\ Around(r)
  BY <1>1, WordsElsewhere DEF WordsInv, SameSession, Around
<1> QED
  BY <1>2, WordsOfOne

LEMMA WordsStart == WorkersInit => WordsInv
<1> SUFFICES ASSUME WorkersInit, NEW r \in Runs PROVE WordsOK(r)
  BY DEF WordsInv
<1>1. /\ run[r].status = "queued" /\ \A t \in Tokens : dispatch[r][t].phase = "none"
      /\ address[r] = None /\ inbox[r] = <<>> /\ worker[r] = IdleWorker
      /\ tasks[r].waiting = 0 /\ \A a \in Answers : answer[a].phase = "idle"
  BY DEF WorkersInit, Init, QueuedRow, NoDispatch, IdleAnswer
<1>2. \A t \in Tokens : ~Delivered(r, t)
  BY <1>1, NoneAssumption DEF Delivered, IdleWorker
<1>3. \A t \in Tokens : GivenOnce(r, t)
  BY <1>1, <1>2 DEF GivenOnce
<1>4. Recorded(r) /\ StepIsCurrent(r) /\ Remembered(r) /\ AnswersFollow(r)
  BY <1>1 DEF Recorded, StepIsCurrent, Remembered, AnswersFollow, Untold, IdleWorker
<1> QED
  BY <1>3, <1>4 DEF WordsOK

LEMMA WordsStep ==
    ASSUME Base, WordsInv, [WorkersNext]_allVars
    PROVE  WordsInv'
<1>1. CASE \E batch \in SUBSET Runs, t \in Tokens : Tick(batch, t)
  BY <1>1, TickWords
<1>2. CASE \E r \in Runs, t \in Tokens : DispatchStep(r, t) \/ DispatchCrash(r, t)
  BY <1>2, DispatchWords
<1>3. CASE \E r \in Runs : WorkerStep(r)
  BY <1>3, WorkerWords
<1>4. CASE \E read \in reads : ReleaseWrites(read)
  BY <1>4, WritesWords
<1>5. CASE \E a \in Answers : \/ \E r \in Runs : AnswerAsked(a, r)
                               \/ AnswerStep(a)
                               \/ AnswerCrash(a)
  BY <1>5, AskedWords, AnswerWords
<1>6. CASE \E r \in Runs : (ReportCall(r) \/ TimePasses(r)) /\ UNCHANGED workerVars
  BY <1>6, QuietWords
<1>7. CASE UNCHANGED allVars
  <2>1. ASSUME NEW r \in Runs PROVE WordsOK(r)'
    BY <1>7, WordsElsewhere DEF WordsInv, allVars, SameWords, SameSession
  <2> QED
    BY <2>1 DEF WordsInv
<1> QED
  BY <1>1, <1>2, <1>3, <1>4, <1>5, <1>6, <1>7 DEF WorkersNext

\* A step after which a row that was running is still without an ending.
GoesOn(r) == run'[r].status # "completed" /\ run'[r].outcome # "nothing_to_report"

\* A worker ends a run with a final message only: nothing else completes a row, and
\* what is written over a row says nothing about its outcome.
LEMMA LastWordOrNone ==
    ASSUME Base, [WorkersNext]_allVars, NEW r \in Runs, run[r].status = "running"
    PROVE  \/ GoesOn(r)
           \/ \E kind \in {"result", "nothing_to_report"} :
                 /\ worker[r].phase = "step"
                 /\ Holds(run[r], Identity(r)) /\ MayComplete(run[r], worker[r].turn, kind)
                 /\ run'[r].outcome = kind
<1>1. /\ run[r] \in Row /\ run \in [Runs -> Row] /\ run[r].outcome = None
      /\ \A read \in reads : read \in Read
  BY BaseFacts DEF Base, RunsInv, TypeOK, EndingInv, Terminal
<1>2. run'[r] = run[r] => GoesOn(r)
  BY <1>1, NoneAssumption DEF GoesOn, Outcomes
<1>3. ASSUME NEW q \in Runs, NEW row, Write(q, row),
             q = r => row.status # "completed" /\ row.outcome = None
      PROVE  GoesOn(r)
  BY <1>1, <1>2, <1>3, NoneAssumption DEF GoesOn, Write, Outcomes
<1>4. CASE \E batch \in SUBSET Runs, t \in Tokens : Tick(batch, t)
  <2>1. PICK batch \in SUBSET Runs, t \in Tokens : ClaimReady(batch, t)
    BY <1>4 DEF Tick
  <2>2. run'[r] = run[r] \/ run'[r] = Exhausted(run[r]) \/ run'[r] = Claimed(run[r], t)
    BY <2>1 DEF ClaimReady
  <2>3. /\ Exhausted(run[r]).status = "dead_letter" /\ Exhausted(run[r]).outcome = "blocked"
        /\ Claimed(run[r], t).status = "running" /\ Claimed(run[r], t).outcome = None
    BY <1>1 DEF Exhausted, Claimed, Row
  <2> QED
    BY <1>2, <2>2, <2>3, NoneAssumption DEF GoesOn, Outcomes
<1>5. ASSUME NEW q \in Runs, NEW t \in Tokens, DispatchStep(q, t) \/ DispatchCrash(q, t)
      PROVE  GoesOn(r)
  <2>1. CASE run' = run
    BY <1>2, <2>1
  <2>2. CASE SetSession(q, t, dispatch[q][t].session)
    <3> DEFINE row == [run[q] EXCEPT !.session = dispatch[q][t].session]
    <3>1. q = r => row.status = "running" /\ row.outcome = None
      BY <1>1 DEF Row
    <3> QED
      BY <1>3, <2>2, <3>1 DEF SetSession
  <2> QED
    BY <1>5, <2>1, <2>2
       DEF DispatchStep, DispatchCrash, Send, SendUnknown, SendRefused, PersistSession,
           ReleaseDispatch, Release, ReleaseRead, ReleaseLost, RunUnchanged
<1>6. ASSUME NEW q \in Runs, NEW s, NEW t, MarkStarted(q, t, s) PROVE GoesOn(r)
  <2> DEFINE row == [run[q] EXCEPT !.lease = "future", !.session = s]
  <2>1. q = r => row.status = "running" /\ row.outcome = None
    BY <1>1 DEF Row
  <2> QED
    BY <1>3, <1>6, <2>1 DEF MarkStarted
<1>7. ASSUME NEW q \in Runs, WorkerStep(q)
      PROVE  \/ GoesOn(r)
             \/ \E kind \in {"result", "nothing_to_report"} :
                   q = r /\ FinalMessage(q, kind) /\ Complete(q, Identity(q), worker[q].turn, kind)
  <2>1. CASE run' = run
    BY <1>2, <2>1
  <2>2. CASE \E t : MarkStarted(q, t, address[q])
    BY <1>6, <2>2
  <2>3. CASE WaitForInput(q, Identity(q))
    <3> DEFINE row == [run[q] EXCEPT
                         !.question = run[q].seq + 1, !.lease = "none", !.seq = run[q].seq + 1,
                         !.report = "pending", !.status = "waiting_for_input"]
    <3>1. q = r => row.status = "waiting_for_input" /\ row.outcome = None
      BY <1>1 DEF Row
    <3> QED
      BY <1>3, <2>3, <3>1 DEF WaitForInput
  <2>4. CASE Defer(q, Identity(q), worker[q].turn)
    <3> DEFINE row == [run[q] EXCEPT !.deferred = worker[q].turn]
    <3>1. q = r => row.status = "running" /\ row.outcome = None
      BY <1>1 DEF Row
    <3> QED
      BY <1>3, <2>4, <3>1 DEF Defer
  <2>5. ASSUME NEW kind \in {"result", "nothing_to_report"}, FinalMessage(q, kind),
               Complete(q, Identity(q), worker[q].turn, kind)
        PROVE  q = r \/ GoesOn(r)
    BY <1>3, <2>5 DEF Complete
  <2>6. CASE MessageTurn(q) \/ WakeTurn(q) \/ AnsweredTurn(q)
    BY <2>1, <2>2, <2>6 DEF MessageTurn, WakeTurn, AnsweredTurn, StartTurn, RunUnchanged
  <2>7. CASE ModelStep(q) \/ ToolCalls(q) \/ TurnFails(q) \/ SessionFails(q) \/ FailureHandled(q)
    BY <2>1, <2>7 DEF ModelStep, ToolCalls, TurnFails, SessionFails, FailureHandled, Fails,
                      Release, ReleaseRead, RunUnchanged
  <2>8. CASE Delegate(q) \/ Ask(q)
    BY <2>1, <2>3, <2>4, <2>8 DEF Delegate, Ask, RunUnchanged
  <2>9. ASSUME NEW kind \in {"result", "nothing_to_report"}, FinalMessage(q, kind)
        PROVE  run' = run \/ Complete(q, Identity(q), worker[q].turn, kind)
    BY <2>9 DEF FinalMessage, RunUnchanged
  <2> QED
    BY <1>7, <2>1, <2>5, <2>6, <2>7, <2>8, <2>9 DEF WorkerStep
<1>8. ASSUME NEW kind \in {"result", "nothing_to_report"}, FinalMessage(r, kind),
             Complete(r, Identity(r), worker[r].turn, kind)
      PROVE  /\ worker[r].phase = "step"
             /\ Holds(run[r], Identity(r)) /\ MayComplete(run[r], worker[r].turn, kind)
             /\ run'[r].outcome = kind
  <2>1. run'[r] = Completed(run[r], kind)
    BY <1>1, <1>8 DEF Complete, Write
  <2>2. Completed(run[r], kind).outcome = kind
    BY <1>1 DEF Completed, Row
  <2> QED
    BY <1>8, <2>1, <2>2 DEF FinalMessage, AtPhase, Complete
<1>9. ASSUME NEW read \in reads, ReleaseWrites(read) PROVE GoesOn(r)
  <2>1. \/ run'[r] = run[r]
        \/ /\ read.run = r /\ read.token = run[r].token
           /\ run'[r] = Released(run[r], read)
    BY <1>1, <1>9 DEF ReleaseWrites, ReleaseWrite, Read
  <2>2. read.run = r /\ read.token = run[r].token => read.outcome = None
    BY <1>9 DEF Base, RunsInv, ReadInv
  <2>3. /\ Released(run[r], read).status \in {"queued", "dead_letter"}
        /\ Released(run[r], read).outcome \in {read.outcome, "blocked"}
    BY <1>1, ReleasedFields
  <2> QED
    BY <1>2, <2>1, <2>2, <2>3, NoneAssumption DEF GoesOn, Outcomes
<1>10. ASSUME NEW a \in Answers, AnswerStep(a) \/ AnswerCrash(a) PROVE GoesOn(r)
  <2> DEFINE q == answer[a].run
             t == answer[a].token
  <2>1. run' = run \/ (q \in Runs /\ t \in Tokens /\ AnswerCall(q, t))
    <3>1. q \in Runs /\ t \in Tokens
      BY <1>10 DEF AnswerStep, AnswerClaims, AnswerReads, AnswerResponds, AnswerRestores,
                   AnswerFinishes, AnswerCrash, AnswerAt, Base, CallersOK, AnswersOK
    <3> QED
      BY <1>10, <3>1 DEF AnswerStep, AnswerClaims, AnswerReads, AnswerResponds, AnswerRestores,
                    AnswerFinishes, AnswerCrash, AnswerCall, RunUnchanged
  <2>2. ASSUME q \in Runs, t \in Tokens, AnswerCall(q, t) PROVE run'[r] = run[r] \/ q = r
    BY <1>1, <2>2 DEF AnswerCall, ClaimInput, RestoreInput, FinishInput, Write
  <2>3. ASSUME t \in Tokens, AnswerCall(r, t) PROVE GoesOn(r)
    BY <1>1, <2>3, AnswerRow, NoneAssumption DEF GoesOn, Base, Outcomes
  <2> QED
    BY <1>2, <2>1, <2>2, <2>3
<1>11. CASE \E a \in Answers, q \in Runs : AnswerAsked(a, q)
  BY <1>2, <1>11 DEF AnswerAsked, RunUnchanged
<1>12. CASE \E q \in Runs : (ReportCall(q) \/ TimePasses(q)) /\ UNCHANGED workerVars
  <2>1. run'[r].status = run[r].status /\ run'[r].outcome = run[r].outcome
    BY <1>12, QuietColumns DEF Base
  <2> QED
    BY <1>1, <2>1, NoneAssumption DEF GoesOn, Outcomes
<1>13. CASE UNCHANGED allVars
  BY <1>2, <1>13 DEF allVars, vars
<1> QED
  BY <1>4, <1>5, <1>7, <1>8, <1>9, <1>10, <1>11, <1>12, <1>13 DEF WorkersNext

\* What the two halves of the property say of one step.
LEMMA WordsHold ==
    ASSUME Base, WordsInv, [WorkersNext]_allVars, NEW r \in Runs,
           run[r].status = "running", run[r].seq = 0
    PROVE  /\ worker[r].delegated => run'[r].status # "completed"
           /\ run'[r].outcome = "nothing_to_report" => tasks[r].waiting = 0
<1>1. CASE GoesOn(r)
  BY <1>1 DEF GoesOn
<1>2. ASSUME NEW kind \in {"result", "nothing_to_report"}, worker[r].phase = "step",
             Holds(run[r], Identity(r)), MayComplete(run[r], worker[r].turn, kind),
             run'[r].outcome = kind
      PROVE  /\ ~worker[r].delegated
             /\ kind = "nothing_to_report" => tasks[r].waiting = 0
  <2>1. /\ Untold(r) /\ Identity(r) = run[r].token /\ Delivered(r, run[r].token)
        /\ tasks[r].waiting \in Nat
    BY <1>2, BaseFacts, WordsFacts, TurnIsDelivered, NoneAssumption DEF Untold, Holds
  <2>2. Remembered(r)
    BY DEF WordsInv, WordsOK
  <2> QED
    BY <1>2, <2>1, <2>2 DEF Remembered, MayComplete
<1> QED
  BY <1>1, <1>2, LastWordOrNone

\* Whatever the runs, leases, tasks, answers and faults: in a run that asked nothing, a
\* turn that delegated work never ends the run, and when the run ends in silence it has
\* no work left that could still speak.
THEOREM LastWordsAreLast == WorkersSafety => FinalWordsEnd
<1>1. WorkersInit => WordsInv
  BY WordsStart
<1>2. RunsInv /\ CallersOK /\ WordsInv /\ [WorkersNext]_allVars => WordsInv'
  BY WordsStep DEF Base
<1>3. RunsInv /\ CallersOK /\ WordsInv /\ [WorkersNext]_allVars =>
      [\A r \in Runs : worker[r].delegated /\ run[r].status = "running" /\ run[r].seq = 0 =>
          run'[r].status # "completed"]_allVars
  BY WordsHold DEF Base
<1>4. RunsInv /\ CallersOK /\ WordsInv /\ [WorkersNext]_allVars =>
      [\A r \in Runs :
          run[r].status = "running" /\ run[r].seq = 0 /\ run'[r].outcome = "nothing_to_report" =>
              tasks[r].waiting = 0]_allVars
  BY WordsHold DEF Base
<1> QED
  BY <1>1, <1>2, <1>3, <1>4, WorkersKeepLeases, PTL
     DEF WorkersSafety, FinalWordsEnd, InterimIsNotFinal, SilenceWaitsForTasks
====
