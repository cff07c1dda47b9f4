----------------------------- MODULE ClaimRowProofs -----------------------------
(***************************************************************************)
(* What ClaimRow keeps for any number of requests, workers and ticks.      *)
(*                                                                         *)
(* AuditBacksRow is not inductive: that a request finds its audit entry in *)
(* place when it writes the row depends on the order of its calls, and     *)
(* that the run's save brings back no assignment without an entry on what  *)
(* it read of the row before.                                              *)
(***************************************************************************)
EXTENDS ClaimRow, TLAPS

Pcs == {"new", "audit", "write", "emit", "done", "refused", "dead"}
Request == [pc : Pcs, op : AllOperations \cup {NoOne},
            target : Adjusters \cup {NoOne}]
Executing == [pc : {"executing"}]
Saving == [pc : {"saving"}, prior : Kept]
Sweeping == [pc : {"sweeping", "notifying"}, listed : Listed]
WorkerState == {Idle} \cup Executing \cup Saving \cup Sweeping

\* A request that was allowed has an operation, and any but a settlement has
\* its audit entry before it writes the row.
AuditBeforeWrite ==
  \A r \in Requests :
    /\ req[r].pc \in {"audit", "write"} => req[r].op \in AllOperations
    /\ req[r].pc = "write" /\ req[r].op # "settle" => r \in audit

\* What a save will keep of the row is backed by the audit log too.
AuditBacksSave ==
  \A w \in Workers : worker[w].pc = "saving" =>
    worker[w].prior.assignedBy \in audit \cup {NoOne}

RowInv ==
  /\ TypeOK
  /\ AuditBeforeWrite
  /\ AuditBacksSave
  /\ AuditBacksRow
  /\ BlocksExplainStatus

LEMMA RowInit == Init => RowInv
<1> SUFFICES ASSUME Init PROVE RowInv
  OBVIOUS
<1> USE RowAssumption DEF Init
<1>1. 0 \in Times /\ 0 \in 0..MaxFaults
  BY DEF Times
<1>2. row \in Row
  BY <1>1 DEF Row, Reviewable, Decided
<1>3. TypeOK
  BY <1>1, <1>2 DEF TypeOK, Idle
<1>4. AuditBeforeWrite /\ AuditBacksSave /\ AuditBacksRow /\ BlocksExplainStatus
  BY DEF AuditBeforeWrite, AuditBacksSave, AuditBacksRow, BlocksExplainStatus,
         Idle
<1> QED
  BY <1>3, <1>4 DEF RowInv

\* What a worker may be doing, by its pc.
LEMMA WorkerKinds ==
  ASSUME TypeOK, NEW w \in Workers
  PROVE  /\ worker \in [Workers -> WorkerState]
         /\ worker[w].pc = "saving" => worker[w] \in Saving
         /\ worker[w].pc \in {"sweeping", "notifying"} => worker[w] \in Sweeping
<1>1. worker \in [Workers -> WorkerState]
  BY DEF TypeOK, WorkerState, Executing, Saving, Sweeping
<1> QED
  BY <1>1 DEF WorkerState, Idle, Executing, Saving, Sweeping

\* The next value of the requests after one of them has moved on.
LEMMA RequestMoves ==
  ASSUME TypeOK, NEW r \in Requests, NEW pc \in Pcs,
         req' = [req EXCEPT ![r].pc = pc]
  PROVE  /\ req' \in [Requests -> Request]
         /\ req'[r].pc = pc /\ req'[r].op = req[r].op
         /\ \A q \in Requests \ {r} : req'[q] = req[q]
  BY DEF TypeOK, Request, Pcs

\* A request's update of the row: the fields it touches, and those it leaves.
LEMMA UpdateKeeps ==
  ASSUME row \in Row, NEW r \in Requests, req[r] \in Request,
         req[r].op \in AllOperations
  PROVE  /\ Updated(r) \in Row
         /\ Updated(r).escalatedAt = row.escalatedAt
         /\ \/ /\ Updated(r).status = row.status
               /\ Updated(r).override = row.override
               /\ Updated(r).reopen = row.reopen
            \/ /\ req[r].op = "override" /\ Updated(r).status = "overridden"
               /\ Updated(r).override = r /\ Updated(r).reopen = row.reopen
            \/ /\ req[r].op = "reopen" /\ Updated(r).status = "reopened"
               /\ Updated(r).override = row.override /\ Updated(r).reopen = r
         /\ Updated(r).assignedBy \in {row.assignedBy, r}
         /\ Updated(r).flags \subseteq row.flags \cup {r}
         /\ req[r].op = "settle" => /\ Updated(r).assignedBy = row.assignedBy
                                   /\ Updated(r).flags = row.flags
<1> USE DEF Row, Request
<1>1. CASE req[r].op = "override"
  BY <1>1 DEF Updated, Decided
<1>2. CASE req[r].op = "reopen"
  BY <1>2 DEF Updated, Reviewable
<1>3. CASE req[r].op = "settle"
  BY <1>3 DEF Updated
<1>4. CASE req[r].op = "reassign"
  <2>1. ASSUME NEW u,
               u = [row EXCEPT !.assignee = req[r].target, !.assignedBy = r]
        PROVE  /\ u \in Row /\ u.status = row.status
               /\ u.override = row.override /\ u.reopen = row.reopen
               /\ u.escalatedAt = row.escalatedAt /\ u.flags = row.flags
               /\ u.assignedBy = r
    BY <2>1
  <2>2. Updated(r)
          = [row EXCEPT !.assignee = req[r].target, !.assignedBy = r]
    BY <1>4 DEF Updated
  <2> HIDE DEF Row, Request
  <2> QED
    BY <1>4, <2>1, <2>2
<1>5. CASE req[r].op = "bulk_reassign"
  BY <1>5 DEF Updated
<1>6. CASE req[r].op = "flag"
  BY <1>6 DEF Updated, PushFlag
<1> QED
  BY <1>1, <1>2, <1>3, <1>4, <1>5, <1>6 DEF AllOperations

\* A request writes the row only with its audit entry behind it.
LEMMA RequestKeeps ==
  ASSUME RowInv, NEW r \in Requests, RequestStep(r) \/ RequestDies(r)
  PROVE  RowInv'
<1> USE RowAssumption DEF RowInv
<1>1. /\ row \in Row /\ req \in [Requests -> Request] /\ req[r] \in Request
      /\ audit \subseteq Requests
  BY DEF TypeOK, Request, Pcs
<1>2. CASE ReadRow(r)
  <2>1. PICK op \in Operations, a \in Adjusters \cup {NoOne} :
          req' = [req EXCEPT ![r] =
            [pc |-> IF Allowed(op) THEN FirstCall(op) ELSE "refused",
             op |-> op, target |-> a]]
    BY <1>2 DEF ReadRow
  <2>2. PICK pc \in Pcs :
          /\ req' = [req EXCEPT ![r] = [pc |-> pc, op |-> op, target |-> a]]
          /\ pc = "write" => op = "settle"
    BY <2>1 DEF FirstCall, Pcs
  <2>3. /\ req' \in [Requests -> Request]
        /\ req'[r].pc = "write" => req'[r].op = "settle"
        /\ req'[r].op \in AllOperations
        /\ \A q \in Requests \ {r} : req'[q] = req[q]
    BY <1>1, <2>2 DEF Request
  <2>4. UNCHANGED <<row, audit, events, bell, run, worker, clock, faults>>
    BY <1>2 DEF ReadRow
  <2>5. TypeOK'
    BY <2>3, <2>4 DEF TypeOK, Request, Pcs
  <2>6. AuditBeforeWrite'
    BY <2>3, <2>4 DEF AuditBeforeWrite
  <2> QED
    BY <2>4, <2>5, <2>6 DEF AuditBacksSave, AuditBacksRow, BlocksExplainStatus
<1>3. CASE AppendAudit(r)
  <2>1. PICK pc \in {"write", "emit"} :
          /\ req' = [req EXCEPT ![r].pc = pc]
          /\ req[r].op # "settle" => pc = "write"
    BY <1>3 DEF AppendAudit
  <2>2. /\ req' \in [Requests -> Request]
        /\ req'[r].pc = pc /\ req'[r].op = req[r].op
        /\ \A q \in Requests \ {r} : req'[q] = req[q]
    BY <2>1, RequestMoves DEF Pcs
  <2>3. /\ req[r].pc = "audit" /\ audit' = audit \cup {r}
        /\ UNCHANGED <<row, events, bell, run, worker, clock, faults>>
    BY <1>3 DEF AppendAudit
  <2>4. TypeOK'
    BY <1>1, <2>2, <2>3 DEF TypeOK, Request, Pcs
  <2>5. AuditBeforeWrite'
    BY <2>2, <2>3 DEF AuditBeforeWrite
  <2>6. AuditBacksSave' /\ AuditBacksRow' /\ BlocksExplainStatus'
    BY <2>3 DEF AuditBacksSave, AuditBacksRow, BlocksExplainStatus
  <2> QED
    BY <2>4, <2>5, <2>6
<1>4. CASE WriteRow(r)
  <2>1. PICK pc \in {"audit", "emit"} : req' = [req EXCEPT ![r].pc = pc]
    BY <1>4 DEF WriteRow
  <2>2. /\ req' \in [Requests -> Request]
        /\ req'[r].pc = pc /\ req'[r].op = req[r].op
        /\ \A q \in Requests \ {r} : req'[q] = req[q]
    BY <2>1, RequestMoves DEF Pcs
  <2>3. /\ req[r].pc = "write" /\ row' = Updated(r)
        /\ UNCHANGED <<audit, events, bell, run, worker, clock, faults>>
    BY <1>4 DEF WriteRow
  <2>4. req[r].op \in AllOperations /\ (req[r].op # "settle" => r \in audit)
    BY <2>3 DEF AuditBeforeWrite
  <2>5. TypeOK'
    BY <1>1, <2>2, <2>3, <2>4, UpdateKeeps DEF TypeOK, Request, Pcs
  <2>6. AuditBeforeWrite'
    BY <2>2, <2>3, <2>4 DEF AuditBeforeWrite
  <2>7. AuditBacksSave'
    BY <2>3 DEF AuditBacksSave
  <2>8. AuditBacksRow'
    <3>1. /\ row'.override \in {row.override, r} /\ row'.reopen \in {row.reopen, r}
          /\ row'.assignedBy \in {row.assignedBy, r}
          /\ row'.flags \subseteq row.flags \cup {r}
          /\ req[r].op = "settle" =>
               /\ row'.override = row.override /\ row'.reopen = row.reopen
               /\ row'.assignedBy = row.assignedBy
               /\ row'.flags = row.flags
      BY <1>1, <2>3, <2>4, UpdateKeeps
    <3> QED
      BY <2>3, <2>4, <3>1 DEF AuditBacksRow
  <2>9. BlocksExplainStatus'
    BY <1>1, <2>3, <2>4, UpdateKeeps DEF BlocksExplainStatus
  <2> QED
    BY <2>5, <2>6, <2>7, <2>8, <2>9
<1>5. CASE EmitEvent(r) \/ RequestDies(r)
  <2>1. PICK pc \in {"done", "dead"} : req' = [req EXCEPT ![r].pc = pc]
    BY <1>5 DEF EmitEvent, RequestDies
  <2>2. /\ req' \in [Requests -> Request]
        /\ req'[r].pc = pc /\ req'[r].op = req[r].op
        /\ \A q \in Requests \ {r} : req'[q] = req[q]
    BY <2>1, RequestMoves DEF Pcs
  <2>3. /\ events' \subseteq Requests /\ faults' \in 0..MaxFaults
        /\ UNCHANGED <<row, audit, bell, run, worker, clock>>
    BY <1>5 DEF EmitEvent, RequestDies, TypeOK
  <2>4. TypeOK'
    BY <2>2, <2>3 DEF TypeOK, Request, Pcs
  <2>5. AuditBeforeWrite'
    BY <2>2, <2>3 DEF AuditBeforeWrite
  <2>6. AuditBacksSave' /\ AuditBacksRow' /\ BlocksExplainStatus'
    BY <2>3 DEF AuditBacksSave, AuditBacksRow, BlocksExplainStatus
  <2> QED
    BY <2>4, <2>5, <2>6
<1> QED
  BY <1>2, <1>3, <1>4, <1>5 DEF RequestStep

\* A worker writes what it read of the row, or the time.
LEMMA WorkerKeeps ==
  ASSUME RowInv, NEW w \in Workers, WorkerStep(w)
  PROVE  RowInv'
<1> USE RowAssumption DEF RowInv
<1>1. /\ row \in Row /\ clock \in Times /\ audit \subseteq Requests
      /\ worker \in [Workers -> WorkerState] /\ bell \in Adjusters \cup {NoOne}
      /\ Idle \in WorkerState
  BY WorkerKinds DEF TypeOK, WorkerState
<1>2. ASSUME NEW s \in WorkerState, worker' = [worker EXCEPT ![w] = s],
             s.pc = "saving" => s.prior.assignedBy \in audit \cup {NoOne},
             row' \in Row, run' \in {"queued", "running", "over"},
             bell' \in Adjusters \cup {NoOne},
             AuditBacksRow', BlocksExplainStatus',
             UNCHANGED <<audit, events, req, clock, faults>>
      PROVE  RowInv'
  <2>1. /\ worker' \in [Workers -> WorkerState] /\ worker'[w] = s
        /\ \A v \in Workers \ {w} : worker'[v] = worker[v]
    BY <1>1, <1>2
  <2>2. TypeOK'
    BY <1>2, <2>1 DEF TypeOK, WorkerState, Executing, Saving, Sweeping
  <2>3. AuditBeforeWrite'
    BY <1>2 DEF AuditBeforeWrite
  <2>4. AuditBacksSave'
    BY <1>2, <2>1 DEF AuditBacksSave
  <2> QED
    BY <1>2, <2>2, <2>3, <2>4
<1>3. ASSUME UNCHANGED <<row, audit>>
      PROVE  row' \in Row /\ AuditBacksRow' /\ BlocksExplainStatus'
  BY <1>1, <1>3 DEF AuditBacksRow, BlocksExplainStatus
<1>4. CASE TakeRun(w)
  <2>1. /\ [pc |-> "executing"] \in WorkerState
        /\ [pc |-> "executing"].pc # "saving"
    BY DEF WorkerState, Executing
  <2> QED
    BY <1>1, <1>2, <1>3, <1>4, <2>1 DEF TakeRun
<1>5. CASE ReadPrior(w)
  <2> DEFINE prior == [assignee |-> row.assignee, assignedBy |-> row.assignedBy,
                       escalatedAt |-> row.escalatedAt]
  <2>1. /\ [pc |-> "saving", prior |-> prior] \in WorkerState
        /\ prior.assignedBy \in audit \cup {NoOne}
    BY <1>1 DEF WorkerState, Saving, Kept, Row, AuditBacksRow
  <2>2. run' \in {"queued", "running", "over"}
    BY <1>5 DEF ReadPrior, TypeOK
  <2> QED
    BY <1>1, <1>2, <1>3, <1>5, <2>1, <2>2 DEF ReadPrior
<1>6. CASE SaveClaim(w)
  <2>1. PICK status \in SavedStatuses : row' = SavedRow(worker[w].prior, status)
    BY <1>6 DEF SaveClaim
  <2>2. worker[w].prior \in Kept
    BY <1>6, WorkerKinds DEF SaveClaim, Saving
  <2>3. worker[w].prior.assignedBy \in audit \cup {NoOne}
    BY <1>6 DEF SaveClaim, AuditBacksSave
  <2>4. row' \in Row
    BY <1>1, <2>1, <2>2 DEF SavedRow, Row, Kept, SavedStatuses, Reviewable, Decided
  <2>5. AuditBacksRow' /\ BlocksExplainStatus'
    BY <1>6, <2>1, <2>3 DEF SaveClaim, SavedRow, SavedStatuses, AuditBacksRow,
                            BlocksExplainStatus
  <2>6. Idle.pc # "saving"
    BY DEF Idle
  <2> QED
    BY <1>1, <1>2, <1>6, <2>4, <2>5, <2>6 DEF SaveClaim
<1>7. CASE ListCandidates(w)
  <2> DEFINE s == [pc |-> "sweeping",
                   listed |-> [assignee |-> row.assignee,
                               createdAt |-> row.createdAt]]
  <2>1. s \in WorkerState /\ s.pc # "saving"
    BY <1>1 DEF WorkerState, Sweeping, Listed, Row
  <2>2. run' \in {"queued", "running", "over"}
    BY <1>7 DEF ListCandidates, TypeOK
  <2> QED
    BY <1>1, <1>2, <1>3, <1>7, <2>1, <2>2 DEF ListCandidates
<1>8. CASE Escalate(w)
  <2>1. worker[w] \in Sweeping
    BY <1>8, WorkerKinds DEF Escalate
  <2>2. run' \in {"queued", "running", "over"} /\ Idle.pc # "saving"
    BY <1>8 DEF Escalate, TypeOK, Idle
  <2>3. CASE /\ row' = [row EXCEPT !.escalatedAt = clock]
             /\ worker' = [worker EXCEPT ![w].pc = "notifying"]
    <3>1. /\ row' \in Row
          /\ row'.status = row.status /\ row'.flags = row.flags
          /\ row'.override = row.override /\ row'.reopen = row.reopen
          /\ row'.assignedBy = row.assignedBy /\ audit' = audit
      BY <1>1, <1>8, <2>3 DEF Escalate, Row
    <3>2. /\ row' \in Row /\ AuditBacksRow' /\ BlocksExplainStatus'
      BY <3>1 DEF AuditBacksRow, BlocksExplainStatus
    <3>3. PICK s \in Sweeping : /\ worker' = [worker EXCEPT ![w] = s]
                                /\ s.pc = "notifying"
      <4>1. [worker[w] EXCEPT !.pc = "notifying"] \in Sweeping
        BY <2>1 DEF Sweeping
      <4>2. [worker[w] EXCEPT !.pc = "notifying"].pc = "notifying"
        BY <2>1 DEF Sweeping
      <4> QED
        BY <2>3, <4>1, <4>2
    <3> QED
      BY <1>1, <1>2, <1>8, <2>2, <3>2, <3>3 DEF Escalate, WorkerState
  <2>4. CASE worker' = [worker EXCEPT ![w] = Idle] /\ UNCHANGED row
    BY <1>1, <1>2, <1>3, <1>8, <2>2, <2>4 DEF Escalate
  <2> QED
    BY <1>8, <2>3, <2>4 DEF Escalate
<1>9. CASE NotifyAssignee(w)
  <2>1. worker[w].listed.assignee \in Adjusters \cup {NoOne}
    BY <1>9, WorkerKinds DEF NotifyAssignee, Sweeping, Listed
  <2>2. run' \in {"queued", "running", "over"} /\ Idle.pc # "saving"
    BY <1>9 DEF NotifyAssignee, TypeOK, Idle
  <2> QED
    BY <1>1, <1>2, <1>3, <1>9, <2>1, <2>2 DEF NotifyAssignee
<1> QED
  BY <1>4, <1>5, <1>6, <1>7, <1>8, <1>9 DEF WorkerStep

LEMMA RowStep == RowInv /\ [Next]_vars => RowInv'
<1> SUFFICES ASSUME RowInv, [Next]_vars PROVE RowInv'
  OBVIOUS
<1>1. CASE UNCHANGED vars
  BY <1>1 DEF vars, RowInv, TypeOK, AuditBeforeWrite, AuditBacksSave,
              AuditBacksRow, BlocksExplainStatus
<1>2. CASE Tick
  <2>1. /\ clock' \in Times
        /\ UNCHANGED <<row, audit, events, bell, req, run, worker, faults>>
    BY <1>2, RowAssumption DEF Tick, RowInv, TypeOK, Times
  <2> QED
    BY <2>1 DEF RowInv, TypeOK, AuditBeforeWrite, AuditBacksSave,
                AuditBacksRow, BlocksExplainStatus
<1> QED
  BY <1>1, <1>2, RequestKeeps, WorkerKeeps DEF Next

\* The invariant of the row, its writers and the audit log.
THEOREM RowInvariant == Spec => []RowInv
  BY RowInit, RowStep, PTL DEF Spec

\* Every variable keeps its type.
THEOREM RowTypes == Spec => []TypeOK
<1>1. RowInv => TypeOK
  BY DEF RowInv
<1> QED
  BY <1>1, RowInvariant, PTL

\* A status an adjuster gave shows with its block, and no block with a status
\* of the pipeline, however many requests and saves interleave.
THEOREM BlocksAlwaysExplain == Spec => []BlocksExplainStatus
<1>1. RowInv => BlocksExplainStatus
  BY DEF RowInv
<1> QED
  BY <1>1, RowInvariant, PTL

\* What the row says an adjuster did has its audit entry.
THEOREM AuditAlwaysBacks == Spec => []AuditBacksRow
<1>1. RowInv => AuditBacksRow
  BY DEF RowInv
<1> QED
  BY <1>1, RowInvariant, PTL

\* No step but a save changes the stamp of an escalation.
LEMMA StampStays ==
  ASSUME RowInv, [Next]_vars, row.escalatedAt # NoOne, ~Replaced
  PROVE  row'.escalatedAt = row.escalatedAt
<1>1. ASSUME NEW r \in Requests, WriteRow(r)
      PROVE  row'.escalatedAt = row.escalatedAt
  <2>1. /\ row \in Row /\ req[r] \in Request /\ req[r].op \in AllOperations
    BY <1>1 DEF RowInv, TypeOK, Request, Pcs, WriteRow, AuditBeforeWrite
  <2> QED
    BY <1>1, <2>1, UpdateKeeps DEF WriteRow
<1>2. ASSUME NEW w \in Workers, Escalate(w)
      PROVE  row' = row
  BY <1>2 DEF Escalate
<1>3. ASSUME NEW w \in Workers, SaveClaim(w)
      PROVE  FALSE
  BY <1>3 DEF SaveClaim, Replaced, RowInv, TypeOK
<1>4. CASE UNCHANGED row
  BY <1>4
<1> QED
  BY <1>1, <1>2, <1>3, <1>4 DEF Next, vars, RequestStep, WorkerStep, ReadRow,
     AppendAudit, EmitEvent, RequestDies, TakeRun, ReadPrior, ListCandidates,
     NotifyAssignee, Tick

\* The first stamp of an escalation stays, whoever sweeps, until the run's save.
THEOREM EscalationsSetOnce == Spec => EscalationSetOnce
<1>1. RowInv /\ [Next]_vars =>
        [row.escalatedAt # NoOne /\ row'.escalatedAt # row.escalatedAt
           => Replaced]_vars
  BY StampStays
<1> QED
  BY <1>1, RowInvariant, PTL DEF Spec, EscalationSetOnce

=============================================================================
