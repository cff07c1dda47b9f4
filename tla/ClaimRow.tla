------------------------------- MODULE ClaimRow -------------------------------
(***************************************************************************)
(* One document of the claims collection and everyone who writes it: the   *)
(* adjusters' requests (override, reassign and the bulk actions in         *)
(* app/workbench_routes.py, reopen in app/claims_routes.py, settlement in  *)
(* server.py), the worker that saves the claim's run (_save_claim in       *)
(* pipeline.py) and the SLA sweep of every worker (app/escalation.py).     *)
(*                                                                         *)
(* No writer holds a lock.  A request reads the row, tests its status,     *)
(* and then writes the audit log, the row and the event log in three more  *)
(* calls; the run's save reads the fields it must keep and replaces the    *)
(* whole row in a second call; a sweep works from the rows it listed.      *)
(* A single update_one of the row is atomic.                               *)
(***************************************************************************)
EXTENDS Naturals

CONSTANTS
  Requests,     \* adjusters' requests, each made once
  Workers,      \* worker processes
  Adjusters,    \* accounts a claim can be assigned to
  NoOne,        \* no request, adjuster or timestamp
  Operations,   \* the operations requests may ask for
  Threshold,    \* age at which a claim escalates
  MaxClock,     \* bound: the clock stops there
  MaxFaults     \* bound: requests that die half way

AllOperations == {"override", "reopen", "settle", "reassign", "bulk_reassign",
                  "flag"}

ASSUME RowAssumption ==
  /\ NoOne \notin Requests \cup Adjusters \cup Nat
  /\ Operations \subseteq AllOperations
  /\ Threshold \in Nat /\ MaxClock \in Nat /\ MaxFaults \in Nat

VARIABLES
  row,      \* the claim document
  audit,    \* audit_log: the requests that have an entry
  events,   \* claim_events: the requests that have an event
  bell,     \* who has the claim's escalation notification
  req,      \* each request: pc, operation, target
  run,      \* the claim's run: queued, running, over
  worker,   \* each worker: pc and what it has read
  clock,
  faults

vars == <<row, audit, events, bell, req, run, worker, clock, faults>>

Reviewable == {"escalated", "pending", "reopened", "under_review"}
Decided == {"auto_approved", "approved", "rejected", "overridden", "settled",
            "failed"}
RunStatuses == {"auto_approved", "escalated", "failed", "halted"}
\* The values of _CLAIM_STATUS_BY_RUN.
SavedStatuses == {"auto_approved", "escalated", "failed", "pending"}
Times == 0..MaxClock

Row == [status : Reviewable \cup Decided,
        override : Requests \cup {NoOne},
        reopen : Requests \cup {NoOne},
        settlement : Requests \cup {NoOne},
        flags : SUBSET Requests,
        assignee : Adjusters \cup {NoOne},
        assignedBy : Requests \cup {NoOne},   \* NoOne: the automatic pick
        escalatedAt : Times \cup {NoOne},
        createdAt : Times]

\* What a save reads of the prior row, and what a sweep uses of a listed one.
Kept == [assignee : Adjusters \cup {NoOne}, assignedBy : Requests \cup {NoOne},
         escalatedAt : Times \cup {NoOne}]
Listed == [assignee : Adjusters \cup {NoOne}, createdAt : Times]

Idle == [pc |-> "idle"]

TypeOK ==
  /\ row \in Row
  /\ audit \subseteq Requests /\ events \subseteq Requests
  /\ bell \in Adjusters \cup {NoOne}
  /\ req \in [Requests -> [pc : {"new", "audit", "write", "emit", "done",
                                 "refused", "dead"},
                           op : AllOperations \cup {NoOne},
                           target : Adjusters \cup {NoOne}]]
  /\ run \in {"queued", "running", "over"}
  /\ worker \in [Workers ->
       {Idle} \cup [pc : {"executing"}]
              \cup [pc : {"saving"}, prior : Kept]
              \cup [pc : {"sweeping", "notifying"}, listed : Listed]]
  /\ clock \in Times
  /\ faults \in 0..MaxFaults

\* submit_claim has inserted the row, with its owner, and queued a run.
Init ==
  /\ \E a \in Adjusters :
       row = [status |-> "pending", override |-> NoOne, reopen |-> NoOne,
              settlement |-> NoOne, flags |-> {}, assignee |-> a,
              assignedBy |-> NoOne, escalatedAt |-> NoOne, createdAt |-> 0]
  /\ audit = {} /\ events = {}
  /\ bell = NoOne
  /\ req = [r \in Requests |-> [pc |-> "new", op |-> NoOne, target |-> NoOne]]
  /\ run = "queued"
  /\ worker = [w \in Workers |-> Idle]
  /\ clock = 0
  /\ faults = 0

-----------------------------------------------------------------------------
(* Adjusters' requests.                                                    *)

\* The test an operation makes of the row it has read.
Allowed(op) ==
  CASE op = "override" -> row.status \in Reviewable
    [] op = "reopen" -> row.status \in Decided
    [] op = "settle" -> row.settlement = NoOne
    [] OTHER -> TRUE

WriteFirst(op) == "write"
\* The call that follows the read: settlement alone writes the row first.
FirstCall(op) == IF op = "settle" THEN "write" ELSE "audit"

\* The request reads the row, and is refused or goes on.
ReadRow(r) ==
  /\ req[r].pc = "new"
  /\ \E op \in Operations :
     \E a \in IF op \in {"reassign", "bulk_reassign"} THEN Adjusters ELSE {NoOne} :
       req' = [req EXCEPT ![r] =
         [pc |-> IF Allowed(op) THEN FirstCall(op) ELSE "refused",
          op |-> op, target |-> a]]
  /\ UNCHANGED <<row, audit, events, bell, run, worker, clock, faults>>

AppendAudit(r) ==
  /\ req[r].pc = "audit"
  /\ audit' = audit \cup {r}
  /\ req' = [req EXCEPT ![r].pc =
       IF req[r].op = "settle" THEN "emit" ELSE "write"]
  /\ UNCHANGED <<row, events, bell, run, worker, clock, faults>>

\* $push: the flag joins whatever flags the row has by now.
PushFlag(r) == row.flags \cup {r}

\* The update_one of each operation; none repeats the test of ReadRow.
Updated(r) ==
  CASE req[r].op = "override" ->
         [row EXCEPT !.status = "overridden", !.override = r]
    [] req[r].op = "reopen" ->
         [row EXCEPT !.status = "reopened", !.reopen = r]
    [] req[r].op = "settle" -> [row EXCEPT !.settlement = r]
    [] req[r].op = "reassign" ->
         [row EXCEPT !.assignee = req[r].target, !.assignedBy = r]
    [] req[r].op = "bulk_reassign" -> [row EXCEPT !.assignee = req[r].target]
    [] req[r].op = "flag" -> [row EXCEPT !.flags = PushFlag(r)]

WriteRow(r) ==
  /\ req[r].pc = "write"
  /\ row' = Updated(r)
  /\ req' = [req EXCEPT ![r].pc =
       IF req[r].op = "settle" /\ r \notin audit THEN "audit" ELSE "emit"]
  /\ UNCHANGED <<audit, events, bell, run, worker, clock, faults>>

EmitNothing(r) ==
  /\ req[r].pc = "emit"
  /\ req' = [req EXCEPT ![r].pc = "done"]
  /\ UNCHANGED <<row, audit, events, bell, run, worker, clock, faults>>

EmitEvent(r) ==
  /\ req[r].pc = "emit"
  /\ events' = events \cup {r}
  /\ req' = [req EXCEPT ![r].pc = "done"]
  /\ UNCHANGED <<row, audit, bell, run, worker, clock, faults>>

\* The API process dies, or one of the request's database calls fails.
RequestDies(r) ==
  /\ req[r].pc \in {"audit", "write", "emit"}
  /\ faults < MaxFaults
  /\ faults' = faults + 1
  /\ req' = [req EXCEPT ![r].pc = "dead"]
  /\ UNCHANGED <<row, audit, events, bell, run, worker, clock>>

-----------------------------------------------------------------------------
(* The claim's run: everything before its save is in ClaimPipeline.        *)

TakeRun(w) ==
  /\ worker[w] = Idle /\ run = "queued"
  /\ run' = "running"
  /\ worker' = [worker EXCEPT ![w] = [pc |-> "executing"]]
  /\ UNCHANGED <<row, audit, events, bell, req, clock, faults>>

\* _save_claim's find_one of the fields that must survive.
ReadPrior(w) ==
  /\ worker[w].pc = "executing"
  /\ worker' = [worker EXCEPT ![w] =
       [pc |-> "saving",
        prior |-> [assignee |-> row.assignee, assignedBy |-> row.assignedBy,
                   escalatedAt |-> row.escalatedAt]]]
  /\ UNCHANGED <<row, audit, events, bell, req, run, clock, faults>>

SavedRow(prior, status) ==
  [status |-> status, override |-> NoOne, reopen |-> NoOne,
   settlement |-> NoOne, flags |-> {}, assignee |-> prior.assignee,
   assignedBy |-> prior.assignedBy, escalatedAt |-> prior.escalatedAt,
   createdAt |-> clock]

SaveStatusOnly(w) ==
  /\ worker[w].pc = "saving"
  /\ \E status \in SavedStatuses : row' = [row EXCEPT !.status = status]
  /\ run' = "over"
  /\ worker' = [worker EXCEPT ![w] = Idle]
  /\ UNCHANGED <<audit, events, bell, req, clock, faults>>

\* replace_one: the run's whole document, with what was read of the prior one.
SaveClaim(w) ==
  /\ worker[w].pc = "saving"
  /\ \E status \in SavedStatuses : row' = SavedRow(worker[w].prior, status)
  /\ run' = "over"
  /\ worker' = [worker EXCEPT ![w] = Idle]
  /\ UNCHANGED <<audit, events, bell, req, clock, faults>>

-----------------------------------------------------------------------------
(* sweep_escalations.                                                      *)

\* escalation_due, of a listed row; the other two of its tests are in
\* ListCandidates.
EscalationDue(c) == c.createdAt + Threshold <= clock

\* The worker lists the reviewable claims; a row that shows an escalation when
\* it is listed is passed over.
ListCandidates(w) ==
  /\ worker[w] = Idle
  /\ row.status \in Reviewable
  /\ row.escalatedAt = NoOne
  /\ worker' = [worker EXCEPT ![w] =
       [pc |-> "sweeping",
        listed |-> [assignee |-> row.assignee, createdAt |-> row.createdAt]]]
  /\ UNCHANGED <<row, audit, events, bell, req, run, clock, faults>>

EscalateUnguarded(w) ==
  /\ worker[w].pc = "sweeping"
  /\ IF EscalationDue(worker[w].listed)
     THEN /\ row' = [row EXCEPT !.escalatedAt = clock]
          /\ worker' = [worker EXCEPT ![w].pc = "notifying"]
     ELSE /\ worker' = [worker EXCEPT ![w] = Idle]
          /\ UNCHANGED row
  /\ UNCHANGED <<audit, events, bell, req, run, clock, faults>>

\* update_one filtered on an absent escalated_at; only the winner notifies.
Escalate(w) ==
  /\ worker[w].pc = "sweeping"
  /\ IF EscalationDue(worker[w].listed) /\ row.escalatedAt = NoOne
     THEN /\ row' = [row EXCEPT !.escalatedAt = clock]
          /\ worker' = [worker EXCEPT ![w].pc = "notifying"]
     ELSE /\ worker' = [worker EXCEPT ![w] = Idle]
          /\ UNCHANGED row
  /\ UNCHANGED <<audit, events, bell, req, run, clock, faults>>

\* The bell of the assignee that was listed; the unique index keeps the first.
NotifyAssignee(w) ==
  /\ worker[w].pc = "notifying"
  /\ bell' = IF bell = NoOne THEN worker[w].listed.assignee ELSE bell
  /\ worker' = [worker EXCEPT ![w] = Idle]
  /\ UNCHANGED <<row, audit, events, req, run, clock, faults>>

Tick ==
  /\ clock < MaxClock
  /\ clock' = clock + 1
  /\ UNCHANGED <<row, audit, events, bell, req, run, worker, faults>>

RequestStep(r) ==
  ReadRow(r) \/ AppendAudit(r) \/ WriteRow(r) \/ EmitEvent(r)
WorkerStep(w) ==
  \/ TakeRun(w) \/ ReadPrior(w) \/ SaveClaim(w)
  \/ ListCandidates(w) \/ Escalate(w) \/ NotifyAssignee(w)

Next ==
  \/ \E r \in Requests : RequestStep(r) \/ RequestDies(r)
  \/ \E w \in Workers : WorkerStep(w)
  \/ Tick

Spec == Init /\ [][Next]_vars

\* A request that has started runs to its end unless the process dies; a
\* worker keeps working.
FairSpec ==
  /\ Spec
  /\ \A r \in Requests : WF_vars(AppendAudit(r) \/ WriteRow(r) \/ EmitEvent(r))
  /\ \A w \in Workers : WF_vars(WorkerStep(w))

-----------------------------------------------------------------------------
(* Properties.                                                             *)

Replaced == \E w \in Workers : worker[w].pc = "saving" /\ worker'[w] = Idle

\* A status an adjuster gave always shows with the block that explains it,
\* and a block never shows with a status the pipeline gave, however requests
\* and the run's save interleave: no surface mixes two decisions.
BlocksExplainStatus ==
  /\ row.status = "overridden" => row.override # NoOne
  /\ row.status = "reopened" => row.reopen # NoOne
  /\ row.override # NoOne \/ row.reopen # NoOne =>
       row.status \in {"overridden", "reopened"}

\* What the row says an adjuster decided, assigned or flagged has its entry
\* in the audit log, even if the request died half way (a settlement is the
\* exception: see SettlementAudited).
AuditBacksRow ==
  /\ {row.override, row.reopen, row.assignedBy} \subseteq audit \cup {NoOne}
  /\ row.flags \subseteq audit

\* However many workers sweep, the first stamp of an escalation stays: only
\* the run's save may ever change it (escalation.py: set exactly once).
EscalationSetOnce ==
  [][row.escalatedAt # NoOne /\ row'.escalatedAt # row.escalatedAt
       => Replaced]_vars

\* A settlement on the row gets its audit entry and its event, unless the
\* request died in between.
SettlementAudited ==
  \A r \in Requests :
    row.settlement = r ~> r \in audit \cap events \/ req[r].pc = "dead"

\* user-guide.md: a claim that is already decided cannot be overridden,
\* re-open it first.  So an override on the row leaves it by a reopen only.
OverrideStands ==
  [][row.override # NoOne /\ row'.override # row.override
       => row.status = "reopened"]_vars

=============================================================================
