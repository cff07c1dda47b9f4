---------------------------- MODULE ClaimPipeline ----------------------------
(***************************************************************************)
(* The durable claim pipeline: backend/pipeline.py, backend/worker.py and  *)
(* the part of submit_claim (backend/server.py) that feeds them.           *)
(*                                                                         *)
(* API callers insert run documents into claim_runs; any number of worker  *)
(* processes poll it, claim one run with an atomic find_one_and_update,    *)
(* execute the agent stages that have no checkpoint yet, pass the result   *)
(* through the straight-through gate, save the claim row, announce the     *)
(* outcome and finalize the run.  Every database call is a step of its     *)
(* own, so callers and workers interleave between any two of them, and a   *)
(* worker may be told to stop, or die, at each.                            *)
(*                                                                         *)
(* The agents are abstracted to what the runner looks at: a stage raises,  *)
(* or yields "ok" or "bad", where "bad" means an invalid intake or an      *)
(* unknown policy (HaltStages) or a failing leg of the gate (GateStages).  *)
(* Only the pipeline's own writes of the claim row are here.               *)
(***************************************************************************)
EXTENDS Naturals, Sequences

CONSTANTS
  Claims,       \* claim ids
  Workers,      \* worker processes
  Callers,      \* API requests that call enqueue_claim_run
  NumStages,    \* PIPELINE_STAGES, numbered in their order
  HaltStages,   \* stages after which a "bad" output stops the run
  GateStages,   \* stages whose output feeds a leg of the gate
  MaxAttempts,  \* bound: attempts per claim
  FaultKinds,   \* what the environment may do: "stop", "crash", "lose"
  MaxFaults     \* bound: how often it does

ASSUME StagesAssumption ==
  /\ NumStages \in Nat
  /\ HaltStages \subseteq 1..NumStages
  /\ GateStages \subseteq 1..NumStages
ASSUME BoundsAssumption == MaxAttempts \in Nat /\ MaxFaults \in Nat

VARIABLES
  status,     \* claim_runs.status, "absent" where there is no document
  stages,     \* claim_runs.stages: the checkpointed output of each stage
  created,    \* run documents in the order of their created_at
  row,        \* claims.status, "absent" where there is no row
  completed,  \* agent_complete events in the log: <<run, stage>>
  finalized,  \* run_finalized events in the log: <<run, outcome>>
  pc,         \* where each worker is
  job,        \* the run a worker executes
  at,         \* the stage it is in
  cps,        \* its copy of the run's checkpoints (run_doc["stages"])
  outcome,    \* its final_status
  stopping,   \* its _stop event
  caller,     \* where each API caller is, what it read, for which claim
  faults      \* faults so far

queueVars == <<status, stages, created>>
eventVars == <<completed, finalized>>
localVars == <<job, at, cps, outcome>>
vars == <<queueVars, row, eventVars, pc, localVars, stopping, caller, faults>>

Stages == 1..NumStages
Attempts == 1..MaxAttempts
Run == Claims \X Attempts
NoRun == <<>>
InFlight == {"queued", "running"}
Terminal == {"auto_approved", "escalated", "failed", "halted"}
Output == {"none", "ok", "bad"}
NoCheckpoints == [s \in Stages |-> "none"]

ClaimStatusUnmapped == [o \in Terminal |-> o]
\* _CLAIM_STATUS_BY_RUN
ClaimStatusByRun ==
  [o \in Terminal |-> IF o = "halted" THEN "pending" ELSE o]

\* The attempts of claim c that have a document, and the highest of them
\* (find_one sorted on attempt, descending); 0 when there is none.
Recorded(c) == {a \in Attempts : status[<<c, a>>] # "absent"}
LatestAttempt(c) ==
  CHOOSE n \in {0} \cup Recorded(c) : \A m \in Recorded(c) : m <= n

\* The run claim_next_run returns: the oldest queued one.
NextQueued(r) ==
  \E i \in DOMAIN created :
    /\ created[i] = r
    /\ status[r] = "queued"
    /\ \A j \in 1..(i - 1) : status[created[j]] # "queued"

Unfinished(cp) == {s \in Stages : cp[s] = "none"}

GatePassesOnAnyLeg(cp) == \E s \in GateStages : cp[s] = "ok"
\* evaluate_stp_gate: every leg must hold.
GatePasses(cp) == \A s \in GateStages : cp[s] = "ok"

\* What stage s can return.
StageOutputs(s) ==
  IF s \in HaltStages \cup GateStages THEN {"ok", "bad"} ELSE {"ok"}

Fault(kind) ==
  /\ kind \in FaultKinds
  /\ faults < MaxFaults
  /\ faults' = faults + 1

\* _emit: the event is appended, or its exception is logged and swallowed.
Emit(log, event) ==
  \/ log' = log \cup {event} /\ UNCHANGED faults
  \/ UNCHANGED log /\ Fault("lose")

Idle == [pc |-> "idle"]

TypeOK ==
  /\ status \in [Run -> {"absent"} \cup InFlight \cup Terminal]
  /\ stages \in [Run -> [Stages -> Output]]
  /\ created \in Seq(Run)
  /\ row \in [Claims -> {"absent", "pending", "auto_approved",
                         "escalated", "failed"}]
  /\ completed \subseteq Run \X Stages
  /\ finalized \subseteq Run \X Terminal
  /\ pc \in [Workers -> {"loop", "poll", "between", "agent", "checkpoint",
                         "announce", "save", "emit", "finalize", "stopped"}]
  /\ job \in [Workers -> Run \cup {NoRun}]
  /\ at \in [Workers -> {0} \cup Stages]
  /\ cps \in [Workers -> [Stages -> Output]]
  /\ outcome \in [Workers -> {"none"} \cup Terminal]
  /\ stopping \in [Workers -> BOOLEAN]
  /\ caller \in [Callers ->
       {Idle} \cup [pc : {"read"}, claim : Claims]
              \cup [pc : {"insert"}, claim : Claims, attempt : Attempts,
                    seed : [Stages -> Output]]]
  /\ faults \in 0..MaxFaults

Init ==
  /\ status = [r \in Run |-> "absent"]
  /\ stages = [r \in Run |-> NoCheckpoints]
  /\ created = <<>>
  /\ row = [c \in Claims |-> "absent"]
  /\ completed = {}
  /\ finalized = {}
  /\ pc = [w \in Workers |-> "loop"]
  /\ job = [w \in Workers |-> NoRun]
  /\ at = [w \in Workers |-> 0]
  /\ cps = [w \in Workers |-> NoCheckpoints]
  /\ outcome = [w \in Workers |-> "none"]
  /\ stopping = [w \in Workers |-> FALSE]
  /\ caller = [k \in Callers |-> Idle]
  /\ faults = 0

-----------------------------------------------------------------------------
(* API callers: submit_claim and enqueue_claim_run.                        *)

callerOnly == <<row, eventVars, pc, localVars, stopping, faults>>

\* submit_claim upserts the claim row before it enqueues the first run.
SubmitClaim(k, c) ==
  /\ caller[k] = Idle
  /\ row[c] = "absent"
  /\ row' = [row EXCEPT ![c] = "pending"]
  /\ caller' = [caller EXCEPT ![k] = [pc |-> "read", claim |-> c]]
  /\ UNCHANGED <<queueVars, eventVars, pc, localVars, stopping, faults>>

\* enqueue_claim_run is called again for a claim that has a row.
ResubmitClaim(k, c) ==
  /\ caller[k] = Idle
  /\ row[c] # "absent"
  /\ LatestAttempt(c) < MaxAttempts
  /\ caller' = [caller EXCEPT ![k] = [pc |-> "read", claim |-> c]]
  /\ UNCHANGED <<queueVars, callerOnly>>

\* _completed_checkpoints, and a slip that seeds nothing.
ForgottenCheckpoints(r) == NoCheckpoints
CompletedCheckpoints(r) == stages[r]

ReadLatestUnguarded(k) ==
  /\ caller[k].pc = "read"
  /\ LET c == caller[k].claim
         latest == LatestAttempt(c)
     IN  caller' = [caller EXCEPT ![k] =
           IF latest = MaxAttempts THEN Idle
           ELSE [pc |-> "insert", claim |-> c, attempt |-> latest + 1,
                 seed |-> IF latest = 0 THEN NoCheckpoints
                          ELSE CompletedCheckpoints(<<c, latest>>)]]
  /\ UNCHANGED <<queueVars, callerOnly>>

\* Reads the latest attempt; a run in flight is returned unchanged, else the
\* next attempt is prepared from its completed checkpoints.
ReadLatest(k) ==
  /\ caller[k].pc = "read"
  /\ LET c == caller[k].claim
         latest == LatestAttempt(c)
     IN  caller' = [caller EXCEPT ![k] =
           IF \/ latest > 0 /\ status[<<c, latest>>] \in InFlight
              \/ latest = MaxAttempts
           THEN Idle
           ELSE [pc |-> "insert", claim |-> c, attempt |-> latest + 1,
                 seed |-> IF latest = 0 THEN NoCheckpoints
                          ELSE CompletedCheckpoints(<<c, latest>>)]]
  /\ UNCHANGED <<queueVars, callerOnly>>

\* Inserts the document; the unique index on (claim_id, attempt) turns a
\* second insert of the same attempt into an error.
InsertRun(k) ==
  /\ caller[k].pc = "insert"
  /\ LET r == <<caller[k].claim, caller[k].attempt>>
     IN  IF status[r] = "absent"
         THEN /\ status' = [status EXCEPT ![r] = "queued"]
              /\ stages' = [stages EXCEPT ![r] = caller[k].seed]
              /\ created' = Append(created, r)
         ELSE UNCHANGED queueVars
  /\ caller' = [caller EXCEPT ![k] = Idle]
  /\ UNCHANGED callerOnly

-----------------------------------------------------------------------------
(* Workers: run_forever, claim_next_run, PipelineRunner.                   *)

notWorker == <<created, stopping, caller>>

\* The loop's test of the stop flag; the escalation sweep is not modelled here.
LoopTest(w) ==
  /\ pc[w] = "loop"
  /\ pc' = [pc EXCEPT ![w] = IF stopping[w] THEN "stopped" ELSE "poll"]
  /\ UNCHANGED <<queueVars, row, eventVars, localVars, stopping, caller, faults>>

\* claim_next_run found a run, and the runner is built from its document.
ClaimNextRun(w) ==
  /\ pc[w] = "poll"
  /\ \E r \in Run :
       /\ NextQueued(r)
       /\ status' = [status EXCEPT ![r] = "running"]
       /\ job' = [job EXCEPT ![w] = r]
       /\ cps' = [cps EXCEPT ![w] = stages[r]]
  /\ pc' = [pc EXCEPT ![w] = "between"]
  /\ UNCHANGED <<stages, row, eventVars, at, outcome, notWorker, faults>>

QueueEmpty(w) ==
  /\ pc[w] = "poll"
  /\ \A r \in Run : status[r] # "queued"
  /\ pc' = [pc EXCEPT ![w] = "loop"]
  /\ UNCHANGED <<queueVars, row, eventVars, localVars, stopping, caller, faults>>

ForgetRun(w, next) ==
  /\ pc' = [pc EXCEPT ![w] = next]
  /\ job' = [job EXCEPT ![w] = NoRun]
  /\ at' = [at EXCEPT ![w] = 0]
  /\ cps' = [cps EXCEPT ![w] = NoCheckpoints]
  /\ outcome' = [outcome EXCEPT ![w] = "none"]

StopWithoutRequeue(w) ==
  /\ pc[w] = "between"
  /\ Unfinished(cps[w]) # {}
  /\ stopping[w]
  /\ ForgetRun(w, "loop")
  /\ UNCHANGED <<status, stages, row, eventVars, notWorker, faults>>

\* should_stop between stages: requeue_run, guarded on "running".
StopBetweenStages(w) ==
  /\ pc[w] = "between"
  /\ Unfinished(cps[w]) # {}
  /\ stopping[w]
  /\ status' = [status EXCEPT ![job[w]] = IF @ = "running" THEN "queued" ELSE @]
  /\ ForgetRun(w, "loop")
  /\ UNCHANGED <<stages, row, eventVars, notWorker, faults>>

\* The first stage without a checkpoint begins (agent_start).
StartStage(w) ==
  /\ pc[w] = "between"
  /\ ~stopping[w]
  /\ \E s \in Unfinished(cps[w]) :
       /\ \A t \in Unfinished(cps[w]) : s <= t
       /\ at' = [at EXCEPT ![w] = s]
  /\ pc' = [pc EXCEPT ![w] = "agent"]
  /\ UNCHANGED <<queueVars, row, eventVars, job, cps, outcome, stopping,
                 caller, faults>>

AgentReturnsUnpersisted(w) ==
  /\ pc[w] = "agent"
  /\ \E out \in StageOutputs(at[w]) : cps' = [cps EXCEPT ![w][at[w]] = out]
  /\ pc' = [pc EXCEPT ![w] = "announce"]
  /\ UNCHANGED <<queueVars, row, eventVars, job, at, outcome, stopping,
                 caller, faults>>

\* The agent's output is entered in the runner's own checkpoints.
AgentReturns(w) ==
  /\ pc[w] = "agent"
  /\ \E out \in StageOutputs(at[w]) : cps' = [cps EXCEPT ![w][at[w]] = out]
  /\ pc' = [pc EXCEPT ![w] = "checkpoint"]
  /\ UNCHANGED <<queueVars, row, eventVars, job, at, outcome, stopping,
                 caller, faults>>

\* The agent raised: agent_error, claim_failed, then the row is saved.
AgentRaises(w) ==
  /\ pc[w] = "agent"
  /\ outcome' = [outcome EXCEPT ![w] = "failed"]
  /\ pc' = [pc EXCEPT ![w] = "save"]
  /\ UNCHANGED <<queueVars, row, eventVars, job, at, cps, stopping, caller,
                 faults>>

\* _persist_checkpoint sets one field of the run document.
PersistCheckpoint(w) ==
  /\ pc[w] = "checkpoint"
  /\ stages' = [stages EXCEPT ![job[w]][at[w]] = cps[w][at[w]]]
  /\ pc' = [pc EXCEPT ![w] = "announce"]
  /\ UNCHANGED <<status, row, eventVars, localVars, notWorker, faults>>

\* agent_complete is emitted; then the halt conditions of Intake and Policy.
AnnounceStage(w) ==
  /\ pc[w] = "announce"
  /\ Emit(completed, <<job[w], at[w]>>)
  /\ LET halts == at[w] \in HaltStages /\ cps[w][at[w]] = "bad"
     IN  /\ pc' = [pc EXCEPT ![w] = IF halts THEN "save" ELSE "between"]
         /\ outcome' = [outcome EXCEPT ![w] = IF halts THEN "halted" ELSE @]
  /\ UNCHANGED <<queueVars, row, finalized, job, at, cps, stopping, caller>>

\* Every stage is checkpointed: _apply_stp_gate picks the outcome.
ApplyGate(w) ==
  /\ pc[w] = "between"
  /\ Unfinished(cps[w]) = {}
  /\ outcome' = [outcome EXCEPT ![w] =
       IF GatePasses(cps[w]) THEN "auto_approved" ELSE "escalated"]
  /\ pc' = [pc EXCEPT ![w] = "save"]
  /\ UNCHANGED <<queueVars, row, eventVars, job, at, cps, stopping, caller,
                 faults>>

SaveClaimOnce(w) ==
  /\ pc[w] = "save"
  /\ row' = [row EXCEPT ![job[w][1]] =
       IF @ \in {"absent", "pending"} THEN ClaimStatusByRun[outcome[w]] ELSE @]
  /\ pc' = [pc EXCEPT ![w] = "emit"]
  /\ UNCHANGED <<queueVars, eventVars, localVars, stopping, caller, faults>>

\* _save_claim replaces whatever row a prior attempt saved.
SaveClaim(w) ==
  /\ pc[w] = "save"
  /\ row' = [row EXCEPT ![job[w][1]] = ClaimStatusByRun[outcome[w]]]
  /\ pc' = [pc EXCEPT ![w] = "emit"]
  /\ UNCHANGED <<queueVars, eventVars, localVars, stopping, caller, faults>>

EmitFinalized(w) ==
  /\ pc[w] = "emit"
  /\ Emit(finalized, <<job[w], outcome[w]>>)
  /\ pc' = [pc EXCEPT ![w] = "finalize"]
  /\ UNCHANGED <<queueVars, row, completed, localVars, stopping, caller>>

\* _finalize_run, unconditional on the run's status.
FinalizeRun(w) ==
  /\ pc[w] = "finalize"
  /\ status' = [status EXCEPT ![job[w]] = outcome[w]]
  /\ ForgetRun(w, "loop")
  /\ UNCHANGED <<stages, row, eventVars, notWorker, faults>>

-----------------------------------------------------------------------------
(* Signals, crashes and restarts of a worker process.                      *)

RequestStop(w) ==
  /\ pc[w] # "stopped"
  /\ ~stopping[w]
  /\ Fault("stop")
  /\ stopping' = [stopping EXCEPT ![w] = TRUE]
  /\ UNCHANGED <<queueVars, row, eventVars, pc, localVars, caller>>

\* The process dies (or an unhandled database error ends it): whatever it
\* had not written is gone, and its run stays as it was.
Crash(w) ==
  /\ pc[w] # "stopped"
  /\ Fault("crash")
  /\ ForgetRun(w, "stopped")
  /\ UNCHANGED <<queueVars, row, eventVars, stopping, caller>>

\* The API process dies, or a database call of the request fails, between two
\* of its writes: the claim row may stay without a run.
AbandonRequest(k) ==
  /\ caller[k] # Idle
  /\ Fault("crash")
  /\ caller' = [caller EXCEPT ![k] = Idle]
  /\ UNCHANGED <<queueVars, row, eventVars, pc, localVars, stopping>>

\* The container is started again (restart: unless-stopped).
StartWorker(w) ==
  /\ pc[w] = "stopped"
  /\ pc' = [pc EXCEPT ![w] = "loop"]
  /\ stopping' = [stopping EXCEPT ![w] = FALSE]
  /\ UNCHANGED <<queueVars, row, eventVars, localVars, caller, faults>>

CallerStep(k) ==
  \/ \E c \in Claims : SubmitClaim(k, c) \/ ResubmitClaim(k, c)
  \/ ReadLatest(k) \/ InsertRun(k)

WorkerStep(w) ==
  \/ LoopTest(w) \/ ClaimNextRun(w) \/ QueueEmpty(w)
  \/ StopBetweenStages(w) \/ StartStage(w) \/ AgentReturns(w) \/ AgentRaises(w)
  \/ PersistCheckpoint(w) \/ AnnounceStage(w) \/ ApplyGate(w)
  \/ SaveClaim(w) \/ EmitFinalized(w) \/ FinalizeRun(w)

Next ==
  \/ \E k \in Callers : CallerStep(k) \/ AbandonRequest(k)
  \/ \E w \in Workers :
       WorkerStep(w) \/ RequestStop(w) \/ Crash(w) \/ StartWorker(w)

Spec == Init /\ [][Next]_vars

\* A worker's event loop keeps turning (every agent call ends: the model
\* client has a timeout and a bounded number of retries), and a container
\* that went down comes back.
FairSpec ==
  /\ Spec
  /\ \A w \in Workers : WF_vars(WorkerStep(w)) /\ WF_vars(StartWorker(w))

-----------------------------------------------------------------------------
(* Properties.                                                             *)

Busy(w) == pc[w] \notin {"loop", "poll", "stopped"}

\* A run that a worker executes is marked running, and no two workers are
\* ever in runs of the same claim, whichever attempts they are: the queue's
\* atomic claim and enqueue's in-flight test together give each claim one
\* executor at a time (pipeline.py: "a re-submission can never spawn a second
\* execution of the same claim").
ExclusiveExecution ==
  \A w \in Workers : Busy(w) =>
    /\ status[job[w]] = "running"
    /\ \A v \in Workers \ {w} : Busy(v) => job[v][1] # job[w][1]

\* A stage that any attempt of the claim has checkpointed is never executed
\* again, across requeues, restarts and later attempts ("resumes instead of
\* re-executing").
NoReexecution ==
  \A w \in Workers : pc[w] = "agent" =>
    \A a \in Attempts : stages[<<job[w][1], a>>][at[w]] = "none"

\* The event log claims a stage is done only once the checkpoint that proves
\* it exists, crash or no crash (comment in _execute_stage).
AnnouncedIsCheckpointed ==
  \A e \in completed : stages[e[1]][e[2]] # "none"

\* A claim is auto-approved only on the strength of a complete set of
\* checkpoints that passes every leg of the gate, whatever attempts and
\* workers produced them.
AutoApprovalEarned ==
  \A r \in Run : status[r] = "auto_approved" =>
    \A s \in Stages :
      stages[r][s] # "none" /\ (s \in GateStages => stages[r][s] = "ok")

(***************************************************************************)
(* The inductive invariant behind these properties.                        *)
(***************************************************************************)

\* A later attempt exists only once every earlier one is over, and carries
\* every checkpoint the earlier one recorded; a run without a document has none.
AttemptsInv ==
  \A c \in Claims : \A a, b \in Attempts :
    /\ status[<<c, b>>] = "absent" => stages[<<c, b>>] = NoCheckpoints
    /\ a < b /\ status[<<c, b>>] # "absent" =>
         /\ status[<<c, a>>] \in Terminal
         /\ \A s \in Stages : stages[<<c, a>>][s] # "none" =>
              stages[<<c, b>>][s] = stages[<<c, a>>][s]

\* What an inserting caller read is still so: the attempts before the one it
\* inserts are over, and its seed is their checkpoints.
CallersInv ==
  \A k \in Callers : caller[k].pc = "insert" =>
    \A a \in Attempts : a < caller[k].attempt =>
      /\ status[<<caller[k].claim, a>>] \in Terminal
      /\ \A s \in Stages : stages[<<caller[k].claim, a>>][s] # "none" =>
           caller[k].seed[s] = stages[<<caller[k].claim, a>>][s]

\* A busy worker's run is running, is its alone, and its local checkpoints are
\* those of the document, but for an output it has yet to persist.
WorkersInv ==
  \A w \in Workers : Busy(w) =>
    /\ status[job[w]] = "running"
    /\ \A v \in Workers : v # w /\ Busy(v) => job[v] # job[w]
    /\ \A s \in Stages : ~(pc[w] = "checkpoint" /\ s = at[w]) =>
         cps[w][s] = stages[job[w]][s]
    /\ pc[w] \in {"agent", "checkpoint"} => stages[job[w]][at[w]] = "none"
    /\ pc[w] \in {"checkpoint", "announce"} => cps[w][at[w]] # "none"

PipelineInv == AttemptsInv /\ CallersInv /\ WorkersInv

\* The life of a claim's runs and row is the one ClaimRunLifecycle promises.
Lifecycle == INSTANCE ClaimRunLifecycle WITH
  attempts <- [c \in Claims |-> LatestAttempt(c)],
  phase <- [c \in Claims |->
              IF LatestAttempt(c) = 0 THEN "none"
              ELSE status[<<c, LatestAttempt(c)>>]],
  published <- row
ImplementsLifecycle == Lifecycle!LifecycleSpec

\* Every run that is queued is eventually over (operator-guide.md: not left
\* "running" forever; a crashed worker is a paused claim, not a lost one).
EveryRunEnds ==
  \A r \in Run : status[r] = "queued" ~> status[r] \in Terminal

=============================================================================
