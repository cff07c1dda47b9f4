# ClaimOS: models and proofs

ClaimOS takes in insurance claims, adjudicates each with a pipeline of language-model and rule stages run by a durable worker, and gives adjusters a workbench and customers a portal. Everything shared lives in MongoDB; there are no transactions and no locks. API processes and workers interleave between any two database calls, and what they rely on is the atomicity of single calls: unique inserts, conditional updates, `find_one_and_update`. Nearly every correctness argument of the system is about what may happen between two such calls, and that is what these models are about.

`PROJECT.json` maps each definition to the lines it stands for, lists the runs, the mutants each property must catch, the findings, the hazards and the theorems. Paths below are under the repository root.

## 1. Inventory

### Parts, state and operations

| Part | State it keeps | Operations | Model |
|---|---|---|---|
| Durable pipeline and worker: `backend/pipeline.py`, `backend/worker.py`, submission in `backend/server.py` | `claim_runs` (status, attempt, checkpoints), the claim row's status | enqueue, claim next run, execute or skip a stage, checkpoint, announce, halt, gate, save the row, finalize, requeue on stop | `ClaimPipeline`, abstract `ClaimRunLifecycle` |
| Event log and live stream: `backend/app/events.py`, `app/counters.py`, SSE endpoint, `usePipelineEvents.js`, `NewClaimPage.js` | `claim_events`, `counters`, the server tail's cursor, the hook's resume cursor, the board | number, insert, replay, tail, read a chunk, reconnect, back off, open another claim | `EventStream` |
| Claim row and its writers: `app/workbench_routes.py`, `app/claims_routes.py`, settlement in `server.py`, `app/escalation.py`, `_save_claim` | one `claims` document, `audit_log`, events, the escalation bell | override, reopen, settle, reassign, bulk reassign, flag, save a run, sweep | `ClaimRow` |
| Document requests and portal uploads: `app/document_requests.py`, `app/portal_uploads.py` | `document_requests`, `claim_documents`, stored files, `audit_log`, bells | create, edit, waive, upload | `DocumentRequests` |
| Adjudication: `backend/agents.py`, `app/rating.py`, `app/fraud.py`, `app/stp.py` | the run's stage outputs; reads policies and other claims' rows | Intake, Policy, Documents, Fraud, Eligibility, Decision, gate, save, retry | `Adjudication` |
| Notifications: `app/notifications/fanout.py`, `app/notify_routes.py`, `NotificationBell.js` | `notifications` (unique on claim, milestone, request) | fan out a milestone, mark read | `Notifications` |
| Claim messages: `app/claim_messages.py`, `app/messages_routes.py` | `claim_messages`, the shared new-message bell | post, list and stamp, ring | `Notifications` |
| Case notes: `app/notes.py`, `app/notes_routes.py` | `claim_notes`, `audit_log`, mention bells | post a note with mentions | `Notifications` |
| Sessions: `app/auth_routes.py`, `app/auth_store.py`, `app/deps.py`, `frontend/src/lib/api.js`, `lib/auth.jsx` | `refresh_tokens` families, the browser's two cookies, each page's access token and refresh under way | log in, refresh, log out, answer a request | `Sessions` |
| Language-model adapter: `app/llm/adapter.py`, `app/llm/fixture.py`, the callers in `agents.py` | models that refuse a temperature, the fixture's counters, usage rows | ask, retry, repeat a refusal, write the letter again, fall back to a template | `AgentCalls`, on top of `ClaimPipeline` |
| Portal: `app/status_routes.py`, `app/status_portal.py`, `app/portal_projection.py`, `StatusPortal.js` | the access-code hash on the row; the page's last answer and credentials | look up, poll, recover a code, project | `Portal` |
| FNOL drafts and wizard: `app/fnol_drafts.py`, `features/claims/wizard/` | `fnol_drafts`, local storage | autosave, submit, discard | planned |
| Queue, saved views, assignment: `workbench_routes.py`, `app/assignment.py` | `workbench_views`; reads of rows | list, rank, pick an assignee | not modelled |
| Letter templates, analytics, evidence pack, PDF, seeding, storage, configuration, rate limits, logging, the rest of the browser application | | single inserts, reads, text and layout | not modelled |

### How they interact

1. `submit_claim` inserts the claim row, emits `claim_submitted` and inserts a run document. A worker polls `claim_runs`, and claims the oldest queued run with one atomic call.
2. The runner executes the stages of `agents.py` that have no checkpoint, persists each output on the run and then announces it in the event log. After the last stage the gate decides; the runner replaces the claim row, announces `run_finalized` and finalizes the run.
3. Every `emit_event` feeds two readers: the SSE tail, which browsers follow with a resume cursor, and the milestone fan-out.
4. Adjusters' requests read the claim row, test its status, then write the audit log, the row and the event log in three further calls, while runs and SLA sweeps write the same row.
5. Customers answer document requests through the portal; an upload stores a file, inserts its row, conditionally flips the request, then audits, announces and rings the adjuster.
6. A page of the staff application keeps its access token in memory and refreshes it with a cookie all tabs of the browser share. An agent asks the model through the adapter of its worker's process.
7. The customer's page looks the claim up with an access code: one read of the row, one of the events. The code is made at submission, carried in the run document, put back by the run's save, and rotated by a recovery.
8. A message is stored, announced and mailed by the route that takes it, and a customer's also upserts the one bell all adjusters share; a note writes the audit log, itself and a bell per mention.

### What is hard

Two workers and several callers on one queue; crashes, stop signals and lost events at any point of a run, and resumption from checkpoints; attempts of one claim that inherit each other's outputs; event numbers taken and used in separate calls; streams that drop, resume and end; whole-document replaces racing field updates; tests of a value read one call earlier; multi-call requests that die half way; scores at their caps and thresholds; two claims about one incident running side by side; tabs that share a cookie that may be used once; retries inside retries; answers put together from two reads, heard in any order. `PROJECT.json` lists each under "hazards" at the line where it bites, with the properties that would catch it going wrong, or the reason why none does yet.

### What makes each part correct

- Pipeline: a claim has one executor; no checkpointed stage runs again; what is announced is stored; a final run shows on the row; a claim is paid automatically only through a complete and passing set of checkpoints; every queued run ends.
- Stream: numbers are unique; the board gets each event once and in order; nothing is skipped but what another emitter overtook, a read tore or the cursor of the previous claim hides; the hook stops quietly only after a terminal event; events arrive.
- Claim row: a human's status shows with its reason and no other; what the row says an adjuster did is in the audit log; the claim keeps its owner, flags and escalation stamp; an override stands until a reopen.
- Document requests: `received` means a stored document; one receipt per request; waived stays waived; closing is audited.
- Adjudication: no answer of a model gets a claim paid that the rules would not pay; a worse claim is never treated better; a claim read as the same incident as another one's row is flagged, however their runs overlap.
- Notifications: a milestone is mailed once; a message counts as read only once it was shown, and a customer's rings the adjusters.
- Sessions: a refresh is never taken for theft unless tabs race or an answer is lost; browser and server agree on the session whenever nothing is under way; no page hangs; a sign-out ends the session.
- Calls to the model: a stage costs a bounded number of requests, whatever the model does; a fault that occurs once costs nothing; a template letter never pays; every run ends although only single requests are known to.
- Portal: the two halves of an answer agree; the code told last opens the claim; the decision reaches the page.

## 2. Plan

Order: what moves money and status first, then what people see of it.

1. `ClaimRunLifecycle`, `ClaimPipeline`, `ClaimPipelineProofs` (done).
2. `EventStream`, `EventStreamProofs` (done).
3. `ClaimRow`, `ClaimRowProofs` (done for one claim).
4. `DocumentRequests`, `DocumentRequestsProofs` (done).
5. `Adjudication`, `AdjudicationProofs` (done; the similarity call and the letter are calls of `AgentCalls`).
6. `Notifications`, `NotificationsProofs` (done).
7. `Sessions`, `SessionsProofs`: refresh rotation with two tabs and the single flight of `api.js` (done).
8. `AgentCalls`: the adapter's loops composed with the pipeline (done).
9. `Portal`, `PortalProofs`: lookups and access-code recovery against the run (done but for the decision letter).
10. `Drafts`: debounced autosave against submit, discard and a second tab. Pure modules: the board reducer, checked against a reference definition.
11. More to state: two concurrent settlements are both accepted although docs/user-guide.md:68 says a claim records at most one; a note with two mentions fails after it was saved (notes_routes.py:122); the shared bell may show the older of two messages (claim_messages.py:136-137 says the latest).

Every invariant and action property of a passing run is stated by a theorem. Left to prove: theorems about what items 10 and 11 add.

## 3. The modules

### ClaimPipeline, ClaimRunLifecycle

State: `claim_runs` as `status`, `stages` (the checkpoints) and `created` (the order `claim_next_run` sorts by); the claim row's status; the events that matter as sets; each worker's program counter and its local copy of the run; each API caller between its read and its insert. One action per database call: `ReadLatest` and `InsertRun` are the two halves of `enqueue_claim_run`, so two callers can both read before either inserts and one loses on the unique index. A worker polls, claims, enters a stage, gets the agent's result, checkpoints, announces, halts, saves, announces the end and finalizes; `StopBetweenStages` is the requeue. Faults: `stop` (a signal at any moment, obeyed where the code looks), `crash` (between any two calls, with the process restarted later), `lose` (`_emit` swallows a failed insert).

A stage returns "ok" or "bad" or raises. "bad" is an invalid intake or an unknown policy for the stages that halt, and a failing leg for those the gate reads. The gate's severity leg reads intake data; it is folded into the Decision stage's output, which leaves the gate the same outcomes. Enqueuing a finished claim again is the contract `enqueue_claim_run` documents and its tests exercise; no route calls it today.

`ClaimRunLifecycle` is the promise: one run in flight per claim, finished runs never come back, the row changes only while a run executes, and a run is over only when the row shows its outcome. `ClaimPipeline` implements it under the mapping at the end of the module, with the number and status of the latest attempt, and the row.

### EventStream

State: the counter and the log in insertion order; emitters that hold a number; the server tail (cursor, fetched batch, whether it ended); frames on the wire; and the hook (connection, failed attempts, resume cursor, part of a frame read). `TakeNumber` and `InsertEvent` are the two calls of `emit_event`. A frame is named by its number, and a read may end at any of its lines (`FaultKinds` has "split"; without it reads end between frames). Opening a second claim keeps the cursor, as the hook's ref does. Two history variables record what the code itself does not know it loses: `openedAt`, the cursor the page brought to its claim, and `torn`, the frames a read has ended inside of. The properties name these losses, as `NothingSkipped`, which names none, is refuted. Heartbeats and payloads are left out: neither moves a cursor.

### ClaimRow

State: the row's status, override, reopen and settlement blocks, flags, owner and escalation stamp; who has an audit entry and an event; requests and workers between their calls. A block is named by the request that wrote it. Settlement writes the row first and audits second, the other operations the other way round. `ReadPrior` and `SaveClaim` are the two calls of `_save_claim`. A sweep may come at any time and not only between runs, which only adds behaviours. All severities share one threshold. The row starts with an assignee, as under the default `AUTO_ASSIGN=round_robin` with an active adjuster. A request reads any operation from `Operations` and each is made once.

### DocumentRequests

State: each request's status, wording and document; stored files; document rows; audit entries, events, bells; and each call's program counter and what it believes from its last read. An upload and a PATCH may start from a stale screen. `FlipReceived` is the conditional update; `ApplyPatch` the unconditional one. A received request may still be reworded, as `update_document_request` allows (docs/api-reference.md:111 says otherwise). The blob of a refused upload stays behind, as in the code.

### Adjudication

State: per claim the row other claims can see, where its run is, and the outputs of its stages. An incident is what a fingerprint is made of, date and type after strip and lower, so two spellings of one incident are two values. `filed` is the spelling of the form, which is also that of the row a submission writes; that row has no fingerprint, so `HasTwin` looks at its raw fields, as prior_claim_fingerprints does. `Readings` says what the intake may make of a spelling: "Water Damage" becomes water_damage. It may also lose the date or the amount. A save writes the intake's spelling to the row. Policies are constants because no code writes them. Each stage is one action: the stages write only their own run, and only their reads of other claims' rows matter, which are single queries. The answers a model may give are existential choices: evidence, verdict, payout, confidence, or a refusal that leads to the template letter with confidence 0. The score, its caps, routing, payout clamp and fraud points are the code's arithmetic over integers; amounts and limits are small integers instead of floats. The similarity call changes no number and is left out, as are the letter's wording and the prompts.

### Notifications

State: milestones recorded and mails sent; the thread with its read stamps; the adjusters' bell; notes, their audit entries and mention bells; each request's next call. `FindRecord`, `InsertRecord` and `SendMail` are the calls of `record_and_send`; the unique index decides between two emissions that both found nothing. `MarkThreadRead` and `ListThread` are separate, so a message can land between them. A request may die before any call (`Dies`), and a send or the bell's upsert may fail alone. The event of a message and the mails to the other party are one best-effort step, because neither changes anything here. A screen is not kept: whenever it loaded the bell, marking it read has the same effect. Mentions of one note share a milestone without a request, so the index refuses the second, as in the code.

### Sessions

State: the refresh tokens in order of insertion, each with its family; the browser's cookies; per tab the provider's status, the access token and the refresh it shares; the calls to `/auth` on their way, at the server or answered; data requests. A token, its CSRF token and its cookie are one number. A refresh is three steps of the server: look up and test (`LookupRefresh`), revoke (`RevokeToken`), insert the successor (`InsertSession`), and a token found revoked leads to `RevokeFamily`. Cookies change when a page hears an answer (`JarAfter`); the answer to a page that is gone is discarded with its cookies, which counts as trouble, since the server has rotated and the browser has not. `JoinRefresh` is `refreshSession`: the requests of one page share one call, other tabs know nothing of it. `LoadPage` abandons what a page was doing. A call takes a free name among `MaxCalls`; the run has enough that one is always free, so the bound withholds none. The history variable `trouble` records a lost answer or an overlap the single flight is not made for; without it the first two properties would be false, and the module says so: a second tab refreshing with the same cookie revokes the family.

### AgentCalls

Extends `ClaimPipeline` with what a worker's agent does between `StartStage` and `AgentReturns` or `AgentRaises`: one action per outcome of a request (`Answer`, `LetterWithJargon`, `Refuse`, `RejectTemperature`, `FailTransiently`, `Fail`). Three loops are nested: the adapter's retries, the repeat of a refusal, the second letter. `dropped` and `hit` are the memory of a process, gone when it is replaced: the models found to take no temperature, and the fixture's counters. The mode is chosen once: the live adapter, with any outcome, or the fixture with one `FIXTURE_FAULT`. Back-off delays are steps of no length. A step of this module is one step of `ClaimPipeline` or none of its variables change, so what holds of the pipeline holds here.

### Portal

One claim. The parties that write what a lookup reads are reduced to what the page can tell: the filing call write by write, the run stage by stage with its events and the save, a settlement's event. The status values, the next steps and the ETA derived from them, and the card are left out; `ClaimRow` has the status. A lookup is a read of the row (`LookupClaim`, with the code as the test) and then of the events (`ReadEvents`); of the answer the page acts on the decision and on whether its four milestones are done. A poll uses the code of the last lookup that succeeded (`page.used`), a failed poll changes nothing, and a failed lookup clears the page. Two lookups may be open and be heard in either order. A customer recovers a code only for a claim whose number was told. The history variable `excused` records what the properties leave out.

## 4. Runs

All runs finish in well under five minutes with two workers.

| Run | Instance | Shows |
|---|---|---|
| `pipeline_safety` | 1 claim, 2 callers, 2 workers, 6 stages, 2 attempts, 2 faults of any kind; symmetry | four safety properties and the refinement of `ClaimRunLifecycle` |
| `pipeline_crash` (violation) | 1 claim, 1 worker, 1 crash | a crashed worker's run stays running for ever |
| `agent_calls` | 1 claim, 2 workers, 3 stages, 2 attempts, 1 stop or lost event, 1 retry, every mode of the adapter | bounded cost, rescue of single faults, no payment on a template, every run ends |
| `stream_delivery` | 2 claims one after the other, 2 emitters, 2 events of each, batches of 2, reads that end anywhere, 3 gaps or drops | order, what may be skipped and nothing else, quiet ends, arrival |
| `row_staff` | 2 requests of any kind, 2 workers, 1 adjuster, clock to 2, 1 dead request | the row's invariants, escalation and settlement |
| `row_override` (violation) | 1 override, 1 worker | the run's save undoes the override |
| `requests_calls` | 1 request, 1 PATCH, 2 uploads, 2 dead calls | receipts, waiving, auditing |
| `adjudication_gate` | 2 claims on one of 3 policies, 2 incidents, one of them in 2 spellings, amounts 2 and 10, 1 retry; symmetry | soundness of automatic approval, monotone routing, duplicates |
| `notifications_calls` | 2 emissions of 1 milestone, 1 message of each side, 1 reading, 1 note, 2 adjusters, 1 fault | single mails, honest receipts, what must be told is told |
| `sessions_tabs` | 2 tabs, 2 requests of the first, 3 loads, sign-outs, expiries or lost answers | rotation is invisible, cookies and server agree, no page hangs |
| `sessions_logout` (violation) | 1 tab | a sign-out leaves the session live |
| `portal_lookup` | 3 stages, 2 lookups, 2 recoveries, 1 fault of any kind | answers agree, the code opens, the page catches up |

Why the bounds are enough. Races over one claim, row or request are between two writers and an observer, so two of each actor. Six stages and two attempts let a claim halt at either halting stage, fail, be enqueued again and inherit checkpoints; two faults allow a stop and a crash, or two crashes of one claim's successive workers. In `stream_delivery` two events of a claim are overtaken, gapped, torn and put in one batch or two; the second claim starts from a cursor below, at or above its events; three faults use up the attempts of the hook with one to spare for a gap. Longer logs, more batches and more claims are left to the theorems. A clock of two and a threshold of one let an escalation fall due before, during and after the save. In `notifications_calls` two emissions race for one milestone, a reading meets the message of either side, and a note mentions none, one or two; milestones share nothing, so one is enough. In `agent_calls` three stages are one of each kind (it may halt, its call may fail, it writes the letter), and one retry makes the adapter's loop run and end; the second attempt inherits the first one's letter. In `sessions_tabs` three events let a load or a lost answer fall on a refresh of either tab, after an expiry. In `portal_lookup` two recoveries may overlap, two lookups may overtake each other across any event and the save. In `adjudication_gate` the amounts are chosen to be below, at and above what the limit and deductibles allow, the evidence to make scores fall on both sides of 30 and, with the fraud flags, of 70.

Deadlock checking is off where the system really stops: a stream that has ended, requests all made, runs all over. In `ClaimPipeline` workers poll for ever and it is on.

Every property of a passing run has a mutant of the code, listed in `PROJECT.json`, that the run catches: a dropped filter, a lost field, a forgotten checkpoint, calls in the wrong order. The mutated forms stand beside the definitions they change and are used by nothing else.

### Fairness

- Workers: weak fairness of each worker's step, and of its restart: `run_forever` polls until it is told to stop, and a deployment restarts a process that has died (`restart: unless-stopped` in docker-compose.yml). No fairness of callers, agents' verdicts, stops or faults.
- Stream: weak fairness of the tail and hook taken together (both loop, with timers) and of an emitter's insert once it has its number. None of new events or faults.
- Row and document requests: a request that has started is run to its end by its handler unless it dies; nobody need make one. Workers keep working.
- Notifications: the same, for emissions, posts, readings and notes.
- Agents' calls: each worker's next step, of which a request to the model is one: the HTTP client's timeout ends it. That an agent ends is not assumed but shown, because the loops are bounded.
- Sessions: a call once made is sent, handled and heard (a broken connection is heard as an error), and a data request is answered. Nobody need load a page or ask.
- Portal: a lookup is answered and heard, and the page's interval ticks. None of the run, of staff or of the customer.

## 5. What the runs found

Three runs end in a violation of what a document says:

1. A run whose worker crashes is never executed again, and blocks later attempts, though the worker's own comment and docs/operator-guide.md promise resumption (`pipeline_crash`).
2. An override made before the run's save is erased by it (`row_override`).
3. A sign-out carries no CSRF header, so the server refuses it: the session stays live, the cookies stay, and a reload signs the user in again (`sessions_logout`).

Five properties are stated in their modules and refuted by TLC when they are put in the place of the properties of a configuration; no run of the project repeats that:

4. `NothingSkipped` (in `EventStream_delivery.cfg`): a second claim filed on the same page is followed from the first claim's cursor; usePipelineEvents.js:101, against docs/operator-guide.md:147. With one claim and no gaps or drops there is another way: when a read of the body ends between a frame's data line and the blank line after it, `parseSseChunk` has already moved the cursor and keeps only the last unfinished line, though its comment (usePipelineEvents.js:30-31) promises to preserve a partial frame.
5. `ReceivingIsTerminal` (in `DocumentRequests_calls.cfg`): a waive can overwrite a receipt, both calls succeed; document_requests.py:214, against docs/api-reference.md:111.
6. `ExpiredIsRejected` (in `Adjudication_gate.cfg`): no code compares an incident's date with the policy's, though docs/user-guide.md:30 says an expired policy forces rejection; rating.py:127.
7. `KnownCodeOpens` without its condition on `excused` (in `Portal_lookup.cfg`): a code recovered while the run executes is put back by the save (pipeline.py:483), so the mailed code opens nothing and the old one works again, though docs/api-reference.md:198 says the old code "stops working immediately". Two recoveries at once may be mailed in the other order, and a mail that fails leaves the customer with no valid code and an answer of 200. The recovery also leaves the plain code on the row, which the case view shows, as it was.

8. `VarianceCannotDodge` (in `Adjudication_gate.cfg`): fraud.py:53 says the fingerprint is normalized "so formatting variance cannot dodge the match". A submission's row keeps the type as the form spelled it and no fingerprint (server.py:193-198), the intake rewrites it with an underscore (agents.py:106), and the fingerprint only strips and lowers (fraud.py:56-60). So of two claims filed as "Water Damage", when the second is filed after the first one's fraud check and checked before its save, neither is flagged. The wizard offers only types that need no rewriting; the API takes any.

Met while modelling, and in the models as the code has them:

- A run's save that read the row before a sweep stamped the escalation replaces it without the stamp, though escalation.py:3-6 says it is never cleared and pipeline.py:496-500 that it must survive the replace; `EscalationSetOnce` names this step as its exception. The bell has rung by then; a later sweep may stamp a new time.
- The comment at api.js:66-67 says a second 401 falls to the unauthorized handler; the code only rejects. The CSRF cookie is set for "/" and cleared for "/api/auth" (auth_routes.py:47-58), so it is never cleared. A reload during a refresh, a lost answer, or a second tab make the next refresh a reuse that signs the user out; a refresh that is past its lookup inserts a live token into a family that is being revoked.
- The fixture's "timeout" is not retried. The similarity judgement does without the repeat of a refusal. A first letter that fails other than by a refusal fails the run, a second one falls back to the template. With LLM_MAX_RETRIES = 0 `schema_once` does not recover. The latency logged per attempt counts from the first attempt.
- A settlement recorded before the row is saved makes every milestone done, so the page stops asking before it shows the decision (StatusPortal.js:79). A lost `agent_complete` leaves a finished stage shown as the current one. A halted claim keeps status pending, and with it an ETA and the list of stages to come, for ever. A save drops a settlement but not its milestone.

## 6. Proofs

The proof modules extend the component they are about. All theorems hold for every value of the constants that satisfies the named assumptions: the bounds are natural numbers, the designated stages are stages, identities of different kinds are different, policies and evidence are records of the right shape, and the gate's threshold is at least 1 (it is 85 by default).

`ClaimPipelineProofs` proves type correctness, `ExclusiveExecution`, `NoReexecution`, `AnnouncedIsCheckpointed` and `AutoApprovalEarned`. The first two are not inductive. What carries them is `PipelineInv`, three facts that need one another: `AttemptsInv`, a later attempt exists only when every earlier one is over, and it inherits all their checkpoints; `CallersInv`, what a caller read before its insert is still true when it inserts, because an attempt that is over never changes again; and `WorkersInv`, a busy worker's run is running and its own, and its local checkpoints are the document's except for an output not yet persisted. Two attempts of a claim cannot both be running by the first, so two workers cannot be in one claim; and a stage about to execute has no checkpoint in its own run by the third, hence in no earlier run by the first. The other two rest on the lemma `CheckpointsStick`: the only writers of checkpoints are an insert, of a document that had none, and a worker at a stage that had none, so what is recorded is never changed. An event announced behind a checkpoint therefore stays true, and an approval earned by a worker's checkpoints (`ApprovalsEarned`: from the gate to the end of the run they are complete and pass it) is still earned by the document it is written to.

The same module proves that the pipeline implements `ClaimRunLifecycle`, step by step. `LatestAttemptIs` and `InFlightIsLatest` say that the run a worker moves is the one the mapping looks at; `MovedPhase` and `InsertMaps` compute how the latest attempt and its phase change. The mapping needs one more invariant, `RowInv`: a request in progress is for a claim that has a row, and between its save and the end of its run a worker still finds its own outcome on the row. The second is not true of one worker alone: it needs `ExclusiveExecution`, since another run of the claim would save over it.

The last part of the module is about `AgentCalls`. It first shows that the composition is a pipeline (`CallsImplementPipeline`: a step around the agents' calls is one of the pipeline's or leaves it alone), so that every theorem above holds of it. Its own invariant `CallInv` counts, for each worker, the requests that the loops behind it can have sent (`Spent`), and says where a template letter can be and that a one-shot fault finds its loops fresh. `StageCostBounded` follows by arithmetic for every cap of retries, `OneShotFaultsAreRescued` at once. `TemplateNeverPays` joins the two levels: the template's failing confidence is checkpointed at the decision stage of some attempt and sticks there, attempts inherit each other's checkpoints, and an approved run has a passing checkpoint at that stage; a claim cannot have both. The proofs assume that the fraud and decision agents are different stages, that the fixture's fault is one that parse_fixture_faults accepts, and that at least one retry is configured.

`DocumentRequestsProofs` proves type correctness, `DocumentBehindReceipt`, `BellsAreEarned`, `OneReceipt` and `WaivedIsClosed`. The inductive invariant `ChecklistInv` adds what an upload has done by the time it reaches each call (`UploadsProgress`), that a request still open has no document, and that calls only name requests that exist. The two action properties follow from it: the flip requires `requested`, so the request it touches has neither a document nor a waiver.

`AdjudicationProofs` proves type correctness (with `ScoreBounds`: the score stays within 0 and 100, and no payout is negative) and `AutoApprovalIsSound`. The invariant `AdjudicationInv` says what each stage has established when a claim is past it: after Eligibility the stored score and recommendation are the functions of the facts they were computed from, after Decision verdict and payout are the code's and not the model's. Past the gate an automatic approval therefore had a clean eligibility and a model's letter with enough confidence, and a clean eligibility bounds the score below 30, which excludes frequent claims and two grave fraud flags by arithmetic.

For `RoutingIsMonotone`, `ScoreMonotone` takes the score apart: the base score (a division, `DivMonotone`), the points for coverage, limits, frequency, consistency, red flags and fraud flags each grow with their fact, and sum and cap keep the order. With the invariant, stored scores are scores of facts, and the recommendation follows from the score and from tests that only get worse. `DuplicatesAreFlagged` rests on `RowsTell`: the row of a claim whose run is over names the incident its intake read, and the row of one whose first run is under way names that or the incident as the form spelled it. A fraud check therefore finds any other claim that was read as the same incident, if that one is saved or was spelled as it was read. Both provisos are needed. A form spelled otherwise is missed until its run is saved (finding 8); and an intake that failed leaves a row without an incident, which stays so while a retry goes on with the one it read.

`EventStreamProofs` proves type correctness and `BoardInOrder` for any claims, emitters and faults. `StreamInv` orders what lies between the log and the board: the numbers that emitters hold are below the counter, distinct and not in the log (`Numbered`); board, resume cursor, frames on the wire, cursor of the tail and fetched batch follow each other (`WireInOrder`, `BoardBehindCursor`). `ReadChunk` is the hard step: what it hands to the board lies above the cursor it started from, and the frame it may leave unfinished is the one the cursor names. For `OnlyOvertakenSkipped` and `QuietEndIsTerminal`, `Accounted` is inductive: an event the tail has passed is in the batch, on the wire, on the board, or excused (`Excused`: overtaken, at or below `openedAt`, or torn); each cursor is the number of an event of this claim or `openedAt` itself, so an event inserted behind it is overtaken or below `openedAt`; and a tail that ended sent a terminal event last, which is on the board, on the wire or torn. Nothing is assumed of the number of claims or of where reads end; the excuses are the cases of finding 4, and the theorems say there are no others.

`ClaimRowProofs` proves type correctness, `BlocksExplainStatus`, `AuditBacksRow` and `EscalationSetOnce`. An operation writes its audit entry before the row (`AuditBeforeWrite`, which a settlement is exempt from), and a run's save brings back only an assignment that the audit log has (`AuditBacksSave`, about what `_save_claim` read before it writes).

`NotificationsProofs` proves type correctness, `MailedOnce` and `ReceiptsAreHonest`. Of the emissions of a milestone only the one whose record the unique index let in may send, and it has not yet sent (`OneSender`); what a reading has stamped is in the thread when it lists it (`StampedInThread`). Neither needs the requests to finish: a lost call only keeps the state.

`PortalProofs` proves type correctness, `AnswersAgree` and `KnownCodeOpens`. For the first, the run is at least as far as the row and as anything a lookup read of it, and the completed events as far as the run unless one was lost (`RunIsAhead`, `EventsFollowRun`); so the events, read later, are never behind the row, read earlier. For the second, without an excuse the code in force is the last one made and the only one that may be in the mail; a save still to come could only put back the first code, so while there is one no other was made (`LastCodeCounts`).

`SessionsProofs` proves type correctness, `RefreshSucceeds` and `JarHoldsTheSession` for any number of tabs, requests and open calls. Two facts hold whatever happens: a tab has at most the refresh its requests share (`SingleFlight`), and only a refresh that came with a cookie rotates. `OneAtATime` is what there is without trouble: at most one call is open, made with the cookies the browser still has, and its place says which token is live (`InFlight`): before the rotation and after a refusal the browser's (`Settled`), between the two calls of the rotation none of its family, after it the one in the answer. A token found revoked is therefore a sign of trouble, and so is a sign-out that revokes, which carries no header.

Only model-checked is what is outside the provers' reach: `EveryRunEnds`, `EventsArrive`, `SettlementAudited`, `ClosingIsAudited`, `RecordedIsMailed`, `MessagesRing`, `PageCatchesUp` and `PageSettles`, which are liveness under fairness, and anything that needs induction over sequences or recursive definitions.

## 7. Not modelled, and why

Drafts are planned: one document per user, written by a debounced save. The adapter's `stream` has no caller outside the tests. The fixture's canned payloads are data. The portal's decision letter is layout over a stored decision. Templates, saved views and analytics are single reads or writes with nothing to interleave. Prompts, letters, PDF and evidence pack are text and layout. Password hashing, token encoding, rate limits and storage drivers are library work. The halt tests run only when a stage executes, so a halted claim enqueued again passes them; the models do the same, and since no document says what should happen no property is stated. A run's save restamps `created_at` and restarts the SLA clock, and the escalation bell goes to the assignee the sweep listed: both are in the model, neither contradicts a document.
