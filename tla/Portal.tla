------------------------------- MODULE Portal -------------------------------
(***************************************************************************)
(* The customer's status page: backend/app/status_routes.py,               *)
(* status_portal.py and portal_projection.py on the server,                *)
(* frontend/src/components/StatusPortal.js in the browser.                 *)
(*                                                                         *)
(* One claim.  A lookup opens it with an access code and is answered from  *)
(* two reads: the claim row, which the pipeline replaces at the end of a   *)
(* run, and the event log, which grows while it runs.  Meanwhile a call    *)
(* files the claim, a worker runs it and may crash, an adjuster settles    *)
(* it, and the customer recovers the access code.                          *)
(*                                                                         *)
(* An access code is named by the order in which it was made; 0 is none.   *)
(* The other parties are reduced to what the page acts on: ClaimPipeline   *)
(* and ClaimRow have their details, the claim's status among them.         *)
(***************************************************************************)
EXTENDS Naturals, FiniteSets, FiniteSetsExt

CONSTANTS
  Stages,         \* stages of a run; the last one decides
  DocumentStage,  \* DOCUMENT_AGENT
  HaltStages,     \* stages whose answer may halt the run
  Lookups,        \* names for the lookups open at a time
  MaxCodes,       \* bound: access codes made for the claim
  MaxFaults       \* bound: crashes, lost events, mails and answers

ASSUME PortalAssumption ==
  /\ Stages \in Nat \ {0} /\ MaxCodes \in Nat \ {0} /\ MaxFaults \in Nat
  /\ DocumentStage \in 1..Stages /\ HaltStages \subseteq 1..Stages

VARIABLES
  row,      \* the claim row: its code and the stages saved on it
  log,      \* the events of the claim that the timeline reads
  filing,   \* where the call that files the claim has come to
  run,      \* the claim's run and its checkpoints
  codes,    \* access codes made so far
  mails,    \* new codes under way to the customer
  known,    \* the code the customer was told last
  lookup,   \* the lookups
  page,     \* the status page: what it shows, the code it polls with
  faults,   \* bounded faults so far
  excused   \* "code": a recovery met a run or another one, or its mail was
            \* lost; "event": an event of the run was lost (history)

claim == <<row, log, filing, run>>
customer == <<codes, mails, known>>
browser == <<lookup, page>>
history == <<faults, excused>>
vars == <<claim, customer, browser, history>>

Code == 0..MaxCodes
NoRow == [exists |-> FALSE, code |-> 0, done |-> 0]

Slots == {"submitted", "documents_received", "decision_ready",
          "payout_recorded"}
\* Of an answer the page acts on the decision and on whether the four slots
\* are done.
Nothing == [decision |-> FALSE, complete |-> FALSE]
NoLookup == [at |-> "idle", typed |-> 0, done |-> 0, answer |-> Nothing]

TypeOK ==
  /\ row \in [exists : BOOLEAN, code : Code, done : 0..Stages]
  /\ log \in [submitted : BOOLEAN, started : SUBSET (1..Stages),
              completed : SUBSET (1..Stages), paid : BOOLEAN]
  /\ filing \in {"idle", "row", "run", "event", "done", "dead"}
  /\ run \in [at : {"none", "between", "agent", "save", "over", "dead"},
              done : 0..Stages]
  /\ codes \in Code
  /\ mails \subseteq Code
  /\ known \in Code
  /\ lookup \in [Lookups ->
       [at : {"idle", "claim", "answered", "refused"},
        typed : Code, done : 0..Stages,
        answer : [decision : BOOLEAN, complete : BOOLEAN]]]
  /\ page \in [up : BOOLEAN, used : Code,
              shown : [decision : BOOLEAN, complete : BOOLEAN]]
  /\ faults \in 0..MaxFaults
  /\ excused \subseteq {"code", "event"}

Init ==
  /\ row = NoRow
  /\ log = [submitted |-> FALSE, started |-> {}, completed |-> {},
            paid |-> FALSE]
  /\ filing = "idle"
  /\ run = [at |-> "none", done |-> 0]
  /\ codes = 0 /\ mails = {} /\ known = 0
  /\ lookup = [l \in Lookups |-> NoLookup]
  /\ page = [up |-> FALSE, shown |-> Nothing, used |-> 0]
  /\ faults = 0 /\ excused = {}

Fault == faults < MaxFaults /\ faults' = faults + 1

-----------------------------------------------------------------------------
(* The claim is filed: submit_claim, one step for each of its writes.      *)

InsertRow ==
  /\ filing = "idle"
  /\ filing' = "row"
  /\ codes' = 1
  /\ row' = [NoRow EXCEPT !.exists = TRUE, !.code = 1]
  /\ UNCHANGED <<log, run, mails, known, browser, history>>

EnqueueRun ==
  /\ filing = "row"
  /\ filing' = "run"
  /\ run' = [run EXCEPT !.at = "between"]
  /\ UNCHANGED <<row, log, customer, browser, history>>

AnnounceClaim ==
  /\ filing = "run"
  /\ filing' = "event"
  /\ log' = [log EXCEPT !.submitted = TRUE]
  /\ UNCHANGED <<row, run, customer, browser, history>>

\* The answer and the mail carry the code.
GiveCode ==
  /\ filing = "event"
  /\ filing' = "done"
  /\ known' = 1
  /\ UNCHANGED <<row, log, run, codes, mails, browser, history>>

FilingDies ==
  /\ filing \in {"row", "run", "event"}
  /\ Fault
  /\ filing' = "dead"
  /\ UNCHANGED <<row, log, run, customer, browser, excused>>

-----------------------------------------------------------------------------
(* The worker runs it.  run.done counts the checkpointed stages.           *)

\* PipelineRunner._emit: an event that cannot be written is logged and left.
Emit(event) ==
  \/ log' = event /\ UNCHANGED history
  \/ Fault /\ excused' = excused \cup {"event"} /\ UNCHANGED log

notRun == <<row, filing, customer, browser>>

StartAnyStage ==
  /\ run.at = "between"
  /\ run' = [run EXCEPT !.at = "agent"]
  /\ Emit([log EXCEPT !.started = @ \cup {run.done + 1}])
  /\ UNCHANGED notRun
StartStage ==
  /\ run.at = "between" /\ run.done < Stages
  /\ run' = [run EXCEPT !.at = "agent"]
  /\ Emit([log EXCEPT !.started = @ \cup {run.done + 1}])
  /\ UNCHANGED notRun

\* The stage is checkpointed and announced; then it may halt the run.
Completed == [log EXCEPT !.completed = @ \cup {run.done + 1}]
Halted == [run EXCEPT !.at = "save", !.done = @ + 1]
EndStageUnannounced ==
  /\ run.at = "agent"
  /\ \/ run' = [run EXCEPT !.at = "between", !.done = @ + 1] /\ Emit(Completed)
     \/ run.done + 1 \in HaltStages /\ run' = Halted /\ UNCHANGED <<log, history>>
  /\ UNCHANGED notRun
EndStage ==
  /\ run.at = "agent"
  /\ \/ run' = [run EXCEPT !.at = "between", !.done = @ + 1]
     \/ run.done + 1 \in HaltStages /\ run' = Halted
  /\ Emit(Completed)
  /\ UNCHANGED notRun

FailStage ==
  /\ run.at = "agent"
  /\ run' = [run EXCEPT !.at = "save"]
  /\ UNCHANGED <<log, history, notRun>>

Gate ==
  /\ run.at = "between" /\ run.done = Stages
  /\ run' = [run EXCEPT !.at = "save"]
  /\ UNCHANGED <<log, history, notRun>>

\* _save_claim replaces the row: the code is the one the run was enqueued
\* with.
SaveNoCode ==
  /\ run.at = "save"
  /\ run' = [run EXCEPT !.at = "over"]
  /\ row' = [NoRow EXCEPT !.exists = TRUE, !.done = run.done]
  /\ UNCHANGED <<log, filing, customer, browser, history>>
Save ==
  /\ run.at = "save"
  /\ run' = [run EXCEPT !.at = "over"]
  /\ row' = [NoRow EXCEPT !.exists = TRUE, !.done = run.done, !.code = 1]
  /\ UNCHANGED <<log, filing, customer, browser, history>>

\* Nothing resumes the run of a worker that crashed.
Crash ==
  /\ run.at \in {"between", "agent", "save"}
  /\ Fault
  /\ run' = [run EXCEPT !.at = "dead"]
  /\ UNCHANGED <<log, excused, notRun>>

-----------------------------------------------------------------------------
(* An adjuster records a settlement.  Of what record_claim_settlement       *)
(* writes the page acts on the event; ClaimRow has the steps of the call.  *)

Settle ==
  /\ row.exists /\ ~log.paid
  /\ log' = [log EXCEPT !.paid = TRUE]
  /\ UNCHANGED <<row, filing, run, customer, browser, history>>

-----------------------------------------------------------------------------
(* recover_access_code, by a customer who was told the claim's number.     *)

SaveToCome == run.at \in {"between", "agent", "save"}
RotateCode ==
  /\ row.exists /\ known # 0
  /\ codes < MaxCodes
  /\ codes' = codes + 1
  /\ row' = [row EXCEPT !.code = codes + 1]
  /\ mails' = mails \cup {codes + 1}
  /\ excused' = IF SaveToCome \/ mails # {} THEN excused \cup {"code"}
                ELSE excused
  /\ UNCHANGED <<log, filing, run, known, browser, faults>>

MailCode(c) ==
  /\ c \in mails
  /\ mails' = mails \ {c}
  /\ known' = c
  /\ UNCHANGED <<claim, codes, browser, history>>

LoseMail(c) ==
  /\ c \in mails
  /\ Fault
  /\ mails' = mails \ {c}
  /\ excused' = excused \cup {"code"}
  /\ UNCHANGED <<claim, codes, known, browser>>

-----------------------------------------------------------------------------
(* A lookup on the server.                                                 *)

\* milestone_timeline, from the events.
Milestones ==
  {k \in Slots :
     CASE k = "submitted"          -> log.submitted
       [] k = "documents_received" -> DocumentStage \in log.completed
       [] k = "decision_ready"     -> Stages \in log.completed
       [] k = "payout_recorded"    -> log.paid}
\* The stage that started last of those that have not completed.
CurrentStage ==
  LET running == log.started \ log.completed
  IN IF running = {} THEN 0 ELSE Max(running)

\* build_customer_projection, from the saved row: a stage that has an output
\* is summarised, and there is a decision once the last one has.
Summaries(done) == 1..done
PublicStatusPayload(done) ==
  [decision |-> done = Stages, summaries |-> Summaries(done),
   current |-> CurrentStage, milestones |-> Milestones]

AllDone(payload) == Slots \subseteq payload.milestones

notServer == <<claim, customer, page, history>>

\* claim_for_access, with the customer's or the poll's code; typed is 0 for a
\* poll.  The way to the server takes no step of its own.
LookupClaim(l, code, typed) ==
  /\ lookup[l].at = "idle"
  /\ lookup' = [lookup EXCEPT ![l] =
       IF row.exists /\ row.code = code
       THEN [NoLookup EXCEPT !.at = "claim", !.typed = typed, !.done = row.done]
       ELSE [NoLookup EXCEPT !.at = "refused", !.typed = typed]]
  /\ UNCHANGED notServer

\* The events are read after the row.
ReadEvents(l) ==
  /\ lookup[l].at = "claim"
  /\ LET payload == PublicStatusPayload(lookup[l].done) IN
       lookup' = [lookup EXCEPT ![l].at = "answered", ![l].done = 0,
         ![l].answer = [decision |-> payload.decision,
                        complete |-> AllDone(payload)]]
  /\ UNCHANGED notServer

LookupFails(l) ==
  /\ lookup[l].at \in {"claim", "answered"}
  /\ Fault
  /\ lookup' = [lookup EXCEPT ![l] =
       [NoLookup EXCEPT !.at = "refused", !.typed = lookup[l].typed]]
  /\ UNCHANGED <<claim, customer, page, excused>>

-----------------------------------------------------------------------------
(* The page.                                                               *)

\* The customer asks, with the code that was told last.
Lookup(l) == known # 0 /\ LookupClaim(l, known, known)

\* While a milestone of what the page shows is open, an interval asks again,
\* with the code of the last lookup that the customer got an answer to.
PollWithTheForm(l) ==
  page.up /\ ~page.shown.complete /\ LookupClaim(l, known, 0)
Poll(l) ==
  page.up /\ ~page.shown.complete /\ LookupClaim(l, page.used, 0)

HearAnswer(l) ==
  /\ lookup[l].at = "answered"
  /\ page' = [up |-> TRUE, shown |-> lookup[l].answer,
              used |-> IF lookup[l].typed # 0 THEN lookup[l].typed ELSE page.used]

\* A lookup of the customer's that fails clears the page, a poll does not.
HearFailure(l) ==
  /\ lookup[l].at = "refused"
  /\ page' = IF lookup[l].typed # 0
             THEN [page EXCEPT !.up = FALSE, !.shown = Nothing] ELSE page

Hear(l) ==
  /\ HearAnswer(l) \/ HearFailure(l)
  /\ lookup' = [lookup EXCEPT ![l] = NoLookup]
  /\ UNCHANGED <<claim, customer, history>>

-----------------------------------------------------------------------------
Filing == InsertRow \/ EnqueueRun \/ AnnounceClaim \/ GiveCode \/ FilingDies
Running ==
  StartStage \/ EndStage \/ FailStage \/ Gate \/ Save \/ Crash

Next ==
  \/ Filing
  \/ Running
  \/ Settle
  \/ RotateCode
  \/ \E c \in mails : MailCode(c) \/ LoseMail(c)
  \/ \E l \in Lookups :
       Lookup(l) \/ Poll(l) \/ ReadEvents(l) \/ LookupFails(l) \/ Hear(l)

Spec == Init /\ [][Next]_vars

\* A lookup is answered and heard, and the interval ticks.
FairSpec ==
  /\ Spec
  /\ \A l \in Lookups : WF_vars(ReadEvents(l)) /\ WF_vars(Hear(l))
  /\ WF_vars(\E l \in Lookups : Poll(l))

-----------------------------------------------------------------------------
(* Properties.                                                             *)

\* The two halves of one answer agree, although they are read one after the
\* other while the run goes on: a decision comes with its milestone, so does
\* a summary of the documents, and the current stage is none of those that
\* are summarised as completed.
AnswersAgree ==
  "event" \notin excused =>
    \A l \in Lookups : lookup[l].at = "claim" =>
      LET a == PublicStatusPayload(lookup[l].done) IN
        /\ a.decision => "decision_ready" \in a.milestones
        /\ DocumentStage \in a.summaries => "documents_received" \in a.milestones
        /\ a.current \notin a.summaries

\* The customer can always get in: the code told last opens the claim, except
\* while a new one is in the mail, and unless it was recovered before the
\* run's row was saved, twice at once, or in a mail that was lost.
KnownCodeOpens ==
  known # 0 /\ mails = {} /\ "code" \notin excused => row.code = known

\* Once the row has its decision the page, if it is up with the code in force,
\* comes to show it and stays with it, whatever answers are lost or overtake
\* each other; unless it shows an answer in which every milestone is done,
\* after which it asks no more, with or without a decision in that answer.
PageCatchesUp ==
  <>[](\/ row.done < Stages \/ ~page.up \/ page.used # row.code
       \/ page.shown.decision \/ page.shown.complete)
=============================================================================
