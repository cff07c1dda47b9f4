----------------------------- MODULE AgentCalls -----------------------------
(***************************************************************************)
(* What an agent of the pipeline does while it runs: the retry loops of    *)
(* backend/app/llm/adapter.py and llm/fixture.py and those around them in  *)
(* backend/agents.py, composed with the workers of ClaimPipeline.          *)
(*                                                                         *)
(* Three loops are nested: the adapter asks again after a transient error  *)
(* (up to MaxRetries) or without a temperature the model rejects; an agent *)
(* repeats a refused call once; the decision agent has a letter that leaks *)
(* internal jargon written once more, and falls back to a template.  The   *)
(* adapter remembers what it learnt for the life of its process.           *)
(*                                                                         *)
(* The model's answer is what these loops look at.  A crash in the middle  *)
(* of a call loses nothing ClaimPipeline's Crash does not, and is left to  *)
(* it.                                                                     *)
(***************************************************************************)
EXTENDS ClaimPipeline, FiniteSets

CONSTANTS
  ModelOf,          \* the model each stage is configured with
  SimilarityStage,  \* the fraud agent: its model call may fail
  DecisionStage,    \* the decision agent: it always has a letter
  SkipStages,       \* stages that can end without asking the model
  MaxRetries,       \* LLM_MAX_RETRIES
  Modes             \* the adapters a worker may be started with

ASSUME CallsAssumption ==
  /\ SimilarityStage \in Stages \ {DecisionStage}
  /\ DecisionStage \in GateStages
  /\ SkipStages \subseteq Stages
  /\ MaxRetries \in Nat \ {0}

VARIABLES
  mode,       \* the adapter: live, or the fixture with one FIXTURE_FAULT
  call,       \* where each worker's agent is with the model
  dropped,    \* _temperature_unsupported of each worker's adapter
  hit,        \* claims whose fault is in _calls of each worker's fixture
  templated   \* claims with a template letter for a checkpoint (history)

callVars == <<mode, call, dropped, hit, templated>>
allVars == <<vars, callVars>>

Live == [kind |-> "live", stage |-> 0]
FixtureFaults == [kind : {"timeout", "refusal", "refusal_once", "schema",
                          "schema_once"}, stage : Stages]
ASSUME ModesAssumption == Modes \subseteq {Live} \cup FixtureFaults
Models == {ModelOf[s] : s \in Stages}
NewCall == [pc |-> "ask", tries |-> 0, round |-> 1, letter |-> 1, sent |-> 0]

CallsTypeOK ==
  /\ mode \in Modes
  /\ call \in [Workers -> [pc : {"ask", "answered", "template", "raised"},
                           tries : 0..MaxRetries, round : 1..2,
                           letter : 1..2, sent : Nat]]
  /\ dropped \in [Workers -> SUBSET Models]
  /\ hit \in [Workers -> SUBSET Claims]
  /\ templated \subseteq Claims

CallsInit ==
  /\ Init
  /\ mode \in Modes
  /\ call = [w \in Workers |-> NewCall]
  /\ dropped = [w \in Workers |-> {}]
  /\ hit = [w \in Workers |-> {}]
  /\ templated = {}

-----------------------------------------------------------------------------
(* One request to the model.                                               *)

\* _maybe_fault: the fixture fails at one stage, always or the first time the
\* process is asked for the claim.
FaultOutcome ==
  [timeout |-> "fatal", refusal |-> "refusal", refusal_once |-> "refusal",
   schema |-> "transient", schema_once |-> "transient"]
FixtureOutcome(w) ==
  IF /\ mode.stage = at[w]
     /\ mode.kind \in {"refusal_once", "schema_once"} => job[w][1] \notin hit[w]
  THEN FaultOutcome[mode.kind] ELSE "clean"

\* "temperature" is the model's rejection of the parameter, "transient" an
\* error _transient_kind names, "fatal" any other.
Outcomes(w) ==
  IF mode # Live THEN {FixtureOutcome(w)}
  ELSE {"clean", "refusal", "transient", "fatal"}
         \cup (IF at[w] = DecisionStage THEN {"jargon"} ELSE {})
         \cup (IF ModelOf[at[w]] \in dropped[w] THEN {} ELSE {"temperature"})

\* Worker w's request ends in o, and its agent goes on as in next.
Ends(w, o, next) ==
  /\ pc[w] = "agent" /\ call[w].pc = "ask"
  /\ o \in Outcomes(w)
  /\ call' = [call EXCEPT ![w] = [next EXCEPT !.sent = @ + 1]]
  /\ hit' = IF mode.stage = at[w]
            THEN [hit EXCEPT ![w] = @ \cup {job[w][1]}] ELSE hit
  /\ UNCHANGED <<vars, mode, templated>>

\* A call the adapter gives up: the similarity judgement is done without, a
\* second letter is replaced by the template, and so is a refused first one;
\* anything else fails the run closed.
GivenUp(w, refused) ==
  [call[w] EXCEPT !.pc =
    CASE at[w] = SimilarityStage -> "answered"
      [] at[w] = DecisionStage /\ (refused \/ call[w].letter = 2) -> "template"
      [] OTHER -> "raised"]

Answer(w) ==
  /\ Ends(w, "clean", [call[w] EXCEPT !.pc = "answered"])
  /\ UNCHANGED dropped

\* decision_agent has a letter with jargon written once more.
LetterWithJargon(w) ==
  /\ Ends(w, "jargon",
          IF call[w].letter = 1
          THEN [NewCall EXCEPT !.letter = 2, !.sent = call[w].sent]
          ELSE [call[w] EXCEPT !.pc = "template"])
  /\ UNCHANGED dropped

RefuseUnretried(w) ==
  /\ Ends(w, "refusal", GivenUp(w, TRUE))
  /\ UNCHANGED dropped
RefuseEndlessly(w) ==
  /\ Ends(w, "refusal",
          [call[w] EXCEPT !.round = @ + 1, !.tries = 0])
  /\ UNCHANGED dropped
\* _complete_with_refusal_retry, which the similarity judgement does without.
Refuse(w) ==
  /\ Ends(w, "refusal",
          IF call[w].round = 1 /\ at[w] # SimilarityStage
          THEN [call[w] EXCEPT !.round = 2, !.tries = 0]
          ELSE GivenUp(w, TRUE))
  /\ UNCHANGED dropped

\* The model is asked again at once, without the parameter, and this process
\* never sends it to that model again.
RejectTemperature(w) ==
  /\ Ends(w, "temperature", call[w])
  /\ dropped' = [dropped EXCEPT ![w] = @ \cup {ModelOf[at[w]]}]

FailTransientlyOnceMore(w) ==
  /\ Ends(w, "transient",
          IF call[w].tries <= MaxRetries
          THEN [call[w] EXCEPT !.tries = @ + 1]
          ELSE GivenUp(w, FALSE))
  /\ UNCHANGED dropped
\* Asked again after a delay, up to the cap.
FailTransiently(w) ==
  /\ Ends(w, "transient",
          IF call[w].tries < MaxRetries
          THEN [call[w] EXCEPT !.tries = @ + 1]
          ELSE GivenUp(w, FALSE))
  /\ UNCHANGED dropped

Fail(w) ==
  /\ Ends(w, "fatal", GivenUp(w, FALSE))
  /\ UNCHANGED dropped

ModelStep(w) ==
  \/ Answer(w) \/ LetterWithJargon(w) \/ Refuse(w)
  \/ RejectTemperature(w) \/ FailTransiently(w) \/ Fail(w)

-----------------------------------------------------------------------------
(* The stage around the requests.                                          *)

BeginStage(w) ==
  /\ StartStage(w)
  /\ call' = [call EXCEPT ![w] = NewCall]
  /\ UNCHANGED <<mode, dropped, hit, templated>>

\* No request: the policy is not in the database, which halts the run, or no
\* prior claim is a candidate for the similarity judgement.
SkipModel(w) ==
  /\ call[w] = NewCall
  /\ at[w] \in SkipStages
  /\ AgentReturns(w)
  /\ at[w] \in HaltStages => cps'[w][at[w]] = "bad"
  /\ UNCHANGED callVars

EndStageWithAnyLetter(w) ==
  /\ call[w].pc \in {"answered", "template"}
  /\ AgentReturns(w)
  /\ UNCHANGED callVars
\* The template letter has confidence 0.0, which fails the gate's leg.
EndStage(w) ==
  /\ call[w].pc \in {"answered", "template"}
  /\ AgentReturns(w)
  /\ call[w].pc = "template" => cps'[w][at[w]] = "bad"
  /\ UNCHANGED callVars

\* The agent raises: the adapter gave up, or a lookup before the first
\* request failed (a database error, _require_upstream).
FailStage(w) ==
  /\ call[w] = NewCall \/ call[w].pc = "raised"
  /\ AgentRaises(w)
  /\ call' = [call EXCEPT ![w] = NewCall]
  /\ UNCHANGED <<mode, dropped, hit, templated>>

CheckpointStage(w) ==
  /\ PersistCheckpoint(w)
  /\ call' = [call EXCEPT ![w] = NewCall]
  /\ templated' = templated \cup
       (IF call[w].pc = "template" THEN {job[w][1]} ELSE {})
  /\ UNCHANGED <<mode, dropped, hit>>

StageStep(w) ==
  \/ BeginStage(w) \/ ModelStep(w) \/ SkipModel(w) \/ EndStage(w)
  \/ FailStage(w) \/ CheckpointStage(w)

\* The steps of a worker outside its agents.
RunStep(w) ==
  /\ \/ LoopTest(w) \/ ClaimNextRun(w) \/ QueueEmpty(w)
     \/ StopBetweenStages(w) \/ AnnounceStage(w) \/ ApplyGate(w)
     \/ SaveClaim(w) \/ EmitFinalized(w) \/ FinalizeRun(w)
  /\ UNCHANGED callVars

\* A new process has a new adapter (get_adapter).
StartProcess(w) ==
  /\ StartWorker(w)
  /\ dropped' = [dropped EXCEPT ![w] = {}]
  /\ hit' = [hit EXCEPT ![w] = {}]
  /\ UNCHANGED <<mode, call, templated>>

CallsNext ==
  \/ \E k \in Callers : CallerStep(k) /\ UNCHANGED callVars
  \/ \E w \in Workers :
       \/ StageStep(w) \/ RunStep(w) \/ StartProcess(w)
       \/ RequestStop(w) /\ UNCHANGED callVars

CallsSpec == CallsInit /\ [][CallsNext]_allVars

\* As FairSpec of ClaimPipeline; that an agent ends is no assumption here:
\* only that each request to the model is answered, refused or timed out.
FairCallsSpec ==
  /\ CallsSpec
  /\ \A w \in Workers :
       /\ WF_allVars(StageStep(w) \/ RunStep(w))
       /\ WF_allVars(StartProcess(w))

-----------------------------------------------------------------------------
(* Properties.                                                             *)

\* The three nested loops together send a stage no more requests than their
\* caps multiply to, and one more only where this process has just learnt
\* that the model takes no temperature.
LoopsOf(s) ==
  CASE s = SimilarityStage -> 1 [] s = DecisionStage -> 4 [] OTHER -> 2
StageCostBounded ==
  \A w \in Workers : pc[w] = "agent" =>
    call[w].sent <= LoopsOf(at[w]) * (MaxRetries + 1)
                      + Cardinality(dropped[w] \cap {ModelOf[at[w]]})

\* A fault that happens once is absorbed by the retries, at whatever stage and
\* in whichever process: it neither fails the run nor costs the customer the
\* letter (fixture.py: "schema_once recovers").
OneShotFaultsAreRescued ==
  mode.kind \in {"refusal_once", "schema_once"} =>
    \A w \in Workers : call[w].pc \notin {"template", "raised"}

\* "a fallback letter can never auto-finalize a claim" (_template_decision):
\* not in the run that wrote it, and not in a later one that inherits it.
TemplateNeverPays ==
  \A r \in Run : r[1] \in templated => status[r] # "auto_approved"
=============================================================================
