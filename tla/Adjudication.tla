------------------------------ MODULE Adjudication ------------------------------
(***************************************************************************)
(* What the six agents make of a claim: the models' answers, the           *)
(* arithmetic and rules that override them (agents.py, app/rating.py,      *)
(* app/fraud.py), and the straight-through gate (app/stp.py).              *)
(*                                                                         *)
(* The claims are on one policy and run side by side, one worker each;     *)
(* they meet in the claims collection, which the frequency rule and the    *)
(* duplicate rule read and every submission and every finished run         *)
(* writes.  A model's answer is any answer its schema admits.  Queueing,   *)
(* checkpoints and events are ClaimPipeline's subject.                     *)
(*                                                                         *)
(* A submission stores date and type as they were spelled, and the intake  *)
(* may spell them otherwise ("Water Damage" becomes water_damage).  An     *)
(* incident here is what a fingerprint is made of: date and type after     *)
(* strip and lower, so two spellings of one incident are two members of    *)
(* Incidents, and Readings says what the intake may make of each.          *)
(***************************************************************************)
EXTENDS Integers, FiniteSets

CONSTANTS
  Claims,
  Incidents,      \* (incident date, incident type) pairs, as fingerprinted
  Readings,       \* <<incident on the form, what the intake may make of it>>
  Types,
  TypeOf, DateOf, \* an incident's two halves
  Today,
  Policies,       \* policy rows the number may lead to
  NoPolicy,
  Amounts,        \* amounts a form can carry
  Evidence,       \* document verdicts: [consistency, redFlags]
  Confidences,    \* a decision's self-reported confidence, in hundredths
  Threshold,      \* STP_CONFIDENCE_THRESHOLD, in hundredths
  LowTypes, LowAmount,  \* STP_LOW_SEVERITY_TYPES and _AMOUNT
  Priors,         \* sets of incidents older claims on the policy may be about
  Blank,          \* an incident whose date was not read
  MaxRetries      \* bound: runs enqueued again after a failure

PolicyStatus == {"active", "expired", "suspended", "lapsed"}
Consistency == {"consistent", "partially_consistent", "contradicts",
                "no_documents"}

ASSUME AdjudicationAssumption ==
  /\ TypeOf \in [Incidents -> Types] /\ DateOf \in [Incidents -> Nat]
  /\ Blank \notin Incidents /\ NoPolicy \notin Policies
  /\ Policies \subseteq [status : PolicyStatus, covered : SUBSET Types,
                         limit : Nat \ {0}, deductible : Nat,
                         start : Nat, end : Nat]
  /\ Amounts \subseteq Nat \ {0}
  /\ Evidence \subseteq [consistency : Consistency, redFlags : Nat]
  /\ Confidences \subseteq 0..100
  /\ Threshold \in 1..100
  /\ Today \in Nat /\ LowAmount \in Nat /\ MaxRetries \in Nat
  /\ Priors \subseteq SUBSET Incidents

VARIABLES
  policy,      \* the policy row under the claims' policy number
  prior,       \* incidents of older claims on it
  row,         \* claims collection: [status, incident], the latter as the
               \* stored fingerprint or one made of the row's fields has it
  filed,       \* the incident as the form spells it
  at,          \* the first stage without a checkpoint
  phase,       \* "new", "running", "saving" or "done"
  outcome,     \* the run's status, once it has one
  intake, frequent, documents, flags, eligibility, decision, \* stage outputs
  retries

inputs == <<policy, prior, filed>>
outputs == <<intake, frequent, documents, flags, eligibility, decision>>
vars == <<inputs, row, at, phase, outcome, outputs, retries>>

Stages == {"intake", "policy", "documents", "fraud", "eligibility", "decision",
           "gate"}
Codes == {"duplicate", "future", "early", "ratio"}
Verdicts == {"approved", "rejected", "under_review"}
Recommendations == {"auto_approve", "escalate", "auto_reject"}

-----------------------------------------------------------------------------
(* app/rating.py.                                                          *)

AtMost(n, cap) == IF n > cap THEN cap ELSE n

WithinLimits(p, amount) == amount <= p.limit - p.deductible

Payout(p, amount) ==
  LET payout == (IF WithinLimits(p, amount) THEN amount ELSE p.limit)
                  - p.deductible
  IN  IF payout < 0 THEN 0 ELSE payout

BaseScore(p, amount) == 5 + (AtMost(amount, p.limit) * 10) \div p.limit

ConsistencyPoints(consistency) ==
  CASE consistency = "contradicts" -> 20
    [] consistency = "partially_consistent" -> 10
    [] OTHER -> 0

RedFlagPointsUncounted(n) == IF n <= 3 THEN 8 * n ELSE 0

RedFlagPoints(n) == 8 * AtMost(n, 3)

Points(holds, points) == IF holds THEN points ELSE 0

FraudPoints(codes) ==
  AtMost(  Points("duplicate" \in codes, 20) + Points("future" \in codes, 20)
         + Points("early" \in codes, 10) + Points("ratio" \in codes, 10), 40)

Barred(p) == p.status \in {"expired", "suspended"}

Covers(p, incident) == TypeOf[incident] \in p.covered

\* The facts a claim is scored on.
Facts(c) == [incident |-> intake[c].incident, amount |-> intake[c].amount,
             frequent |-> frequent[c], flags |-> flags[c],
             consistency |-> documents[c].consistency,
             redFlags |-> documents[c].redFlags]

Score(p, f) ==
  AtMost(  BaseScore(p, f.amount)
         + Points(Barred(p), 40)
         + Points(~Covers(p, f.incident), 35)
         + Points(~WithinLimits(p, f.amount), 25)
         + Points(f.frequent, 25)
         + ConsistencyPoints(f.consistency)
         + RedFlagPoints(f.redFlags)
         + FraudPoints(f.flags), 100)

Recommendation(p, f) ==
  IF ~Covers(p, f.incident) \/ Barred(p) \/ Score(p, f) >= 70 THEN "auto_reject"
  ELSE IF Score(p, f) >= 30 THEN "escalate" ELSE "auto_approve"

Eligible(p, f) ==
  p.status = "active" /\ Covers(p, f.incident) /\ WithinLimits(p, f.amount)

-----------------------------------------------------------------------------
(* app/fraud.py and the reads of the claims collection.                    *)

\* Claims the policy has had in the last year, the one under evaluation
\* among them: its row was written when it was submitted.
ClaimsOnPolicy ==
  Cardinality(prior) + Cardinality({d \in Claims : row[d].status # "none"})

HasTwin(c) ==
  \/ intake[c].incident \in prior
  \/ \E d \in Claims \ {c} : row[d].incident = intake[c].incident

FraudFlags(c) ==
  LET date == DateOf[intake[c].incident]
  IN  {code \in Codes :
         CASE code = "duplicate" -> HasTwin(c)
           [] code = "future" -> date > Today
           [] code = "early" -> date < policy.start
           [] code = "ratio" -> intake[c].amount >= policy.limit}

-----------------------------------------------------------------------------
(* app/stp.py.                                                             *)

LowSeverity(c) ==
  TypeOf[intake[c].incident] \in LowTypes /\ intake[c].amount <= LowAmount

CleanUnlessIneligible(c) ==
  /\ eligibility[c].recommendation = "auto_approve"
  /\ ~eligibility[c].indicated

CleanEligibility(c) ==
  /\ eligibility[c].eligible
  /\ eligibility[c].recommendation = "auto_approve"
  /\ ~eligibility[c].indicated

Finalizes(c) ==
  decision[c].confidence >= Threshold /\ LowSeverity(c) /\ CleanEligibility(c)

-----------------------------------------------------------------------------
(* The system.                                                             *)

TypeOK ==
  /\ policy \in Policies \cup {NoPolicy} /\ prior \in Priors
  /\ row \in [Claims -> [status : {"none", "pending", "failed", "escalated",
                                   "auto_approved"},
                         incident : Incidents \cup {Blank}]]
  /\ filed \in [Claims -> Incidents \cup {Blank}]
  /\ at \in [Claims -> Stages]
  /\ phase \in [Claims -> {"new", "running", "saving", "done"}]
  /\ outcome \in [Claims -> {"none", "pending", "failed", "escalated",
                             "auto_approved"}]
  /\ intake \in [Claims -> [incident : Incidents \cup {Blank},
                            amount : Amounts \cup {0}]]
  /\ frequent \in [Claims -> BOOLEAN]
  /\ documents \in [Claims -> [consistency : Consistency, redFlags : Nat]]
  /\ flags \in [Claims -> SUBSET Codes]
  /\ eligibility \in [Claims -> [score : 0..100, eligible : BOOLEAN,
                                 recommendation : Recommendations,
                                 indicated : BOOLEAN]]
  /\ decision \in [Claims -> [verdict : Verdicts, payout : Nat,
                              confidence : 0..100, template : BOOLEAN]]
  /\ retries \in 0..MaxRetries

Init ==
  /\ policy \in Policies \cup {NoPolicy} /\ prior \in Priors
  /\ row = [c \in Claims |-> [status |-> "none", incident |-> Blank]]
  /\ filed = [c \in Claims |-> Blank]
  /\ at = [c \in Claims |-> "intake"] /\ phase = [c \in Claims |-> "new"]
  /\ outcome = [c \in Claims |-> "none"]
  /\ intake = [c \in Claims |-> [incident |-> Blank, amount |-> 0]]
  /\ frequent = [c \in Claims |-> FALSE]
  /\ documents = [c \in Claims |-> [consistency |-> "no_documents",
                                    redFlags |-> 0]]
  /\ flags = [c \in Claims |-> {}]
  /\ eligibility = [c \in Claims |->
       [score |-> 0, eligible |-> FALSE, recommendation |-> "escalate",
        indicated |-> FALSE]]
  /\ decision = [c \in Claims |->
       [verdict |-> "under_review", payout |-> 0, confidence |-> 0,
        template |-> FALSE]]
  /\ retries = 0

SubmitUnrecorded(c) ==
  /\ phase[c] = "new"
  /\ \E i \in Incidents : filed' = [filed EXCEPT ![c] = i]
  /\ phase' = [phase EXCEPT ![c] = "running"]
  /\ UNCHANGED <<policy, prior, row, at, outcome, outputs, retries>>

\* submit_claim: the row is born before the run is queued, spelled like the
\* form and without a fingerprint.
Submit(c) ==
  /\ phase[c] = "new"
  /\ \E i \in Incidents :
       /\ filed' = [filed EXCEPT ![c] = i]
       /\ row' = [row EXCEPT ![c] = [status |-> "pending", incident |-> i]]
  /\ phase' = [phase EXCEPT ![c] = "running"]
  /\ UNCHANGED <<policy, prior, at, outcome, outputs, retries>>

Running(c, stage) == phase[c] = "running" /\ at[c] = stage

\* The stage is checkpointed and the next one is due.
GoOn(c, stage) ==
  at' = [at EXCEPT ![c] = stage] /\ UNCHANGED <<phase, outcome>>

\* The run is over but for its row.
Conclude(c, status) ==
  /\ outcome' = [outcome EXCEPT ![c] = status]
  /\ phase' = [phase EXCEPT ![c] = "saving"]
  /\ UNCHANGED at

\* The model spells the incident its way, or loses it or the amount; code
\* decides validity.
Intake(c) ==
  /\ Running(c, "intake")
  /\ \E incident \in {i \in Incidents : <<filed[c], i>> \in Readings} \cup {Blank},
        amount \in Amounts \cup {0} :
       /\ intake' = [intake EXCEPT ![c] = [incident |-> incident,
                                           amount |-> amount]]
       /\ IF incident # Blank /\ amount > 0 THEN GoOn(c, "policy")
                                            ELSE Conclude(c, "pending")
  /\ UNCHANGED <<inputs, row, frequent, documents, flags, eligibility, decision,
                 retries>>

Policy(c) ==
  /\ Running(c, "policy")
  /\ IF policy = NoPolicy
     THEN Conclude(c, "pending") /\ UNCHANGED frequent
     ELSE /\ frequent' = [frequent EXCEPT ![c] = ClaimsOnPolicy >= 3]
          /\ GoOn(c, "documents")
  /\ UNCHANGED <<inputs, row, intake, documents, flags, eligibility, decision,
                 retries>>

Documents(c) ==
  /\ Running(c, "documents")
  /\ \E verdict \in Evidence : documents' = [documents EXCEPT ![c] = verdict]
  /\ GoOn(c, "fraud")
  /\ UNCHANGED <<inputs, row, intake, frequent, flags, eligibility, decision,
                 retries>>

\* The similarity judgment is recorded and scores nothing; its failure does
\* not fail the stage.
Fraud(c) ==
  /\ Running(c, "fraud")
  /\ flags' = [flags EXCEPT ![c] = FraudFlags(c)]
  /\ GoOn(c, "eligibility")
  /\ UNCHANGED <<inputs, row, intake, frequent, documents, eligibility, decision,
                 retries>>

\* The model contributes its fraud indicators; the rest is computed.
Eligibility(c) ==
  /\ Running(c, "eligibility")
  /\ \E indicated \in BOOLEAN :
       eligibility' = [eligibility EXCEPT ![c] =
         [score |-> Score(policy, Facts(c)),
          eligible |-> Eligible(policy, Facts(c)),
          recommendation |-> Recommendation(policy, Facts(c)),
          indicated |-> indicated]]
  /\ GoOn(c, "decision")
  /\ UNCHANGED <<inputs, row, intake, frequent, documents, flags, decision,
                 retries>>

VerdictFor(recommendation) ==
  CASE recommendation = "auto_approve" -> "approved"
    [] recommendation = "auto_reject" -> "rejected"
    [] OTHER -> "under_review"

\* The model's letter, or the template when it refuses twice or no letter
\* without jargon comes in two attempts.
Decide(c) ==
  /\ Running(c, "decision")
  /\ \E template \in BOOLEAN, confidence \in Confidences :
       decision' = [decision EXCEPT ![c] =
         [verdict |-> VerdictFor(eligibility[c].recommendation),
          payout |-> Payout(policy, intake[c].amount),
          confidence |-> IF template THEN 0 ELSE confidence,
          template |-> template]]
  /\ GoOn(c, "gate")
  /\ UNCHANGED <<inputs, row, intake, frequent, documents, flags, eligibility,
                 retries>>

Gate(c) ==
  /\ Running(c, "gate")
  /\ Conclude(c, IF Finalizes(c) THEN "auto_approved" ELSE "escalated")
  /\ UNCHANGED <<inputs, row, outputs, retries>>

\* An agent raises: its model was exhausted, or refused twice.
Fail(c) ==
  /\ phase[c] = "running" /\ at[c] # "gate"
  /\ Conclude(c, "failed")
  /\ UNCHANGED <<inputs, row, outputs, retries>>

\* _save_claim: the row as the run knows it, with the intake's spelling.  The
\* fingerprint is of that spelling, or absent if the fraud stage was not
\* reached, and then made of the saved fields when it is looked for.
Save(c) ==
  /\ phase[c] = "saving"
  /\ row' = [row EXCEPT ![c] = [status |-> outcome[c],
                                incident |-> intake[c].incident]]
  /\ phase' = [phase EXCEPT ![c] = "done"]
  /\ UNCHANGED <<inputs, at, outcome, outputs, retries>>

\* enqueue_claim_run for a failed claim: the next attempt goes on from the
\* checkpoints.
Retry(c) ==
  /\ phase[c] = "done" /\ outcome[c] = "failed"
  /\ retries < MaxRetries
  /\ retries' = retries + 1
  /\ phase' = [phase EXCEPT ![c] = "running"]
  /\ outcome' = [outcome EXCEPT ![c] = "none"]
  /\ UNCHANGED <<inputs, row, at, outputs>>

Next ==
  \E c \in Claims :
    \/ Submit(c) \/ Intake(c) \/ Policy(c) \/ Documents(c) \/ Fraud(c)
    \/ Eligibility(c) \/ Decide(c) \/ Gate(c) \/ Fail(c) \/ Save(c) \/ Retry(c)

Spec == Init /\ [][Next]_vars

-----------------------------------------------------------------------------
(* Properties.                                                             *)

\* Whatever the models answer, a claim is paid without a human only when the
\* policy is active, covers it and can pay it, severity is low, claims are not
\* frequent, no two grave fraud flags stand, and the letter is a model's
\* approval of a payout within the claim and the cover.
AutoApprovalIsSound ==
  \A c \in Claims : outcome[c] = "auto_approved" =>
    /\ policy # NoPolicy
    /\ policy.status = "active" /\ Covers(policy, intake[c].incident)
    /\ LowSeverity(c)
    /\ ~frequent[c] /\ ~({"duplicate", "future"} \subseteq flags[c])
    /\ decision[c].verdict = "approved" /\ ~decision[c].template
    /\ decision[c].payout <= intake[c].amount
    /\ decision[c].payout + policy.deductible <= policy.limit

Ranks == [auto_approve |-> 0, escalate |-> 1, auto_reject |-> 2]

\* Nothing in f counts for more than it does in g.
NoWorse(f, g) ==
  /\ TypeOf[f.incident] = TypeOf[g.incident] /\ f.amount <= g.amount
  /\ f.frequent => g.frequent
  /\ ConsistencyPoints(f.consistency) <= ConsistencyPoints(g.consistency)
  /\ f.redFlags <= g.redFlags /\ f.flags \subseteq g.flags

\* Of two claims on a policy, the one with everything at least as bad never
\* scores lower, nor is it routed more leniently.
RoutingIsMonotone ==
  \A c, d \in Claims :
    {at[c], at[d]} \subseteq {"decision", "gate"} /\ NoWorse(Facts(c), Facts(d))
      => /\ eligibility[c].score <= eligibility[d].score
         /\ Ranks[eligibility[c].recommendation]
              <= Ranks[eligibility[d].recommendation]

\* A fraud check flags the claim if another on the policy was read as the same
\* incident and its run is over, or is under way for the first time and its
\* form was spelled as the intake reads it (the wizard offers only such types).
\* So of two such claims the one checked last is flagged, in whatever order
\* submissions, stages and saves come.
DuplicatesAreFlagged ==
  [][\A c \in Claims : \A d \in Claims \ {c} :
       (/\ at[c] = "fraud" /\ at'[c] = "eligibility"
        /\ at[d] # "intake" /\ intake[d].incident = intake[c].incident
        /\ \/ phase[d] = "done"
           \/ retries = 0 /\ filed[d] = intake[d].incident)
         => "duplicate" \in flags'[c]]_vars

\* fraud.py: the fingerprint is normalized "so formatting variance cannot
\* dodge the match".  Then, of two claims read as the same incident, at least
\* one would be flagged however the forms were spelled.
VarianceCannotDodge ==
  retries = 0 =>
    \A c \in Claims : \A d \in Claims \ {c} :
      (/\ {at[c], at[d]} \subseteq {"eligibility", "decision", "gate"}
       /\ intake[c].incident = intake[d].incident)
        => "duplicate" \in flags[c] \cup flags[d]

\* user-guide.md: auto-reject is forced when "the policy was expired or
\* suspended on the incident date".
ExpiredIsRejected ==
  \A c \in Claims :
    at[c] \in {"decision", "gate"} /\ DateOf[intake[c].incident] > policy.end
      => eligibility[c].recommendation = "auto_reject"

=============================================================================
