--------------------------- MODULE AdjudicationProofs ---------------------------
(***************************************************************************)
(* AutoApprovalIsSound, RoutingIsMonotone and DuplicatesAreFlagged for any *)
(* number of claims, any policy, any amounts and any answers of the        *)
(* models.                                                                 *)
(*                                                                         *)
(* What the gate tests was written by earlier stages, so the invariant     *)
(* says, claim by claim, what each stage has left behind by the time the   *)
(* next one is due.  Routing is monotone because every part of the score   *)
(* is.  Duplicates are flagged because a row tells what its claim's intake *)
(* read, once saved, and from the start if the form spelled it so.         *)
(***************************************************************************)
EXTENDS Adjudication, TLAPS

Judged(c) ==
  /\ eligibility[c].score = Score(policy, Facts(c))
  /\ eligibility[c].eligible = Eligible(policy, Facts(c))
  /\ eligibility[c].recommendation = Recommendation(policy, Facts(c))

Decided(c) ==
  /\ decision[c].verdict = VerdictFor(eligibility[c].recommendation)
  /\ decision[c].payout = Payout(policy, intake[c].amount)
  /\ decision[c].template => decision[c].confidence = 0

\* What holds of a claim at each stage.
Progress(c) ==
  /\ at[c] # "intake" => /\ intake[c].incident \in Incidents
                         /\ intake[c].amount \in Amounts
  /\ at[c] \notin {"intake", "policy"} => policy \in Policies
  /\ at[c] \in {"decision", "gate"} => Judged(c)
  /\ at[c] = "gate" => Decided(c)
  /\ phase[c] \in {"new", "running"} => outcome[c] = "none"
  /\ phase[c] = "new" => at[c] = "intake"
  /\ outcome[c] = "auto_approved" => at[c] = "gate" /\ Finalizes(c)

AdjudicationInv == TypeOK /\ \A c \in Claims : Progress(c)

\* A step that touches nothing of a claim keeps what is known of it.
LEMMA ProgressStays ==
  ASSUME NEW c \in Claims, Progress(c),
         UNCHANGED <<policy, at[c], phase[c], outcome[c], intake[c], frequent[c],
                     documents[c], flags[c], eligibility[c], decision[c]>>
  PROVE  Progress(c)'
<1>1. Facts(c)' = Facts(c)
  BY DEF Facts
<1>2. Judged(c)' = Judged(c)
  BY <1>1 DEF Judged, Score, Eligible, Recommendation, BaseScore, Barred, Covers,
              WithinLimits
<1>3. Decided(c)' = Decided(c)
  BY DEF Decided, Payout, WithinLimits, VerdictFor
<1>4. Finalizes(c)' = Finalizes(c)
  BY DEF Finalizes, LowSeverity, CleanEligibility
<1> QED
  BY <1>2, <1>3, <1>4 DEF Progress

\* A claim scores at least its base, which is no less than 5.
LEMMA BaseScoreBound ==
  ASSUME NEW p \in Policies, NEW amount \in Nat
  PROVE  BaseScore(p, amount) \in Nat /\ BaseScore(p, amount) >= 5
<1>1. p.limit \in Nat \ {0}
  BY AdjudicationAssumption
<1>2. AtMost(amount, p.limit) * 10 \in Nat
  BY <1>1 DEF AtMost
<1>3. (AtMost(amount, p.limit) * 10) \div p.limit \in Nat
  BY <1>1, <1>2
<1> QED
  BY <1>3 DEF BaseScore

FactRecord == [incident : Incidents, amount : Amounts, frequent : BOOLEAN,
               flags : SUBSET Codes, consistency : Consistency, redFlags : Nat]

\* The score is between 0 and 100; with frequent claims, or with two grave
\* fraud flags, it is at least 30.
LEMMA ScoreBounds ==
  ASSUME NEW p \in Policies, NEW f \in FactRecord
  PROVE  /\ Score(p, f) \in 0..100
         /\ f.frequent => Score(p, f) >= 30
         /\ {"duplicate", "future"} \subseteq f.flags => Score(p, f) >= 30
<1> DEFINE base == BaseScore(p, f.amount)
           barred == Points(Barred(p), 40)
           uncovered == Points(~Covers(p, f.incident), 35)
           over == Points(~WithinLimits(p, f.amount), 25)
           frequency == Points(f.frequent, 25)
           consistency == ConsistencyPoints(f.consistency)
           red == RedFlagPoints(f.redFlags)
           fraud == FraudPoints(f.flags)
<1>1. base \in Nat /\ base >= 5
  BY BaseScoreBound, AdjudicationAssumption DEF FactRecord
<1>2. barred \in Nat /\ uncovered \in Nat /\ over \in Nat
  BY DEF Points
<1>3. frequency \in Nat /\ (f.frequent => frequency = 25)
  BY DEF Points
<1>4. consistency \in Nat
  BY DEF ConsistencyPoints
<1>5. red \in Nat
  BY DEF RedFlagPoints, AtMost, FactRecord
<1>6. fraud \in Nat /\ ({"duplicate", "future"} \subseteq f.flags => fraud >= 40)
  BY DEF FraudPoints, AtMost, Points
<1>7. Score(p, f) = AtMost(base + barred + uncovered + over + frequency
                             + consistency + red + fraud, 100)
  BY DEF Score
<1> HIDE DEF base, barred, uncovered, over, frequency, consistency, red, fraud
<1> QED
  BY <1>1, <1>2, <1>3, <1>4, <1>5, <1>6, <1>7 DEF AtMost

\* A payout is a natural number; within limits it is no more than the claim,
\* and with the deductible no more than the limit.
LEMMA PayoutBounds ==
  ASSUME NEW p \in Policies, NEW amount \in Nat
  PROVE  /\ Payout(p, amount) \in Nat
         /\ WithinLimits(p, amount) =>
              /\ Payout(p, amount) <= amount
              /\ Payout(p, amount) + p.deductible <= p.limit
<1>1. p.limit \in Nat /\ p.deductible \in Nat
  BY AdjudicationAssumption
<1> QED
  BY <1>1 DEF Payout, WithinLimits

\* The facts of a claim past the document stage are well-formed.
LEMMA FactsTyped ==
  ASSUME TypeOK, NEW c \in Claims,
         intake[c].incident \in Incidents, intake[c].amount \in Amounts
  PROVE  Facts(c) \in FactRecord
  BY DEF TypeOK, Facts, FactRecord

\* What the gate lets through, and the stages before it left, is sound.
LEMMA InvImpliesSound ==
  AdjudicationInv => AutoApprovalIsSound
<1> SUFFICES ASSUME AdjudicationInv, NEW c \in Claims,
                    outcome[c] = "auto_approved"
             PROVE  AutoApprovalIsSound!(c)!2
  BY DEF AutoApprovalIsSound
<1> USE AdjudicationAssumption
<1>1. TypeOK /\ at[c] = "gate" /\ Finalizes(c) /\ Judged(c) /\ Decided(c)
  BY DEF AdjudicationInv, Progress
<1>2. /\ intake[c].incident \in Incidents /\ intake[c].amount \in Amounts
      /\ policy \in Policies /\ policy # NoPolicy
  BY <1>1 DEF AdjudicationInv, Progress
<1> DEFINE f == Facts(c)
<1>3. f \in FactRecord
  BY <1>1, <1>2, FactsTyped
<1>4. f.incident = intake[c].incident /\ f.amount = intake[c].amount
      /\ f.frequent = frequent[c] /\ f.flags = flags[c]
  BY DEF Facts
<1>5. Eligible(policy, f) /\ Recommendation(policy, f) = "auto_approve"
  BY <1>1 DEF Finalizes, CleanEligibility, Judged
<1> HIDE DEF f
<1>6. ~(Score(policy, f) >= 30)
  BY <1>2, <1>3, <1>5, ScoreBounds DEF Recommendation
<1>7. ~frequent[c] /\ ~({"duplicate", "future"} \subseteq flags[c])
  BY <1>2, <1>3, <1>4, <1>6, ScoreBounds
<1>8. policy.status = "active" /\ Covers(policy, intake[c].incident)
      /\ WithinLimits(policy, intake[c].amount)
  BY <1>4, <1>5 DEF Eligible
<1>9. /\ decision[c].payout <= intake[c].amount
      /\ decision[c].payout + policy.deductible <= policy.limit
  <2>1. intake[c].amount \in Nat
    BY <1>2
  <2>2. decision[c].payout = Payout(policy, intake[c].amount)
    BY <1>1 DEF Decided
  <2> QED
    BY <1>2, <1>8, <2>1, <2>2, PayoutBounds
<1>10. decision[c].verdict = "approved"
  BY <1>1 DEF Decided, Finalizes, CleanEligibility, VerdictFor
<1>11. ~decision[c].template
  BY <1>1 DEF Decided, Finalizes
<1> QED
  BY <1>1, <1>2, <1>7, <1>8, <1>9, <1>10, <1>11 DEF Finalizes

\* A step of one claim that keeps everything of the others.
LEMMA OthersStay ==
  ASSUME AdjudicationInv, NEW c \in Claims,
         UNCHANGED policy,
         \A d \in Claims \ {c} :
           UNCHANGED <<at[d], phase[d], outcome[d], intake[d], frequent[d],
                       documents[d], flags[d], eligibility[d], decision[d]>>,
         TypeOK', Progress(c)'
  PROVE  AdjudicationInv'
<1>1. ASSUME NEW d \in Claims \ {c} PROVE Progress(d)'
  BY <1>1, ProgressStays DEF AdjudicationInv
<1> QED
  BY <1>1 DEF AdjudicationInv

\* Before anything is submitted the invariant holds.
LEMMA AdjudicationInit ==
  Init => AdjudicationInv
<1> SUFFICES ASSUME Init PROVE AdjudicationInv
  OBVIOUS
<1> USE AdjudicationAssumption DEF Init
<1>1. TypeOK
  BY DEF TypeOK, Stages, Codes, Verdicts, Recommendations, Consistency
<1>2. ASSUME NEW c \in Claims PROVE Progress(c)
  BY DEF Progress
<1> QED
  BY <1>1, <1>2 DEF AdjudicationInv

\* A submission starts a run and nothing else.
LEMMA SubmitKeeps ==
  ASSUME AdjudicationInv, NEW c \in Claims, Submit(c)
  PROVE  AdjudicationInv'
<1> USE AdjudicationAssumption
<1>1. TypeOK'
  BY DEF AdjudicationInv, TypeOK, Submit, inputs, outputs
<1>2. Progress(c)'
  BY DEF AdjudicationInv, Progress, TypeOK, Submit, inputs, outputs
<1> QED
  BY <1>1, <1>2, OthersStay DEF AdjudicationInv, TypeOK, Submit, inputs, outputs

Statuses == {"none", "pending", "failed", "escalated", "auto_approved"}
Phases == {"new", "running", "saving", "done"}

\* What going on to a stage or concluding with a status does to a run.
LEMMA RunMoves ==
  ASSUME TypeOK, NEW c \in Claims, NEW stage \in Stages, NEW status \in Statuses
  PROVE  /\ GoOn(c, stage) =>
              /\ at' \in [Claims -> Stages] /\ at'[c] = stage
              /\ \A d \in Claims \ {c} : at'[d] = at[d]
              /\ UNCHANGED <<phase, outcome>>
         /\ Conclude(c, status) =>
              /\ outcome' \in [Claims -> Statuses] /\ outcome'[c] = status
              /\ phase' \in [Claims -> Phases] /\ phase'[c] = "saving"
              /\ \A d \in Claims \ {c} :
                   outcome'[d] = outcome[d] /\ phase'[d] = phase[d]
              /\ UNCHANGED at
<1>1. ASSUME GoOn(c, stage)
      PROVE  /\ at' \in [Claims -> Stages] /\ at'[c] = stage
             /\ \A d \in Claims \ {c} : at'[d] = at[d]
             /\ UNCHANGED <<phase, outcome>>
  BY <1>1 DEF TypeOK, GoOn
<1>2. ASSUME Conclude(c, status)
      PROVE  /\ outcome' \in [Claims -> Statuses] /\ outcome'[c] = status
             /\ phase' \in [Claims -> Phases] /\ phase'[c] = "saving"
             /\ \A d \in Claims \ {c} :
                  outcome'[d] = outcome[d] /\ phase'[d] = phase[d]
             /\ UNCHANGED at
  <2>1. outcome \in [Claims -> Statuses] /\ phase \in [Claims -> Phases]
    BY DEF TypeOK, Statuses, Phases
  <2>2. "saving" \in Phases
    BY DEF Phases
  <2> QED
    BY <1>2, <2>1, <2>2 DEF Conclude
<1> QED
  BY <1>1, <1>2

\* The intake stage leaves an incident and an amount, or ends the run.
LEMMA IntakeKeeps ==
  ASSUME AdjudicationInv, NEW c \in Claims, Intake(c)
  PROVE  AdjudicationInv'
<1> USE AdjudicationAssumption
<1>1. TypeOK /\ Progress(c) /\ at[c] = "intake" /\ phase[c] = "running"
  BY DEF AdjudicationInv, Intake, Running
<1>2. PICK incident \in {i \in Incidents : <<filed[c], i>> \in Readings}
                          \cup {Blank},
           amount \in Amounts \cup {0} :
        /\ intake' = [intake EXCEPT ![c] = [incident |-> incident,
                                           amount |-> amount]]
        /\ IF incident # Blank /\ amount > 0 THEN GoOn(c, "policy")
                                             ELSE Conclude(c, "pending")
  BY DEF Intake
<1>3. UNCHANGED <<policy, prior, filed, row, frequent, documents, flags,
                  eligibility, decision, retries>>
  BY DEF Intake, inputs
<1>4. /\ intake' \in [Claims -> [incident : Incidents \cup {Blank},
                                 amount : Amounts \cup {0}]]
      /\ intake'[c] = [incident |-> incident, amount |-> amount]
      /\ \A d \in Claims \ {c} : intake'[d] = intake[d]
  BY <1>1, <1>2 DEF TypeOK
<1>5. CASE GoOn(c, "policy") /\ incident # Blank /\ amount > 0
  <2>1. /\ at' \in [Claims -> Stages] /\ at'[c] = "policy"
        /\ \A d \in Claims \ {c} : at'[d] = at[d]
        /\ UNCHANGED <<phase, outcome>>
    BY <1>1, <1>5, RunMoves DEF Stages, Statuses
  <2>2. TypeOK'
    BY <1>1, <1>3, <1>4, <2>1 DEF TypeOK
  <2>3. incident \in Incidents /\ amount \in Amounts
    BY <1>1, <1>5 DEF TypeOK
  <2>4. Progress(c)'
    BY <1>1, <1>4, <2>1, <2>3 DEF Progress
  <2> QED
    BY <1>3, <1>4, <2>1, <2>2, <2>4, OthersStay
<1>6. CASE Conclude(c, "pending")
  <2>1. /\ outcome' \in [Claims -> Statuses] /\ outcome'[c] = "pending"
        /\ phase' \in [Claims -> Phases] /\ phase'[c] = "saving"
        /\ \A d \in Claims \ {c} :
             outcome'[d] = outcome[d] /\ phase'[d] = phase[d]
        /\ UNCHANGED at
    BY <1>1, <1>6, RunMoves DEF Stages, Statuses
  <2>2. TypeOK'
    BY <1>1, <1>3, <1>4, <2>1 DEF TypeOK, Statuses, Phases
  <2>3. Progress(c)'
    BY <1>1, <2>1 DEF Progress
  <2> QED
    BY <1>3, <1>4, <2>1, <2>2, <2>3, OthersStay
<1> QED
  BY <1>2, <1>5, <1>6

\* The policy stage goes on only with a policy.
LEMMA PolicyKeeps ==
  ASSUME AdjudicationInv, NEW c \in Claims, Policy(c)
  PROVE  AdjudicationInv'
<1> USE AdjudicationAssumption
<1>1. TypeOK /\ Progress(c) /\ at[c] = "policy" /\ phase[c] = "running"
  BY DEF AdjudicationInv, Policy, Running
<1>2. UNCHANGED <<policy, prior, filed, row, intake, documents, flags,
                  eligibility, decision, retries>>
  BY DEF Policy, inputs
<1>3. CASE policy = NoPolicy
  <2>1. UNCHANGED frequent
    BY <1>3 DEF Policy
  <2>2. /\ outcome' \in [Claims -> Statuses] /\ outcome'[c] = "pending"
        /\ phase' \in [Claims -> Phases] /\ phase'[c] = "saving"
        /\ \A d \in Claims \ {c} :
             outcome'[d] = outcome[d] /\ phase'[d] = phase[d]
        /\ UNCHANGED at
    BY <1>1, <1>3, RunMoves DEF Policy, Stages, Statuses
  <2>3. TypeOK'
    BY <1>1, <1>2, <2>1, <2>2 DEF TypeOK, Statuses, Phases
  <2>4. Progress(c)'
    BY <1>1, <1>2, <2>2 DEF Progress
  <2> QED
    BY <1>2, <2>1, <2>2, <2>3, <2>4, OthersStay
<1>4. CASE policy # NoPolicy
  <2>1. frequent' = [frequent EXCEPT ![c] = ClaimsOnPolicy >= 3]
    BY <1>4 DEF Policy
  <2>2. /\ frequent' \in [Claims -> BOOLEAN]
        /\ \A d \in Claims \ {c} : frequent'[d] = frequent[d]
    BY <1>1, <2>1 DEF TypeOK
  <2>3. /\ at' \in [Claims -> Stages] /\ at'[c] = "documents"
        /\ \A d \in Claims \ {c} : at'[d] = at[d]
        /\ UNCHANGED <<phase, outcome>>
    BY <1>1, <1>4, RunMoves DEF Policy, Stages, Statuses
  <2>4. TypeOK'
    BY <1>1, <1>2, <2>2, <2>3 DEF TypeOK
  <2>5. Progress(c)'
    BY <1>1, <1>2, <1>4, <2>3 DEF Progress, TypeOK
  <2> QED
    BY <1>2, <2>2, <2>3, <2>4, <2>5, OthersStay
<1> QED
  BY <1>3, <1>4

\* The document stage leaves a verdict.
LEMMA DocumentsKeeps ==
  ASSUME AdjudicationInv, NEW c \in Claims, Documents(c)
  PROVE  AdjudicationInv'
<1> USE AdjudicationAssumption
<1>1. TypeOK'
  BY DEF AdjudicationInv, TypeOK, Documents, Running, GoOn, inputs, Stages
<1>2. Progress(c)'
  BY DEF AdjudicationInv, Progress, TypeOK, Documents, Running, GoOn, inputs
<1> QED
  BY <1>1, <1>2, OthersStay
     DEF AdjudicationInv, TypeOK, Documents, Running, GoOn, inputs

\* The fraud stage leaves flags.
LEMMA FraudKeeps ==
  ASSUME AdjudicationInv, NEW c \in Claims, Fraud(c)
  PROVE  AdjudicationInv'
<1> USE AdjudicationAssumption
<1>1. FraudFlags(c) \subseteq Codes
  BY DEF FraudFlags
<1>2. TypeOK'
  BY <1>1 DEF AdjudicationInv, TypeOK, Fraud, Running, GoOn, inputs, Stages
<1>3. Progress(c)'
  BY DEF AdjudicationInv, Progress, TypeOK, Fraud, Running, GoOn, inputs
<1> QED
  BY <1>2, <1>3, OthersStay
     DEF AdjudicationInv, TypeOK, Fraud, Running, GoOn, inputs

\* The eligibility stage leaves what the facts compute to.
LEMMA EligibilityKeeps ==
  ASSUME AdjudicationInv, NEW c \in Claims, Eligibility(c)
  PROVE  AdjudicationInv'
<1> USE AdjudicationAssumption
<1>1. TypeOK /\ at[c] = "eligibility" /\ phase[c] = "running"
      /\ outcome[c] = "none" /\ policy \in Policies
      /\ intake[c].incident \in Incidents /\ intake[c].amount \in Amounts
  BY DEF AdjudicationInv, Progress, Eligibility, Running
<1>2. PICK indicated \in BOOLEAN :
        eligibility' = [eligibility EXCEPT ![c] =
          [score |-> Score(policy, Facts(c)),
           eligible |-> Eligible(policy, Facts(c)),
           recommendation |-> Recommendation(policy, Facts(c)),
           indicated |-> indicated]]
  BY DEF Eligibility
<1>3. /\ at' = [at EXCEPT ![c] = "decision"]
      /\ UNCHANGED <<policy, prior, filed, row, phase, outcome, intake, frequent,
                     documents, flags, decision, retries>>
  BY DEF Eligibility, GoOn, inputs
<1>4. Score(policy, Facts(c)) \in 0..100
  BY <1>1, FactsTyped, ScoreBounds
<1>5. Eligible(policy, Facts(c)) \in BOOLEAN
  BY DEF Eligible
<1>6. Recommendation(policy, Facts(c)) \in Recommendations
  BY DEF Recommendation, Recommendations
<1>7. TypeOK'
  BY <1>1, <1>2, <1>3, <1>4, <1>5, <1>6 DEF TypeOK, Stages
<1>8. Judged(c)'
  <2>1. Facts(c)' = Facts(c) /\ policy' = policy
    BY <1>3 DEF Facts
  <2>2. eligibility'[c] = [score |-> Score(policy, Facts(c)),
           eligible |-> Eligible(policy, Facts(c)),
           recommendation |-> Recommendation(policy, Facts(c)),
           indicated |-> indicated]
    BY <1>1, <1>2 DEF TypeOK
  <2> QED
    BY <2>1, <2>2 DEF Judged, Score, Eligible, Recommendation, BaseScore, Barred,
                      Covers, WithinLimits
<1>9. Progress(c)'
  BY <1>1, <1>3, <1>8 DEF Progress, TypeOK
<1> QED
  BY <1>1, <1>2, <1>3, <1>7, <1>9, OthersStay DEF TypeOK

\* The decision stage leaves the verdict and payout of the code.
LEMMA DecideKeeps ==
  ASSUME AdjudicationInv, NEW c \in Claims, Decide(c)
  PROVE  AdjudicationInv'
<1> USE AdjudicationAssumption
<1>1. TypeOK /\ at[c] = "decision" /\ phase[c] = "running"
      /\ outcome[c] = "none" /\ policy \in Policies /\ Judged(c)
      /\ intake[c].incident \in Incidents /\ intake[c].amount \in Amounts
  BY DEF AdjudicationInv, Progress, Decide, Running
<1>2. PICK template \in BOOLEAN, confidence \in Confidences :
        decision' = [decision EXCEPT ![c] =
          [verdict |-> VerdictFor(eligibility[c].recommendation),
           payout |-> Payout(policy, intake[c].amount),
           confidence |-> IF template THEN 0 ELSE confidence,
           template |-> template]]
  BY DEF Decide
<1>3. /\ at' = [at EXCEPT ![c] = "gate"]
      /\ UNCHANGED <<policy, prior, filed, row, phase, outcome, intake, frequent,
                     documents, flags, eligibility, retries>>
  BY DEF Decide, GoOn, inputs
<1>4. Payout(policy, intake[c].amount) \in Nat
  BY <1>1, PayoutBounds
<1>5. VerdictFor(eligibility[c].recommendation) \in Verdicts
  BY DEF VerdictFor, Verdicts
<1>6. (IF template THEN 0 ELSE confidence) \in 0..100
  OBVIOUS
<1>7. TypeOK'
  BY <1>1, <1>2, <1>3, <1>4, <1>5, <1>6 DEF TypeOK, Stages
<1>8. Judged(c)'
  <2>1. Facts(c)' = Facts(c) /\ policy' = policy
    BY <1>3 DEF Facts
  <2> QED
    BY <1>1, <1>3, <2>1
       DEF Judged, Score, Eligible, Recommendation, BaseScore, Barred, Covers,
           WithinLimits
<1>9. Decided(c)'
  BY <1>1, <1>2, <1>3 DEF Decided, TypeOK, Payout, WithinLimits, VerdictFor
<1>10. Progress(c)'
  BY <1>1, <1>3, <1>8, <1>9 DEF Progress, TypeOK
<1> QED
  BY <1>1, <1>2, <1>3, <1>7, <1>10, OthersStay DEF TypeOK

\* A step that leaves every output alone keeps what the stages left.
LEMMA OutputsStay ==
  ASSUME NEW c \in Claims, UNCHANGED <<inputs, outputs>>
  PROVE  /\ Judged(c) => Judged(c)'
         /\ Decided(c) => Decided(c)'
         /\ Finalizes(c) => Finalizes(c)'
<1>1. UNCHANGED <<policy, intake, frequent, documents, flags, eligibility,
                  decision>>
  BY DEF inputs, outputs
<1>2. Facts(c)' = Facts(c)
  BY <1>1 DEF Facts
<1> QED
  BY <1>1, <1>2
     DEF Judged, Decided, Finalizes, LowSeverity, CleanEligibility, Score,
         Eligible, Recommendation, BaseScore, Barred, Covers, WithinLimits,
         Payout, VerdictFor

\* The gate, a failure, the save and a retry leave every output alone.
LEMMA ClosingKeeps ==
  ASSUME AdjudicationInv, NEW c \in Claims,
         Gate(c) \/ Fail(c) \/ Save(c) \/ Retry(c)
  PROVE  AdjudicationInv'
<1> USE AdjudicationAssumption
<1>1. UNCHANGED <<inputs, outputs>>
  BY DEF Gate, Fail, Save, Retry
<1>2. UNCHANGED <<policy, prior, filed, intake, frequent, documents, flags,
                  eligibility, decision, at>>
  BY <1>1 DEF inputs, outputs, Gate, Fail, Save, Retry, Conclude
<1>3. TypeOK'
  <2>1. TypeOK
    BY DEF AdjudicationInv
  <2>2. CASE Gate(c) \/ Fail(c)
    <3>1. /\ outcome' \in [Claims -> Statuses]
          /\ phase' \in [Claims -> Phases]
          /\ UNCHANGED <<row, retries>>
      BY <2>1, <2>2, RunMoves DEF Gate, Fail, Stages, Statuses
    <3> QED
      BY <1>2, <2>1, <3>1 DEF TypeOK, Statuses, Phases
  <2>3. CASE Save(c)
    BY <1>2, <2>1, <2>3 DEF TypeOK, Save
  <2>4. CASE Retry(c)
    BY <1>2, <2>1, <2>4 DEF TypeOK, Retry
  <2> QED
    BY <2>2, <2>3, <2>4
<1>4. Progress(c)'
  <2>1. Progress(c) /\ TypeOK
    BY DEF AdjudicationInv
  <2>2. /\ Judged(c) => Judged(c)'
        /\ Decided(c) => Decided(c)'
        /\ Finalizes(c) => Finalizes(c)'
    BY <1>1, OutputsStay
  <2>3. /\ phase'[c] \in {"new", "running"} => outcome'[c] = "none"
        /\ phase'[c] # "new"
        /\ outcome'[c] = "auto_approved" => at[c] = "gate" /\ Finalizes(c)
    BY <2>1 DEF Progress, TypeOK, Gate, Fail, Save, Retry, Conclude, Running
  <2> QED
    BY <1>2, <2>1, <2>2, <2>3 DEF Progress
<1>5. \A d \in Claims \ {c} : phase'[d] = phase[d] /\ outcome'[d] = outcome[d]
  <2>1. TypeOK
    BY DEF AdjudicationInv
  <2>2. CASE Gate(c) \/ Fail(c)
    BY <2>1, <2>2 DEF TypeOK, Gate, Fail, Conclude
  <2>3. CASE Save(c) \/ Retry(c)
    BY <2>1, <2>3 DEF TypeOK, Save, Retry
  <2> QED
    BY <2>2, <2>3
<1> QED
  BY <1>2, <1>3, <1>4, <1>5, OthersStay

\* Every step keeps the invariant.
LEMMA AdjudicationStep ==
  AdjudicationInv /\ [Next]_vars => AdjudicationInv'
<1> SUFFICES ASSUME AdjudicationInv, [Next]_vars PROVE AdjudicationInv'
  OBVIOUS
<1>1. CASE UNCHANGED vars
  <2>1. UNCHANGED <<policy, prior, filed, row, at, phase, outcome, intake,
                    frequent, documents, flags, eligibility, decision, retries>>
    BY <1>1 DEF vars, inputs, outputs
  <2>2. TypeOK'
    BY <2>1 DEF AdjudicationInv, TypeOK
  <2>3. ASSUME NEW c \in Claims PROVE Progress(c)'
    BY <2>1, ProgressStays DEF AdjudicationInv
  <2> QED
    BY <2>2, <2>3 DEF AdjudicationInv
<1>2. CASE Next
  BY <1>2, SubmitKeeps, IntakeKeeps, PolicyKeeps, DocumentsKeeps, FraudKeeps,
     EligibilityKeeps, DecideKeeps, ClosingKeeps DEF Next
<1> QED
  BY <1>1, <1>2

\* Every variable keeps its type: scores within 0..100, payouts never
\* negative (rating.py).
THEOREM AdjudicationTypes ==
  Spec => []TypeOK
<1>1. AdjudicationInv => TypeOK
  BY DEF AdjudicationInv
<1> QED
  BY <1>1, AdjudicationInit, AdjudicationStep, PTL DEF Spec

\* Nothing a model answers gets a claim paid without a human against the
\* rules of stp.py and rating.py.
THEOREM AutoApprovalIsSoundHolds ==
  Spec => []AutoApprovalIsSound
<1> QED
  BY InvImpliesSound, AdjudicationInit, AdjudicationStep, PTL DEF Spec

(***************************************************************************)
(* Routing is monotone.                                                    *)
(***************************************************************************)

\* Division by a positive number is monotone.
LEMMA DivMonotone ==
  ASSUME NEW n \in Nat \ {0}, NEW x \in Nat, NEW y \in Nat, x <= y
  PROVE  x \div n <= y \div n
<1>1. /\ x \div n \in Nat /\ y \div n \in Nat
      /\ n * (x \div n) <= x /\ y < n * (y \div n) + n
  OBVIOUS
<1>2. SUFFICES ASSUME NEW q \in Nat, NEW r \in Nat, n * q <= x, y < n * r + n,
                      q >= r + 1
               PROVE  FALSE
  BY <1>1
<1>3. n * q >= n * (r + 1)
  BY <1>2
<1>4. n * (r + 1) = n * r + n
  BY <1>2
<1> QED
  BY <1>2, <1>3, <1>4

\* Each part of the score grows with its fact.
LEMMA ScoreMonotone ==
  ASSUME NEW p \in Policies, NEW f \in FactRecord, NEW g \in FactRecord,
         NoWorse(f, g)
  PROVE  Score(p, f) <= Score(p, g)
<1> DEFINE base(h) == BaseScore(p, h.amount)
           barred == Points(Barred(p), 40)
           uncovered(h) == Points(~Covers(p, h.incident), 35)
           over(h) == Points(~WithinLimits(p, h.amount), 25)
           frequency(h) == Points(h.frequent, 25)
           consistency(h) == ConsistencyPoints(h.consistency)
           red(h) == RedFlagPoints(h.redFlags)
           fraud(h) == FraudPoints(h.flags)
<1>1. /\ p.limit \in Nat \ {0} /\ p.deductible \in Nat
      /\ f.amount \in Nat /\ g.amount \in Nat
  BY AdjudicationAssumption DEF FactRecord
<1>2. base(f) \in Nat /\ base(g) \in Nat /\ base(f) <= base(g)
  <2>1. /\ AtMost(f.amount, p.limit) * 10 \in Nat
        /\ AtMost(g.amount, p.limit) * 10 \in Nat
        /\ AtMost(f.amount, p.limit) * 10 <= AtMost(g.amount, p.limit) * 10
    BY <1>1 DEF AtMost, NoWorse
  <2>2. (AtMost(f.amount, p.limit) * 10) \div p.limit
          <= (AtMost(g.amount, p.limit) * 10) \div p.limit
    BY <1>1, <2>1, DivMonotone
  <2>3. /\ (AtMost(f.amount, p.limit) * 10) \div p.limit \in Nat
        /\ (AtMost(g.amount, p.limit) * 10) \div p.limit \in Nat
    BY <1>1, <2>1
  <2> QED
    BY <2>2, <2>3 DEF BaseScore
<1>3. barred \in Nat
  BY DEF Points
<1>4. uncovered(f) \in Nat /\ uncovered(g) = uncovered(f)
  BY DEF Points, Covers, NoWorse
<1>5. over(f) \in Nat /\ over(g) \in Nat /\ over(f) <= over(g)
  BY <1>1 DEF Points, WithinLimits, NoWorse
<1>6. frequency(f) \in Nat /\ frequency(g) \in Nat /\ frequency(f) <= frequency(g)
  BY DEF Points, NoWorse
<1>7. /\ consistency(f) \in Nat /\ consistency(g) \in Nat
      /\ consistency(f) <= consistency(g)
  BY DEF ConsistencyPoints, NoWorse
<1>8. red(f) \in Nat /\ red(g) \in Nat /\ red(f) <= red(g)
  BY DEF RedFlagPoints, AtMost, NoWorse, FactRecord
<1>9. fraud(f) \in Nat /\ fraud(g) \in Nat /\ fraud(f) <= fraud(g)
  BY DEF FraudPoints, AtMost, Points, NoWorse
<1>10. \A h \in {f, g} :
         Score(p, h) = AtMost(base(h) + barred + uncovered(h) + over(h)
                                + frequency(h) + consistency(h) + red(h)
                                + fraud(h), 100)
  BY DEF Score
<1> HIDE DEF base, barred, uncovered, over, frequency, consistency, red, fraud
<1>11. Score(p, f) = AtMost(base(f) + barred + uncovered(f) + over(f)
                              + frequency(f) + consistency(f) + red(f)
                              + fraud(f), 100)
  BY <1>10
<1>12. Score(p, g) = AtMost(base(g) + barred + uncovered(g) + over(g)
                              + frequency(g) + consistency(g) + red(g)
                              + fraud(g), 100)
  BY <1>10
<1> QED
  BY <1>2, <1>3, <1>4, <1>5, <1>6, <1>7, <1>8, <1>9, <1>11, <1>12 DEF AtMost

\* What the stages left of two claims is routed in the order of their facts.
LEMMA InvImpliesMonotone ==
  AdjudicationInv => RoutingIsMonotone
<1> SUFFICES ASSUME AdjudicationInv, NEW c \in Claims, NEW d \in Claims,
                    {at[c], at[d]} \subseteq {"decision", "gate"},
                    NoWorse(Facts(c), Facts(d))
             PROVE  /\ eligibility[c].score <= eligibility[d].score
                    /\ Ranks[eligibility[c].recommendation]
                         <= Ranks[eligibility[d].recommendation]
  BY DEF RoutingIsMonotone
<1>1. /\ Judged(c) /\ Judged(d) /\ policy \in Policies
      /\ Facts(c) \in FactRecord /\ Facts(d) \in FactRecord
  <2>1. \A e \in {c, d} : /\ Judged(e) /\ policy \in Policies /\ TypeOK
                          /\ intake[e].incident \in Incidents
                          /\ intake[e].amount \in Amounts
    BY DEF AdjudicationInv, Progress
  <2> QED
    BY <2>1, FactsTyped
<1>2. PICK p \in Policies, f \in FactRecord, g \in FactRecord :
        p = policy /\ f = Facts(c) /\ g = Facts(d)
  BY <1>1
<1>3. /\ Score(p, f) <= Score(p, g)
      /\ Score(p, f) \in 0..100 /\ Score(p, g) \in 0..100
  BY <1>2, ScoreMonotone, ScoreBounds
<1>4. Covers(p, f.incident) = Covers(p, g.incident)
  BY <1>2 DEF NoWorse, Covers
<1>5. Ranks[Recommendation(p, f)] <= Ranks[Recommendation(p, g)]
  <2>1. CASE ~Covers(p, g.incident) \/ Barred(p)
    BY <1>4, <2>1 DEF Recommendation, Ranks
  <2>2. CASE ~(~Covers(p, g.incident) \/ Barred(p))
    BY <1>3, <1>4, <2>2 DEF Recommendation, Ranks
  <2> QED
    BY <2>1, <2>2
<1> QED
  BY <1>1, <1>2, <1>3, <1>5 DEF Judged

\* Of two claims on a policy the one with everything at least as bad is never
\* scored lower nor routed more leniently, whatever the facts and the policy.
THEOREM RoutingAlwaysMonotone ==
  Spec => []RoutingIsMonotone
<1> QED
  BY InvImpliesMonotone, AdjudicationInit, AdjudicationStep, PTL DEF Spec

(***************************************************************************)
(* Duplicates are flagged.                                                 *)
(***************************************************************************)

\* A row that a run has saved has the incident as that run's intake read it;
\* before, without a second attempt, the row has what the form or the intake
\* says.
RowsTell ==
  \A c \in Claims :
    /\ at[c] # "intake" /\ phase[c] = "done" =>
         row[c].incident = intake[c].incident
    /\ retries = 0 =>
         /\ phase[c] = "running" /\ at[c] = "intake" =>
              row[c].incident = filed[c]
         /\ at[c] # "intake" =>
              row[c].incident \in {filed[c], intake[c].incident}

TwinsInv == AdjudicationInv /\ RowsTell

LEMMA TwinsInit == Init => TwinsInv
<1> SUFFICES ASSUME Init PROVE TwinsInv
  OBVIOUS
<1>1. AdjudicationInv
  BY AdjudicationInit
<1>2. RowsTell
  BY DEF Init, RowsTell
<1> QED
  BY <1>1, <1>2 DEF TwinsInv

\* What a step of claim c does to what RowsTell speaks of.
LEMMA TwinsEffect ==
  ASSUME TwinsInv, NEW c \in Claims
  PROVE  /\ Submit(c) =>
              /\ phase'[c] = "running" /\ row'[c].incident = filed'[c]
              /\ at[c] = "intake" /\ UNCHANGED <<at, intake, retries>>
         /\ Intake(c) =>
              /\ phase[c] = "running" /\ at[c] = "intake"
              /\ phase'[c] # "done"
              /\ at'[c] = "intake" => phase'[c] = "saving"
              /\ UNCHANGED <<row, filed, retries>>
         /\ Policy(c) \/ Documents(c) \/ Fraud(c) \/ Eligibility(c) \/ Decide(c)
            \/ Gate(c) \/ Fail(c) =>
              /\ at'[c] = "intake" => at[c] = "intake" /\ phase'[c] = "saving"
              /\ at[c] = "intake" => at'[c] = "intake"
              /\ phase'[c] # "done"
              /\ UNCHANGED <<row, filed, intake, retries>>
         /\ Save(c) =>
              /\ phase'[c] = "done" /\ row'[c].incident = intake[c].incident
              /\ UNCHANGED <<filed, at, intake, retries>>
         /\ Retry(c) =>
              /\ phase'[c] = "running" /\ retries' # 0
              /\ UNCHANGED <<row, filed, at, intake>>
<1>1. TypeOK /\ Progress(c)
  BY DEF TwinsInv, AdjudicationInv
<1>2. Submit(c) =>
        /\ phase'[c] = "running" /\ row'[c].incident = filed'[c]
        /\ at[c] = "intake" /\ UNCHANGED <<at, intake, retries>>
  BY <1>1 DEF Submit, TypeOK, Progress, outputs
<1>3. Intake(c) =>
        /\ phase[c] = "running" /\ at[c] = "intake"
        /\ phase'[c] # "done"
        /\ at'[c] = "intake" => phase'[c] = "saving"
        /\ UNCHANGED <<row, filed, retries>>
  BY <1>1 DEF Intake, Running, GoOn, Conclude, TypeOK, inputs
<1>4. Policy(c) \/ Documents(c) \/ Fraud(c) \/ Eligibility(c) \/ Decide(c) =>
        /\ at[c] # "intake" /\ at'[c] # "intake" /\ phase'[c] # "done"
        /\ UNCHANGED <<row, filed, intake, retries>>
  BY <1>1 DEF Policy, Documents, Fraud, Eligibility, Decide, Running, GoOn,
              Conclude, TypeOK, inputs
<1>5. Gate(c) \/ Fail(c) =>
        /\ phase'[c] = "saving"
        /\ UNCHANGED <<row, filed, at, intake, retries>>
  BY <1>1 DEF Gate, Fail, Conclude, TypeOK, inputs, outputs
<1>6. Save(c) =>
        /\ phase'[c] = "done" /\ row'[c].incident = intake[c].incident
        /\ UNCHANGED <<filed, at, intake, retries>>
  BY <1>1 DEF Save, TypeOK, inputs, outputs
<1>7. Retry(c) =>
        /\ phase'[c] = "running" /\ retries' # 0
        /\ UNCHANGED <<row, filed, at, intake>>
  BY <1>1 DEF Retry, TypeOK, inputs, outputs
<1> QED
  BY <1>2, <1>3, <1>4, <1>5, <1>6, <1>7

\* A step of claim c keeps what RowsTell speaks of for the others.
LEMMA TwinsApart ==
  ASSUME TwinsInv, NEW c \in Claims, NEW d \in Claims \ {c},
         \/ Submit(c) \/ Intake(c) \/ Policy(c) \/ Documents(c) \/ Fraud(c)
         \/ Eligibility(c) \/ Decide(c) \/ Gate(c) \/ Fail(c) \/ Save(c)
         \/ Retry(c)
  PROVE  /\ at'[d] = at[d] /\ phase'[d] = phase[d] /\ row'[d] = row[d]
         /\ filed'[d] = filed[d] /\ intake'[d] = intake[d]
         /\ retries' = 0 => retries = 0
<1>1. TypeOK
  BY DEF TwinsInv, AdjudicationInv
<1>2. CASE Submit(c) \/ Save(c)
  BY <1>1, <1>2 DEF Submit, Save, TypeOK, inputs, outputs
<1>3. CASE Intake(c)
  BY <1>1, <1>3 DEF Intake, GoOn, Conclude, TypeOK, inputs
<1>4. CASE Retry(c)
  <2>1. retries' # 0
    BY <1>1, <1>4 DEF Retry, TypeOK
  <2> QED
    BY <1>1, <1>4, <2>1 DEF Retry, TypeOK, inputs, outputs
<1>5. CASE Policy(c) \/ Documents(c) \/ Fraud(c) \/ Eligibility(c) \/ Decide(c)
  BY <1>1, <1>5 DEF Policy, Documents, Fraud, Eligibility, Decide, Running, GoOn,
                    Conclude, TypeOK, inputs
<1>6. CASE Gate(c) \/ Fail(c)
  BY <1>1, <1>6 DEF Gate, Fail, Conclude, TypeOK, inputs, outputs
<1> QED
  BY <1>2, <1>3, <1>4, <1>5, <1>6

LEMMA TwinsStep == TwinsInv /\ [Next]_vars => TwinsInv'
<1> SUFFICES ASSUME TwinsInv, [Next]_vars PROVE TwinsInv'
  OBVIOUS
<1>1. AdjudicationInv'
  BY AdjudicationStep DEF TwinsInv
<1>2. RowsTell'
  <2>1. CASE UNCHANGED vars
    BY <2>1 DEF vars, inputs, outputs, TwinsInv, RowsTell
  <2>2. CASE Next
    <3>1. PICK c \in Claims :
            \/ Submit(c) \/ Intake(c) \/ Policy(c) \/ Documents(c) \/ Fraud(c)
            \/ Eligibility(c) \/ Decide(c) \/ Gate(c) \/ Fail(c) \/ Save(c)
            \/ Retry(c)
      BY <2>2 DEF Next
    <3>2. SUFFICES ASSUME NEW d \in Claims PROVE RowsTell!(d)'
      BY DEF RowsTell
    <3>3. CASE d # c
      BY <3>1, <3>3, TwinsApart DEF TwinsInv, RowsTell
    <3>4. CASE d = c
      BY <3>1, <3>4, TwinsEffect DEF TwinsInv, RowsTell
    <3> QED
      BY <3>3, <3>4
  <2> QED
    BY <2>1, <2>2
<1> QED
  BY <1>1, <1>2 DEF TwinsInv

\* Only its fraud check takes a claim from that stage to the next.
LEMMA FraudChecks ==
  ASSUME TwinsInv, [Next]_vars, NEW c \in Claims,
         at[c] = "fraud", at'[c] = "eligibility"
  PROVE  flags'[c] = FraudFlags(c)
<1>1. TypeOK
  BY DEF TwinsInv, AdjudicationInv
<1>2. at'[c] # at[c]
  OBVIOUS
<1>3. PICK d \in Claims :
        \/ Submit(d) \/ Intake(d) \/ Policy(d) \/ Documents(d) \/ Fraud(d)
        \/ Eligibility(d) \/ Decide(d) \/ Gate(d) \/ Fail(d) \/ Save(d)
        \/ Retry(d)
  BY <1>2 DEF Next, vars
<1>4. d = c
  BY <1>2, <1>3, TwinsApart
<1>5. Fraud(c)
  BY <1>1, <1>2, <1>3, <1>4
     DEF Submit, Intake, Policy, Documents, Eligibility, Decide, Gate, Fail, Save,
         Retry, Running, GoOn, Conclude, TypeOK
<1> QED
  BY <1>1, <1>5 DEF Fraud, TypeOK

\* A fraud check finds the twin whose row is saved, or still as a form spelled
\* like the intake has it.
LEMMA FraudFlagsTwins ==
  TwinsInv /\ [Next]_vars =>
    \A c \in Claims : \A d \in Claims \ {c} :
      (/\ at[c] = "fraud" /\ at'[c] = "eligibility"
       /\ at[d] # "intake" /\ intake[d].incident = intake[c].incident
       /\ \/ phase[d] = "done"
          \/ retries = 0 /\ filed[d] = intake[d].incident)
        => "duplicate" \in flags'[c]
<1> SUFFICES ASSUME TwinsInv, [Next]_vars,
                    NEW c \in Claims, NEW d \in Claims \ {c},
                    at[c] = "fraud", at'[c] = "eligibility",
                    at[d] # "intake", intake[d].incident = intake[c].incident,
                    \/ phase[d] = "done"
                    \/ retries = 0 /\ filed[d] = intake[d].incident
             PROVE  "duplicate" \in flags'[c]
  OBVIOUS
<1>1. flags'[c] = FraudFlags(c)
  BY FraudChecks
<1>2. row[d].incident = intake[c].incident
  BY DEF TwinsInv, RowsTell
<1>3. HasTwin(c)
  BY <1>2 DEF HasTwin
<1> QED
  BY <1>1, <1>3 DEF FraudFlags, Codes

\* Of any number of claims on a policy, however their submissions, stages,
\* failures, retries and saves interleave, a fraud check flags one whose
\* incident another's intake read before it, if that one's run is over, or if
\* no run was retried and that one's form was spelled like the intake reads it
\* (fraud_agent looks in rows that submit_claim and _save_claim write).
THEOREM DuplicatesAlwaysFlagged ==
  Spec => DuplicatesAreFlagged
<1>1. TwinsInv /\ [Next]_vars =>
        [\A c \in Claims : \A d \in Claims \ {c} :
           (/\ at[c] = "fraud" /\ at'[c] = "eligibility"
            /\ at[d] # "intake" /\ intake[d].incident = intake[c].incident
            /\ \/ phase[d] = "done"
               \/ retries = 0 /\ filed[d] = intake[d].incident)
             => "duplicate" \in flags'[c]]_vars
  BY FraudFlagsTwins
<1> QED
  BY <1>1, TwinsInit, TwinsStep, PTL DEF Spec, DuplicatesAreFlagged

=============================================================================
