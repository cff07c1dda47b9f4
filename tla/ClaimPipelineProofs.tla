------------------------- MODULE ClaimPipelineProofs -------------------------
(***************************************************************************)
(* Theorems about ClaimPipeline, for any number of claims, workers,        *)
(* callers, stages, attempts and faults; and, in the last part, about      *)
(* AgentCalls, which extends it by the retry loops and the template        *)
(* letter, for any number of retries and whatever the model answers.  The  *)
(* theorems about the pipeline use no assumption of AgentCalls.            *)
(***************************************************************************)
EXTENDS AgentCalls, FiniteSetTheorems, WellFoundedInduction, TLAPS

(***************************************************************************)
(* The latest attempt.                                                     *)
(***************************************************************************)

\* A nonempty set of naturals below N has a greatest element.
LEMMA BoundedSetHasMax ==
  ASSUME NEW N \in Nat, NEW S \in SUBSET (0..N), S # {}
  PROVE  \E n \in S : \A m \in S : m <= n
<1>. DEFINE T == {N - m : m \in S}
            Less == OpToRel(<, Nat)
<1>1. T \subseteq Nat /\ T # {}
  <2>1. \A m \in S : N - m \in Nat
    OBVIOUS
  <2>2. PICK m \in S : TRUE
    OBVIOUS
  <2>3. N - m \in T
    BY <2>2
  <2>. QED  BY <2>1, <2>3
<1>2. IsWellFoundedOn(Less, Nat)
  BY NatLessThanWellFounded
<1>3. PICK x \in T : \A y \in T : ~ (<<y, x>> \in Less)
  <2>. HIDE DEF T, Less
  <2>. QED  BY <1>1, <1>2, WFMin
<1>4. PICK n \in S : x = N - n
  OBVIOUS
<1>5. \A m \in S : ~ (N - m < N - n)
  BY <1>1, <1>3, <1>4 DEF OpToRel
<1>. QED  BY <1>5

\* LatestAttempt finds the highest recorded attempt, and 0 only if there is
\* none.
LEMMA LatestAttemptIsMax ==
  ASSUME NEW c \in Claims
  PROVE  /\ LatestAttempt(c) \in {0} \cup Recorded(c)
         /\ \A m \in Recorded(c) : m <= LatestAttempt(c)
         /\ LatestAttempt(c) \in 0..MaxAttempts
<1>. DEFINE S == {0} \cup Recorded(c)
<1>1. S \in SUBSET (0..MaxAttempts) /\ S # {}
  BY BoundsAssumption DEF Recorded, Attempts
<1>2. \E n \in S : \A m \in S : m <= n
  BY <1>1, BoundsAssumption, BoundedSetHasMax
<1>3. \E n \in {0} \cup Recorded(c) : \A m \in Recorded(c) : m <= n
  BY <1>2
<1>4. /\ LatestAttempt(c) \in {0} \cup Recorded(c)
      /\ \A m \in Recorded(c) : m <= LatestAttempt(c)
  BY <1>3 DEF LatestAttempt
<1>. QED  BY <1>1, <1>4

\* Updating one entry of a table of tables changes that entry only.
LEMMA EntryUpdate ==
  ASSUME NEW R, NEW S, NEW V, NEW f \in [R -> [S -> V]],
         NEW r \in R, NEW s \in S, NEW v \in V
  PROVE  LET g == [f EXCEPT ![r][s] = v]
         IN  /\ g \in [R -> [S -> V]]
             /\ \A q \in R, t \in S :
                  g[q][t] = IF q = r /\ t = s THEN v ELSE f[q][t]
OBVIOUS

(***************************************************************************)
(* Types.                                                                  *)
(***************************************************************************)

\* What a worker's program counter says of its local variables.
LocalTypes ==
  \A w \in Workers :
    /\ Busy(w) => job[w] \in Run
    /\ pc[w] \in {"agent", "checkpoint", "announce"} => at[w] \in Stages
    /\ pc[w] \in {"save", "emit", "finalize"} => outcome[w] \in Terminal

TypeInv == TypeOK /\ LocalTypes

LEMMA InitTypeInv == Init => TypeInv
BY StagesAssumption, BoundsAssumption
DEF Init, TypeInv, TypeOK, LocalTypes, Busy, NoCheckpoints, Output, Idle, Stages

LEMMA InsertingCaller ==
  ASSUME NEW k \in Callers, TypeOK, caller[k].pc = "insert"
  PROVE  /\ caller[k].claim \in Claims
         /\ caller[k].attempt \in Attempts
         /\ <<caller[k].claim, caller[k].attempt>> \in Run
         /\ caller[k].seed \in [Stages -> Output]
<1>1. caller[k] \in [pc : {"insert"}, claim : Claims, attempt : Attempts,
                    seed : [Stages -> Output]]
  BY DEF TypeOK, Idle
<1>. QED  BY <1>1 DEF Run

LEMMA ReadingCaller ==
  ASSUME NEW k \in Callers, TypeOK, caller[k].pc = "read"
  PROVE  caller[k].claim \in Claims
<1>1. caller[k] \in [pc : {"read"}, claim : Claims]
  BY DEF TypeOK, Idle
<1>. QED  BY <1>1

LEMMA InsertRunTypeInv ==
  ASSUME NEW k \in Callers, TypeInv, InsertRun(k)
  PROVE  TypeInv'
<1>. DEFINE r == <<caller[k].claim, caller[k].attempt>>
<1>1. r \in Run /\ caller[k].seed \in [Stages -> Output]
  BY InsertingCaller DEF TypeInv, InsertRun
<1>2. LocalTypes'
  BY DEF TypeInv, LocalTypes, Busy, InsertRun, callerOnly, localVars
<1>3. caller' = [caller EXCEPT ![k] = Idle]
  BY DEF InsertRun
<1>4. row' = row /\ completed' = completed /\ finalized' = finalized /\ pc' = pc
      /\ job' = job /\ at' = at /\ cps' = cps /\ outcome' = outcome
      /\ stopping' = stopping /\ faults' = faults
  BY DEF InsertRun, callerOnly, eventVars, localVars
<1>5. CASE status[r] = "absent"
  <2>1. /\ status' = [status EXCEPT ![r] = "queued"]
        /\ stages' = [stages EXCEPT ![r] = caller[k].seed]
        /\ created' = Append(created, r)
    BY <1>5 DEF InsertRun
  <2>2. status' \in [Run -> {"absent"} \cup InFlight \cup Terminal]
    BY <1>1, <2>1 DEF TypeInv, TypeOK, InFlight
  <2>3. stages' \in [Run -> [Stages -> Output]]
    BY <1>1, <2>1 DEF TypeInv, TypeOK
  <2>4. created' \in Seq(Run)
    BY <1>1, <2>1 DEF TypeInv, TypeOK
  <2>. QED
    BY <1>2, <1>3, <1>4, <2>2, <2>3, <2>4 DEF TypeInv, TypeOK
<1>6. CASE status[r] # "absent"
  BY <1>2, <1>3, <1>4, <1>6 DEF TypeInv, TypeOK, InsertRun, queueVars
<1>. QED  BY <1>5, <1>6

LEMMA ReadLatestTypeInv ==
  ASSUME NEW k \in Callers, TypeInv, ReadLatest(k)
  PROVE  TypeInv'
<1>. DEFINE c == caller[k].claim
            latest == LatestAttempt(c)
            next == [pc |-> "insert", claim |-> c, attempt |-> latest + 1,
                     seed |-> IF latest = 0 THEN NoCheckpoints
                              ELSE CompletedCheckpoints(<<c, latest>>)]
<1>1. c \in Claims
  BY ReadingCaller DEF TypeInv, ReadLatest
<1>2. latest \in 0..MaxAttempts
  BY <1>1, LatestAttemptIsMax
<1>3. \/ caller' = [caller EXCEPT ![k] = Idle]
      \/ /\ latest # MaxAttempts
         /\ caller' = [caller EXCEPT ![k] = next]
  <2>. DEFINE refuses == \/ latest > 0 /\ status[<<c, latest>>] \in InFlight
                         \/ latest = MaxAttempts
  <2>1. caller' = [caller EXCEPT ![k] = IF refuses THEN Idle ELSE next]
    BY DEF ReadLatest
  <2>. HIDE DEF next
  <2>. QED  BY <2>1
<1>4. latest # MaxAttempts =>
        next \in [pc : {"insert"}, claim : Claims, attempt : Attempts,
                  seed : [Stages -> Output]]
  <2>. SUFFICES ASSUME latest # MaxAttempts
                PROVE  next \in [pc : {"insert"}, claim : Claims,
                                 attempt : Attempts, seed : [Stages -> Output]]
    OBVIOUS
  <2>1. latest + 1 \in Attempts
    BY <1>2, BoundsAssumption DEF Attempts
  <2>2. NoCheckpoints \in [Stages -> Output]
    BY DEF NoCheckpoints, Output
  <2>3. latest # 0 => CompletedCheckpoints(<<c, latest>>) \in [Stages -> Output]
    <3>1. latest # 0 => <<c, latest>> \in Run
      BY <1>1, <1>2, BoundsAssumption DEF Run, Attempts
    <3>. QED  BY <3>1 DEF CompletedCheckpoints, TypeInv, TypeOK
  <2>. HIDE DEF c, latest
  <2>. QED  BY <1>1, <2>1, <2>2, <2>3
<1>5. caller' \in [Callers ->
       {Idle} \cup [pc : {"read"}, claim : Claims]
              \cup [pc : {"insert"}, claim : Claims, attempt : Attempts,
                    seed : [Stages -> Output]]]
  <2>. HIDE DEF next, latest, c
  <2>. QED  BY <1>3, <1>4 DEF TypeInv, TypeOK
<1>6. UNCHANGED <<status, stages, created, row, completed, finalized, pc, job,
                  at, cps, outcome, stopping, faults>>
  BY DEF ReadLatest, queueVars, callerOnly, eventVars, localVars
<1>. HIDE DEF next, latest, c
<1>. QED  BY <1>5, <1>6 DEF TypeInv, TypeOK, LocalTypes, Busy

LEMMA CallerTypeInv ==
  ASSUME NEW k \in Callers, TypeInv, CallerStep(k)
  PROVE  TypeInv'
<1>. USE DEF TypeInv, queueVars, eventVars, localVars, callerOnly
<1>1. ASSUME NEW c \in Claims, SubmitClaim(k, c) PROVE TypeInv'
  BY <1>1 DEF SubmitClaim, TypeOK, LocalTypes, Busy
<1>2. ASSUME NEW c \in Claims, ResubmitClaim(k, c) PROVE TypeInv'
  BY <1>2 DEF ResubmitClaim, TypeOK, LocalTypes, Busy
<1>. QED
  BY <1>1, <1>2, ReadLatestTypeInv, InsertRunTypeInv DEF CallerStep

LEMMA WorkerTypeInv ==
  ASSUME NEW w \in Workers, TypeInv, WorkerStep(w)
  PROVE  TypeInv'
<1>. USE DEF TypeInv, queueVars, eventVars, localVars, notWorker, TypeOK,
             LocalTypes, Busy, InFlight, Terminal
<1>1. ASSUME LoopTest(w) PROVE TypeInv'
  BY <1>1 DEF LoopTest
<1>2. ASSUME ClaimNextRun(w) PROVE TypeInv'
  BY <1>2 DEF ClaimNextRun
<1>3. ASSUME QueueEmpty(w) PROVE TypeInv'
  BY <1>3 DEF QueueEmpty
<1>4. ASSUME StopBetweenStages(w) PROVE TypeInv'
  BY <1>4 DEF StopBetweenStages, ForgetRun, NoCheckpoints, Output
<1>5. ASSUME StartStage(w) PROVE TypeInv'
  BY <1>5 DEF StartStage, Unfinished
<1>6. ASSUME AgentReturns(w) PROVE TypeInv'
  BY <1>6 DEF AgentReturns, StageOutputs, Output
<1>7. ASSUME AgentRaises(w) PROVE TypeInv'
  BY <1>7 DEF AgentRaises
<1>8. ASSUME PersistCheckpoint(w) PROVE TypeInv'
  <2>1. job[w] \in Run /\ at[w] \in Stages /\ cps[w][at[w]] \in Output
    <3>1. pc[w] = "checkpoint"
      BY <1>8 DEF PersistCheckpoint
    <3>2. job[w] \in Run /\ at[w] \in Stages
      BY <3>1
    <3>3. cps[w] \in [Stages -> Output]
      OBVIOUS
    <3>. QED  BY <3>2, <3>3
  <2>2. stages' = [stages EXCEPT ![job[w]][at[w]] = cps[w][at[w]]]
    BY <1>8 DEF PersistCheckpoint
  <2>3. stages' \in [Run -> [Stages -> Output]]
    BY <2>1, <2>2, EntryUpdate
  <2>. QED  BY <1>8, <2>3 DEF PersistCheckpoint
<1>9. ASSUME AnnounceStage(w) PROVE TypeInv'
  BY <1>9, BoundsAssumption DEF AnnounceStage, Emit, Fault
<1>10. ASSUME ApplyGate(w) PROVE TypeInv'
  BY <1>10 DEF ApplyGate
<1>11. ASSUME SaveClaim(w) PROVE TypeInv'
  BY <1>11 DEF SaveClaim, ClaimStatusByRun, Run
<1>12. ASSUME EmitFinalized(w) PROVE TypeInv'
  BY <1>12, BoundsAssumption DEF EmitFinalized, Emit, Fault
<1>13. ASSUME FinalizeRun(w) PROVE TypeInv'
  BY <1>13 DEF FinalizeRun, ForgetRun, NoCheckpoints, Output
<1>. QED
  BY <1>1, <1>2, <1>3, <1>4, <1>5, <1>6, <1>7, <1>8, <1>9, <1>10, <1>11,
     <1>12, <1>13
  DEF WorkerStep

\* Every variable keeps its type, and a worker's program counter tells which
\* of its local variables are set (pipeline.py, worker.py).
LEMMA NextTypeInv == TypeInv /\ [Next]_vars => TypeInv'
<1>. SUFFICES ASSUME TypeInv, [Next]_vars PROVE TypeInv'
  OBVIOUS
<1>1. ASSUME NEW k \in Callers, CallerStep(k) PROVE TypeInv'
  BY <1>1, CallerTypeInv
<1>2. ASSUME NEW w \in Workers, WorkerStep(w) PROVE TypeInv'
  BY <1>2, WorkerTypeInv
<1>3. ASSUME NEW w \in Workers, RequestStop(w) PROVE TypeInv'
  BY <1>3, BoundsAssumption
  DEF RequestStop, Fault, TypeInv, TypeOK, LocalTypes, Busy, queueVars,
      eventVars, localVars
<1>4. ASSUME NEW w \in Workers, Crash(w) PROVE TypeInv'
  BY <1>4, BoundsAssumption
  DEF Crash, Fault, ForgetRun, TypeInv, TypeOK, LocalTypes, Busy, queueVars,
      eventVars, NoCheckpoints, Output
<1>5. ASSUME NEW w \in Workers, StartWorker(w) PROVE TypeInv'
  BY <1>5
  DEF StartWorker, TypeInv, TypeOK, LocalTypes, Busy, queueVars, eventVars,
      localVars
<1>6. ASSUME NEW k \in Callers, AbandonRequest(k) PROVE TypeInv'
  BY <1>6, BoundsAssumption
  DEF AbandonRequest, Fault, TypeInv, TypeOK, LocalTypes, Busy, queueVars,
      eventVars, localVars
<1>7. CASE UNCHANGED vars
  BY <1>7 DEF vars, queueVars, eventVars, localVars, TypeInv, TypeOK,
              LocalTypes, Busy
<1>. QED  BY <1>1, <1>2, <1>3, <1>4, <1>5, <1>6, <1>7 DEF Next

\* The type invariant holds of every behaviour, for every value of the
\* constants.
THEOREM TypeCorrect == Spec => []TypeOK
<1>1. TypeInv => TypeOK
  BY DEF TypeInv
<1>. QED  BY <1>1, InitTypeInv, NextTypeInv, PTL DEF Spec

(***************************************************************************)
(* The inductive invariant.                                                *)
(***************************************************************************)

LEMMA InitPipelineInv == Init => PipelineInv
BY DEF Init, PipelineInv, AttemptsInv, CallersInv, WorkersInv, Busy, Idle,
       Run, Attempts

\* Attempts and callers are not disturbed by a step that leaves the run
\* documents and the callers alone.
LEMMA QuietStep ==
  ASSUME AttemptsInv, CallersInv, UNCHANGED <<status, stages, caller>>
  PROVE  AttemptsInv' /\ CallersInv'
BY DEF AttemptsInv, CallersInv

\* Workers are not disturbed by a step that leaves them alone and changes no
\* running run's document.
LEMMA OtherStep ==
  ASSUME TypeInv, WorkersInv, UNCHANGED <<pc, job, at, cps>>,
         \A r \in Run : status[r] = "running" =>
           status'[r] = "running" /\ stages'[r] = stages[r]
  PROVE  WorkersInv'
BY DEF TypeInv, LocalTypes, WorkersInv, Busy

\* Attempts stay in order under a step that moves a run from one status to
\* another without creating, reviving or touching the output of any.
LEMMA AttemptsKeep ==
  ASSUME AttemptsInv, UNCHANGED stages,
         \A r \in Run : /\ status'[r] = "absent" <=> status[r] = "absent"
                        /\ status[r] \in Terminal => status'[r] = status[r]
  PROVE  AttemptsInv'
<1>. SUFFICES ASSUME NEW c \in Claims, NEW a \in Attempts, NEW b \in Attempts
              PROVE  (/\ status[<<c, b>>] = "absent"
                           => stages[<<c, b>>] = NoCheckpoints
                      /\ a < b /\ status[<<c, b>>] # "absent" =>
                           /\ status[<<c, a>>] \in Terminal
                           /\ \A s \in Stages : stages[<<c, a>>][s] # "none" =>
                                stages[<<c, b>>][s] = stages[<<c, a>>][s])'
  BY DEF AttemptsInv
<1>1. <<c, a>> \in Run /\ <<c, b>> \in Run
  BY DEF Run
<1>2. /\ status[<<c, b>>] = "absent" => stages[<<c, b>>] = NoCheckpoints
      /\ a < b /\ status[<<c, b>>] # "absent" =>
           /\ status[<<c, a>>] \in Terminal
           /\ \A s \in Stages : stages[<<c, a>>][s] # "none" =>
                stages[<<c, b>>][s] = stages[<<c, a>>][s]
  BY DEF AttemptsInv
<1>3. status'[<<c, b>>] = "absent" <=> status[<<c, b>>] = "absent"
  BY <1>1
<1>4. status[<<c, a>>] \in Terminal => status'[<<c, a>>] \in Terminal
  BY <1>1
<1>. QED  BY <1>2, <1>3, <1>4

\* Terminal runs are left alone by a step that changes only a run that is
\* running, and then callers still hold what they read.
LEMMA CallersKeep ==
  ASSUME TypeInv, CallersInv, UNCHANGED caller,
         \A r \in Run : status[r] \in Terminal =>
           status'[r] = status[r] /\ stages'[r] = stages[r]
  PROVE  CallersInv'
<1>1. ASSUME NEW k \in Callers, caller[k].pc = "insert", NEW a \in Attempts
      PROVE  <<caller[k].claim, a>> \in Run
  BY <1>1, InsertingCaller DEF TypeInv, Run
<1>. QED  BY <1>1 DEF CallersInv

LEMMA InsertRunPipelineInv ==
  ASSUME NEW k \in Callers, TypeInv, PipelineInv, InsertRun(k)
  PROVE  PipelineInv'
<1>. DEFINE c == caller[k].claim
            n == caller[k].attempt
            r == <<c, n>>
<1>1. c \in Claims /\ n \in Attempts /\ r \in Run
      /\ caller[k].seed \in [Stages -> Output]
  BY InsertingCaller DEF TypeInv, InsertRun
<1>2. caller' = [caller EXCEPT ![k] = Idle]
  BY DEF InsertRun
<1>3. UNCHANGED <<pc, job, at, cps>>
  BY DEF InsertRun, callerOnly, localVars
<1>4. CASE status[r] # "absent"
  <2>1. UNCHANGED <<status, stages>>
    BY <1>4 DEF InsertRun, queueVars
  <2>2. AttemptsInv'
    BY ZenonT(60), <2>1 DEF PipelineInv, AttemptsInv
  <2>3. CallersInv'
    BY <1>2, <2>1 DEF PipelineInv, CallersInv, Idle, TypeInv, TypeOK
  <2>4. WorkersInv'
    BY <1>3, <2>1, OtherStep DEF PipelineInv
  <2>. QED  BY <2>2, <2>3, <2>4 DEF PipelineInv
<1>5. CASE status[r] = "absent"
  <2>1. /\ status' = [status EXCEPT ![r] = "queued"]
        /\ stages' = [stages EXCEPT ![r] = caller[k].seed]
    BY <1>5 DEF InsertRun
  <2>2. \A q \in Run : /\ status'[q] = IF q = r THEN "queued" ELSE status[q]
                       /\ stages'[q] = IF q = r THEN caller[k].seed
                                       ELSE stages[q]
    BY <1>1, <2>1 DEF TypeInv, TypeOK
  <2>3. \A a \in Attempts : a < n =>
          /\ status[<<c, a>>] \in Terminal
          /\ \A s \in Stages : stages[<<c, a>>][s] # "none" =>
               caller[k].seed[s] = stages[<<c, a>>][s]
    BY DEF PipelineInv, CallersInv, InsertRun
  <2>4. \A b \in Attempts : n < b => status[<<c, b>>] = "absent"
    BY <1>1, <1>5 DEF PipelineInv, AttemptsInv, Terminal
  <2>5. AttemptsInv'
    <3>. SUFFICES ASSUME NEW d \in Claims, NEW a \in Attempts, NEW b \in Attempts
                  PROVE  (/\ status[<<d, b>>] = "absent"
                               => stages[<<d, b>>] = NoCheckpoints
                          /\ a < b /\ status[<<d, b>>] # "absent" =>
                               /\ status[<<d, a>>] \in Terminal
                               /\ \A s \in Stages :
                                    stages[<<d, a>>][s] # "none" =>
                                    stages[<<d, b>>][s] = stages[<<d, a>>][s])'
      BY DEF AttemptsInv
    <3>. DEFINE qa == <<d, a>>
                qb == <<d, b>>
    <3>1. qa \in Run /\ qb \in Run
      BY DEF Run
    <3>2. /\ status[qb] = "absent" => stages[qb] = NoCheckpoints
          /\ a < b /\ status[qb] # "absent" =>
               /\ status[qa] \in Terminal
               /\ \A s \in Stages : stages[qa][s] # "none" =>
                    stages[qb][s] = stages[qa][s]
      BY DEF PipelineInv, AttemptsInv
    <3>3. CASE qb = r
      <4>1. d = c /\ b = n /\ (a < b => qa # r)
        BY <3>3 DEF Attempts
      <4>. QED  BY <2>2, <2>3, <3>1, <3>3, <4>1
    <3>4. CASE qb # r /\ qa = r
      <4>1. d = c /\ a = n
        BY <3>4
      <4>. QED  BY <2>2, <2>4, <3>1, <3>2, <3>4, <4>1
    <3>5. CASE qb # r /\ qa # r
      BY <2>2, <3>1, <3>2, <3>5
    <3>. QED  BY <3>3, <3>4, <3>5
  <2>6. CallersInv'
    <3>1. ASSUME NEW j \in Callers, caller'[j].pc = "insert"
          PROVE  j # k /\ caller'[j] = caller[j]
      BY <1>2, <3>1 DEF Idle, TypeInv, TypeOK
    <3>2. ASSUME NEW j \in Callers, caller[j].pc = "insert", NEW a \in Attempts
          PROVE  <<caller[j].claim, a>> \in Run
      BY <3>2, InsertingCaller DEF TypeInv, Run
    <3>. QED
      BY <1>5, <2>2, <3>1, <3>2 DEF CallersInv, PipelineInv, Terminal
  <2>7. WorkersInv'
    BY <1>3, <1>5, <2>2, OtherStep DEF PipelineInv
  <2>. QED  BY <2>5, <2>6, <2>7 DEF PipelineInv
<1>. QED  BY <1>4, <1>5

LEMMA ReadLatestPipelineInv ==
  ASSUME NEW k \in Callers, TypeInv, PipelineInv, ReadLatest(k)
  PROVE  PipelineInv'
<1>. DEFINE c == caller[k].claim
            latest == LatestAttempt(c)
            next == [pc |-> "insert", claim |-> c, attempt |-> latest + 1,
                     seed |-> IF latest = 0 THEN NoCheckpoints
                              ELSE CompletedCheckpoints(<<c, latest>>)]
            refuses == \/ latest > 0 /\ status[<<c, latest>>] \in InFlight
                       \/ latest = MaxAttempts
<1>1. c \in Claims
  BY ReadingCaller DEF TypeInv, ReadLatest
<1>2. /\ latest \in 0..MaxAttempts
      /\ latest \in {0} \cup Recorded(c)
  BY <1>1, LatestAttemptIsMax
<1>3. caller' = [caller EXCEPT ![k] = IF refuses THEN Idle ELSE next]
  BY DEF ReadLatest
<1>4. UNCHANGED <<status, stages, pc, job, at, cps>>
  BY DEF ReadLatest, queueVars, callerOnly, localVars
<1>5. AttemptsInv'
  BY ZenonT(60), <1>4 DEF PipelineInv, AttemptsInv
<1>6. ASSUME ~refuses, NEW a \in Attempts, a < latest + 1
      PROVE  /\ status[<<c, a>>] \in Terminal
             /\ \A s \in Stages : stages[<<c, a>>][s] # "none" =>
                  next.seed[s] = stages[<<c, a>>][s]
  <2>1. latest \in Attempts /\ latest > 0 /\ a <= latest
    BY <1>2, <1>6, BoundsAssumption DEF Attempts
  <2>2. status[<<c, latest>>] # "absent"
    BY <1>2, <2>1 DEF Recorded
  <2>3. status[<<c, latest>>] \in Terminal
    <3>1. <<c, latest>> \in Run
      BY <1>1, <2>1 DEF Run
    <3>. QED  BY <1>6, <2>1, <2>2, <3>1 DEF TypeInv, TypeOK
  <2>4. next.seed = stages[<<c, latest>>]
    BY <2>1 DEF CompletedCheckpoints
  <2>5. CASE a = latest
    BY <2>3, <2>4, <2>5
  <2>6. CASE a < latest
    BY <1>1, <2>1, <2>2, <2>4, <2>6 DEF PipelineInv, AttemptsInv
  <2>. HIDE DEF latest, c
  <2>. QED  BY <2>1, <2>5, <2>6 DEF Attempts
<1>7. CallersInv'
  <2>1. next.claim = c /\ next.attempt = latest + 1
    OBVIOUS
  <2>2. ASSUME NEW j \in Callers, caller'[j].pc = "insert", j # k
        PROVE  caller'[j] = caller[j]
    BY <1>3, <2>2 DEF TypeInv, TypeOK
  <2>3. ASSUME caller'[k].pc = "insert"
        PROVE  ~refuses /\ caller'[k] = next
    <3>. HIDE DEF next, refuses
    <3>1. caller'[k] = IF refuses THEN Idle ELSE next
      BY <1>3 DEF TypeInv, TypeOK
    <3>. QED  BY <2>3, <3>1 DEF Idle
  <2>. HIDE DEF next, refuses, latest, c
  <2>. QED
    BY <1>4, <1>6, <2>1, <2>2, <2>3 DEF CallersInv, PipelineInv
<1>8. WorkersInv'
  BY <1>4, OtherStep DEF PipelineInv
<1>. QED  BY <1>5, <1>7, <1>8 DEF PipelineInv

\* The steps that only move a worker's own program.
LEMMA LocalStepPipelineInv ==
  ASSUME NEW w \in Workers, TypeInv, PipelineInv,
         \/ LoopTest(w) \/ QueueEmpty(w) \/ StartStage(w) \/ AgentReturns(w)
         \/ AgentRaises(w) \/ AnnounceStage(w) \/ ApplyGate(w) \/ SaveClaim(w)
         \/ EmitFinalized(w) \/ RequestStop(w) \/ Crash(w) \/ StartWorker(w)
  PROVE  PipelineInv'
<1>. USE DEF queueVars, eventVars, localVars, notWorker
<1>1. UNCHANGED <<status, stages, caller>>
  BY DEF LoopTest, QueueEmpty, StartStage, AgentReturns, AgentRaises,
         AnnounceStage, ApplyGate, SaveClaim, EmitFinalized, RequestStop,
         Crash, StartWorker
<1>2. AttemptsInv' /\ CallersInv'
  BY <1>1, QuietStep DEF PipelineInv
<1>3. WorkersInv'
  <2>. USE DEF TypeInv, TypeOK, PipelineInv, WorkersInv, Busy
  <2>1. CASE LoopTest(w)
    BY <1>1, <2>1 DEF LoopTest
  <2>2. CASE QueueEmpty(w)
    BY <1>1, <2>2 DEF QueueEmpty
  <2>3. CASE StartStage(w)
    BY <1>1, <2>3 DEF StartStage, Unfinished
  <2>4. CASE AgentReturns(w)
    <3>1. at[w] \in Stages
      BY <2>4 DEF AgentReturns, LocalTypes
    <3>2. PICK out \in StageOutputs(at[w]) : cps' = [cps EXCEPT ![w][at[w]] = out]
      BY <2>4 DEF AgentReturns
    <3>3. out \in Output /\ out # "none"
      BY <3>2 DEF StageOutputs, Output
    <3>4. \A v \in Workers, s \in Stages :
            cps'[v][s] = IF v = w /\ s = at[w] THEN out ELSE cps[v][s]
      BY <3>1, <3>2, <3>3, EntryUpdate
    <3>. QED  BY <1>1, <2>4, <3>1, <3>3, <3>4 DEF AgentReturns, LocalTypes
  <2>5. CASE AgentRaises(w)
    BY <1>1, <2>5 DEF AgentRaises
  <2>6. CASE AnnounceStage(w)
    BY <1>1, <2>6 DEF AnnounceStage
  <2>7. CASE ApplyGate(w)
    BY <1>1, <2>7 DEF ApplyGate
  <2>8. CASE SaveClaim(w)
    BY <1>1, <2>8 DEF SaveClaim
  <2>9. CASE EmitFinalized(w)
    BY <1>1, <2>9 DEF EmitFinalized
  <2>10. CASE RequestStop(w)
    BY <1>1, <2>10 DEF RequestStop
  <2>11. CASE Crash(w)
    BY <1>1, <2>11 DEF Crash, ForgetRun
  <2>12. CASE StartWorker(w)
    BY <1>1, <2>12 DEF StartWorker
  <2>. QED
    BY <2>1, <2>2, <2>3, <2>4, <2>5, <2>6, <2>7, <2>8, <2>9, <2>10, <2>11, <2>12
<1>. QED  BY <1>2, <1>3 DEF PipelineInv

LEMMA ClaimNextRunPipelineInv ==
  ASSUME NEW w \in Workers, TypeInv, PipelineInv, ClaimNextRun(w)
  PROVE  PipelineInv'
<1>1. PICK r \in Run :
        /\ status[r] = "queued"
        /\ status' = [status EXCEPT ![r] = "running"]
        /\ job' = [job EXCEPT ![w] = r]
        /\ cps' = [cps EXCEPT ![w] = stages[r]]
  BY DEF ClaimNextRun, NextQueued
<1>2. /\ pc[w] = "poll"
      /\ pc' = [pc EXCEPT ![w] = "between"]
      /\ UNCHANGED <<stages, at, caller>>
  BY DEF ClaimNextRun, notWorker
<1>3. \A q \in Run : status'[q] = IF q = r THEN "running" ELSE status[q]
  BY <1>1 DEF TypeInv, TypeOK
<1>4. AttemptsInv'
  BY <1>1, <1>2, <1>3, AttemptsKeep DEF PipelineInv, Terminal
<1>5. CallersInv'
  BY <1>1, <1>2, <1>3, CallersKeep DEF PipelineInv, Terminal
<1>6. WorkersInv'
  <2>1. \A v \in Workers : Busy(v) => job[v] # r /\ job[v] \in Run
    BY <1>1 DEF PipelineInv, WorkersInv, TypeInv, LocalTypes
  <2>2. \A v \in Workers : Busy(v)' <=> Busy(v) \/ v = w
    BY <1>2 DEF Busy, TypeInv, TypeOK
  <2>3. ~Busy(w)
    BY <1>2 DEF Busy
  <2>4. \A v \in Workers : v # w =>
          job'[v] = job[v] /\ cps'[v] = cps[v] /\ pc'[v] = pc[v]
    BY <1>1, <1>2 DEF TypeInv, TypeOK
  <2>5. job'[w] = r /\ cps'[w] = stages[r] /\ pc'[w] = "between"
    BY <1>1, <1>2 DEF TypeInv, TypeOK
  <2>. QED
    BY <1>1, <1>2, <1>3, <2>1, <2>2, <2>3, <2>4, <2>5
    DEF PipelineInv, WorkersInv
<1>. QED  BY <1>4, <1>5, <1>6 DEF PipelineInv

\* Ending or handing back the worker's own run.
LEMMA LeaveRunPipelineInv ==
  ASSUME NEW w \in Workers, TypeInv, PipelineInv,
         StopBetweenStages(w) \/ FinalizeRun(w)
  PROVE  PipelineInv'
<1>. DEFINE r == job[w]
<1>1. r \in Run /\ status[r] = "running" /\ Busy(w)
  BY DEF StopBetweenStages, FinalizeRun, Busy, TypeInv, LocalTypes,
         PipelineInv, WorkersInv
<1>2. PICK new \in {"queued"} \cup Terminal :
        status' = [status EXCEPT ![r] = new]
  BY <1>1 DEF StopBetweenStages, FinalizeRun, TypeInv, TypeOK, LocalTypes
<1>3. /\ ForgetRun(w, "loop")
      /\ UNCHANGED <<stages, caller>>
  BY DEF StopBetweenStages, FinalizeRun, notWorker
<1>4. \A q \in Run : status'[q] = IF q = r THEN new ELSE status[q]
  BY <1>1, <1>2 DEF TypeInv, TypeOK
<1>5. new # "absent" /\ new # "running"
  BY DEF Terminal
<1>6. AttemptsInv'
  BY <1>1, <1>3, <1>4, <1>5, AttemptsKeep DEF PipelineInv, Terminal
<1>7. CallersInv'
  BY <1>1, <1>3, <1>4, CallersKeep DEF PipelineInv, Terminal
<1>8. WorkersInv'
  <2>1. \A v \in Workers : v # w =>
          pc'[v] = pc[v] /\ job'[v] = job[v] /\ cps'[v] = cps[v] /\ at'[v] = at[v]
    BY <1>3 DEF ForgetRun, TypeInv, TypeOK
  <2>2. pc'[w] = "loop"
    BY <1>3 DEF ForgetRun, TypeInv, TypeOK
  <2>3. \A v \in Workers : v # w /\ Busy(v) => job[v] # r /\ job[v] \in Run
    BY <1>1 DEF PipelineInv, WorkersInv, TypeInv, LocalTypes
  <2>. QED
    BY <1>3, <1>4, <2>1, <2>2, <2>3 DEF PipelineInv, WorkersInv, Busy
<1>. QED  BY <1>6, <1>7, <1>8 DEF PipelineInv

LEMMA PersistCheckpointPipelineInv ==
  ASSUME NEW w \in Workers, TypeInv, PipelineInv, PersistCheckpoint(w)
  PROVE  PipelineInv'
<1>. DEFINE r == job[w]
            s0 == at[w]
<1>1. pc[w] = "checkpoint" /\ Busy(w)
  BY DEF PersistCheckpoint, Busy
<1>2. r \in Run /\ s0 \in Stages /\ cps[w][s0] \in Output
  <2>1. r \in Run /\ s0 \in Stages
    BY <1>1 DEF TypeInv, LocalTypes
  <2>2. cps[w] \in [Stages -> Output]
    BY DEF TypeInv, TypeOK
  <2>. QED  BY <2>1, <2>2
<1>3. /\ status[r] = "running"
      /\ stages[r][s0] = "none"
      /\ cps[w][s0] # "none"
      /\ \A s \in Stages : s # s0 => cps[w][s] = stages[r][s]
  BY <1>1 DEF PipelineInv, WorkersInv
<1>4. \A q \in Run, s \in Stages :
        stages'[q][s] = IF q = r /\ s = s0 THEN cps[w][s0] ELSE stages[q][s]
  BY <1>2, EntryUpdate DEF PersistCheckpoint, TypeInv, TypeOK
<1>5. \A q \in Run : q # r => stages'[q] = stages[q]
  BY DEF PersistCheckpoint, TypeInv, TypeOK
<1>6. /\ pc' = [pc EXCEPT ![w] = "announce"]
      /\ UNCHANGED <<status, caller, job, at, cps>>
  BY DEF PersistCheckpoint, localVars, notWorker
<1>7. AttemptsInv'
  <2>1. \A c \in Claims, a \in Attempts : <<c, a>> \in Run
    BY DEF Run
  <2>2. ASSUME NEW c \in Claims, NEW a \in Attempts, NEW b \in Attempts,
               a < b, status[<<c, b>>] # "absent"
        PROVE  /\ status[<<c, a>>] \in Terminal
               /\ <<c, a>> # r
               /\ \A s \in Stages : stages[<<c, a>>][s] # "none" =>
                    stages[<<c, b>>][s] = stages[<<c, a>>][s]
    BY <1>3, <2>2 DEF PipelineInv, AttemptsInv, Terminal
  <2>3. ASSUME NEW c \in Claims, NEW b \in Attempts, status[<<c, b>>] = "absent"
        PROVE  stages'[<<c, b>>] = NoCheckpoints
    BY <1>3, <1>5, <2>1, <2>3 DEF PipelineInv, AttemptsInv
  <2>4. ASSUME NEW c \in Claims, NEW a \in Attempts, NEW b \in Attempts,
               a < b, status[<<c, b>>] # "absent", NEW s \in Stages,
               stages'[<<c, a>>][s] # "none"
        PROVE  stages'[<<c, b>>][s] = stages'[<<c, a>>][s]
    BY <1>3, <1>4, <1>5, <2>1, <2>2, <2>4
  <2>5. ASSUME NEW c \in Claims, NEW a \in Attempts, NEW b \in Attempts,
               status'[<<c, b>>] # "absent", a < b
        PROVE  /\ status'[<<c, a>>] \in Terminal
               /\ \A s \in Stages : stages'[<<c, a>>][s] # "none" =>
                    stages'[<<c, b>>][s] = stages'[<<c, a>>][s]
    <3>1. status' = status
      BY <1>6
    <3>2. status[<<c, b>>] # "absent" /\ status[<<c, a>>] \in Terminal
      BY <2>2, <2>5, <3>1
    <3>. QED  BY <2>4, <2>5, <3>1, <3>2
  <2>6. ASSUME NEW c \in Claims, NEW b \in Attempts, status'[<<c, b>>] = "absent"
        PROVE  stages'[<<c, b>>] = NoCheckpoints
    BY <1>6, <2>3, <2>6
  <2>. QED  BY <2>5, <2>6, Zenon DEF AttemptsInv
<1>8. CallersInv'
  BY <1>3, <1>5, <1>6, CallersKeep DEF PipelineInv, Terminal
<1>9. WorkersInv'
  <2>1. \A v \in Workers : v # w => pc'[v] = pc[v]
    BY <1>6 DEF TypeInv, TypeOK
  <2>2. pc'[w] = "announce"
    BY <1>6 DEF TypeInv, TypeOK
  <2>3. \A v \in Workers : v # w /\ Busy(v) =>
          job[v] # r /\ job[v] \in Run /\ stages'[job[v]] = stages[job[v]]
    BY <1>1, <1>5 DEF PipelineInv, WorkersInv, TypeInv, LocalTypes
  <2>4. \A s \in Stages : cps[w][s] = stages'[r][s]
    BY <1>2, <1>3, <1>4
  <2>5. \A v \in Workers : Busy(v)' <=> Busy(v)
    BY <1>1, <2>1, <2>2 DEF Busy
  <2>. QED
    BY <1>1, <1>3, <1>6, <2>1, <2>2, <2>3, <2>4, <2>5
    DEF PipelineInv, WorkersInv
<1>. QED  BY <1>7, <1>8, <1>9 DEF PipelineInv

LEMMA NextPipelineInv == TypeInv /\ PipelineInv /\ [Next]_vars => PipelineInv'
<1>. SUFFICES ASSUME TypeInv, PipelineInv, [Next]_vars PROVE PipelineInv'
  OBVIOUS
<1>1. ASSUME NEW k \in Callers, CallerStep(k) PROVE PipelineInv'
  <2>1. ASSUME NEW c \in Claims, SubmitClaim(k, c) \/ ResubmitClaim(k, c)
        PROVE  PipelineInv'
    <3>1. /\ UNCHANGED <<status, stages, pc, job, at, cps>>
          /\ caller' = [caller EXCEPT ![k] = [pc |-> "read", claim |-> c]]
      BY <2>1 DEF SubmitClaim, ResubmitClaim, queueVars, localVars, callerOnly
    <3>2. AttemptsInv'
      BY ZenonT(60), <3>1 DEF PipelineInv, AttemptsInv
    <3>3. CallersInv'
      BY <3>1 DEF PipelineInv, CallersInv, TypeInv, TypeOK
    <3>4. WorkersInv'
      BY <3>1, OtherStep DEF PipelineInv
    <3>. QED  BY <3>2, <3>3, <3>4 DEF PipelineInv
  <2>. QED
    BY <1>1, <2>1, ReadLatestPipelineInv, InsertRunPipelineInv DEF CallerStep
<1>2. ASSUME NEW w \in Workers,
             WorkerStep(w) \/ RequestStop(w) \/ Crash(w) \/ StartWorker(w)
      PROVE  PipelineInv'
  BY <1>2, LocalStepPipelineInv, ClaimNextRunPipelineInv, LeaveRunPipelineInv,
     PersistCheckpointPipelineInv
  DEF WorkerStep
<1>3. ASSUME NEW k \in Callers, AbandonRequest(k) PROVE PipelineInv'
  <2>1. /\ UNCHANGED <<status, stages, pc, job, at, cps>>
        /\ caller' = [caller EXCEPT ![k] = Idle]
    BY <1>3 DEF AbandonRequest, queueVars, localVars
  <2>2. AttemptsInv'
    BY ZenonT(60), <2>1 DEF PipelineInv, AttemptsInv
  <2>3. CallersInv'
    BY <2>1 DEF PipelineInv, CallersInv, TypeInv, TypeOK, Idle
  <2>4. WorkersInv'
    BY <2>1, OtherStep DEF PipelineInv
  <2>. QED  BY <2>2, <2>3, <2>4 DEF PipelineInv
<1>4. CASE UNCHANGED vars
  BY <1>4, QuietStep, OtherStep DEF vars, queueVars, localVars, PipelineInv
<1>. QED  BY <1>1, <1>2, <1>3, <1>4 DEF Next

\* The inductive invariant: attempts accumulate checkpoints one after the
\* other, callers hold what is still so, and a worker's copy of its run is true.
THEOREM PipelineInvariant == Spec => [](TypeInv /\ PipelineInv)
BY InitTypeInv, NextTypeInv, InitPipelineInv, NextPipelineInv, PTL DEF Spec

\* Each claim has one executor at a time (enqueue_claim_run, claim_next_run).
THEOREM ExclusiveExecutionHolds == Spec => []ExclusiveExecution
<1>1. TypeInv /\ PipelineInv => ExclusiveExecution
  <2>. SUFFICES ASSUME TypeInv, PipelineInv, NEW w \in Workers, NEW v \in Workers,
                       v # w, Busy(w), Busy(v), job[v][1] = job[w][1]
                PROVE  FALSE
    BY DEF PipelineInv, WorkersInv, ExclusiveExecution
  <2>1. PICK c \in Claims, a \in Attempts : job[w] = <<c, a>>
    BY DEF TypeInv, LocalTypes, Run
  <2>2. PICK b \in Attempts : job[v] = <<c, b>>
    BY <2>1 DEF TypeInv, LocalTypes, Run
  <2>3. a # b /\ status[<<c, a>>] = "running" /\ status[<<c, b>>] = "running"
    BY <2>1, <2>2 DEF PipelineInv, WorkersInv
  <2>4. a < b \/ b < a
    BY <2>3 DEF Attempts
  <2>. QED  BY <2>3, <2>4 DEF PipelineInv, AttemptsInv, Terminal
<1>. QED  BY <1>1, PipelineInvariant, PTL

\* No stage that some attempt has checkpointed is executed again
\* (_completed_checkpoints, PipelineRunner.run).
THEOREM NoReexecutionHolds == Spec => []NoReexecution
<1>1. TypeInv /\ PipelineInv => NoReexecution
  <2>. SUFFICES ASSUME TypeInv, PipelineInv, NEW w \in Workers, pc[w] = "agent",
                       NEW b \in Attempts
                PROVE  stages[<<job[w][1], b>>][at[w]] = "none"
    BY DEF NoReexecution
  <2>1. Busy(w) /\ at[w] \in Stages
    BY DEF Busy, TypeInv, LocalTypes
  <2>2. PICK c \in Claims, a \in Attempts : job[w] = <<c, a>>
    BY <2>1 DEF TypeInv, LocalTypes, Run
  <2>3. status[<<c, a>>] = "running" /\ stages[<<c, a>>][at[w]] = "none"
    BY <2>1, <2>2 DEF PipelineInv, WorkersInv
  <2>4. CASE b = a
    BY <2>2, <2>3, <2>4
  <2>5. CASE b < a
    BY <2>1, <2>2, <2>3, <2>5 DEF PipelineInv, AttemptsInv
  <2>6. CASE a < b
    <3>1. stages[<<c, b>>] = NoCheckpoints
      BY <2>3, <2>6 DEF PipelineInv, AttemptsInv, Terminal
    <3>. QED  BY <2>1, <2>2, <3>1 DEF NoCheckpoints
  <2>. QED  BY <2>4, <2>5, <2>6 DEF Attempts
<1>. QED  BY <1>1, PipelineInvariant, PTL

(***************************************************************************)
(* What the checkpoints prove.                                             *)
(***************************************************************************)

\* A checkpoint, once recorded, is never changed or lost: the only writers are
\* an insert, of a document with none, and a worker at a stage with none.
LEMMA CheckpointsStick ==
  ASSUME TypeInv, PipelineInv, [Next]_vars
  PROVE  \A r \in Run, s \in Stages :
           stages[r][s] # "none" => stages'[r][s] = stages[r][s]
<1>1. CASE UNCHANGED stages
  BY <1>1
<1>2. ASSUME NEW k \in Callers, InsertRun(k), ~ UNCHANGED stages
      PROVE  \A r \in Run, s \in Stages :
               stages[r][s] # "none" => stages'[r][s] = stages[r][s]
  <2>. DEFINE q == <<caller[k].claim, caller[k].attempt>>
  <2>1. status[q] = "absent" /\ stages' = [stages EXCEPT ![q] = caller[k].seed]
    BY <1>2 DEF InsertRun, queueVars
  <2>2. /\ caller[k].claim \in Claims /\ caller[k].attempt \in Attempts
        /\ q \in Run
    BY <1>2, InsertingCaller DEF InsertRun, TypeInv
  <2>3. \A s \in Stages : stages[q][s] = "none"
    BY <2>1, <2>2 DEF PipelineInv, AttemptsInv, NoCheckpoints
  <2>4. \A r \in Run : r # q => stages'[r] = stages[r]
    BY <2>1, <2>2 DEF TypeInv, TypeOK
  <2>. QED  BY <2>3, <2>4
<1>3. ASSUME NEW w \in Workers, PersistCheckpoint(w)
      PROVE  \A r \in Run, s \in Stages :
               stages[r][s] # "none" => stages'[r][s] = stages[r][s]
  <2>1. pc[w] = "checkpoint" /\ Busy(w)
    BY <1>3 DEF PersistCheckpoint, Busy
  <2>2. job[w] \in Run /\ at[w] \in Stages /\ stages[job[w]][at[w]] = "none"
    BY <2>1 DEF TypeInv, LocalTypes, PipelineInv, WorkersInv
  <2>3. cps[w] \in [Stages -> Output]
    BY DEF TypeInv, TypeOK
  <2>4. \A r \in Run, s \in Stages :
          stages'[r][s] = IF r = job[w] /\ s = at[w] THEN cps[w][at[w]]
                          ELSE stages[r][s]
    BY <1>3, <2>2, <2>3, EntryUpdate DEF PersistCheckpoint, TypeInv, TypeOK
  <2>. QED  BY <2>2, <2>4
<1>4. \/ UNCHANGED stages
      \/ \E k \in Callers : InsertRun(k)
      \/ \E w \in Workers : PersistCheckpoint(w)
  BY DEF Next, CallerStep, WorkerStep, SubmitClaim, ResubmitClaim, ReadLatest,
         AbandonRequest, LoopTest, ClaimNextRun, QueueEmpty, StopBetweenStages,
         StartStage, AgentReturns, AgentRaises, AnnounceStage, ApplyGate,
         SaveClaim, EmitFinalized, FinalizeRun, RequestStop, Crash, StartWorker,
         vars, queueVars, callerOnly, notWorker
<1>. QED  BY <1>1, <1>2, <1>3, <1>4

\* The agent_complete event of a stage follows its checkpoint, and what it
\* announced stays recorded (_execute_stage).
THEOREM AnnouncedIsCheckpointedHolds == Spec => []AnnouncedIsCheckpointed
<1>1. Init => AnnouncedIsCheckpointed
  BY DEF Init, AnnouncedIsCheckpointed
<1>2. ASSUME TypeInv, TypeInv', PipelineInv, AnnouncedIsCheckpointed, [Next]_vars
      PROVE  AnnouncedIsCheckpointed'
  <2>1. \A r \in Run, s \in Stages :
          stages[r][s] # "none" => stages'[r][s] = stages[r][s]
    BY <1>2, CheckpointsStick
  <2>2. ASSUME NEW w \in Workers, AnnounceStage(w)
        PROVE  /\ completed' \subseteq completed \cup {<<job[w], at[w]>>}
               /\ stages[job[w]][at[w]] # "none"
    <3>1. pc[w] = "announce" /\ Busy(w)
      BY <2>2 DEF AnnounceStage, Busy
    <3>2. at[w] \in Stages
      BY <1>2, <3>1 DEF TypeInv, LocalTypes
    <3>3. stages[job[w]][at[w]] # "none"
      BY <1>2, <3>1, <3>2 DEF PipelineInv, WorkersInv
    <3>. QED  BY <2>2, <3>3 DEF AnnounceStage, Emit
  <2>3. UNCHANGED completed \/ \E w \in Workers : AnnounceStage(w)
    BY <1>2
    DEF Next, CallerStep, WorkerStep, SubmitClaim, ResubmitClaim, ReadLatest,
        InsertRun, AbandonRequest, LoopTest, ClaimNextRun, QueueEmpty,
        StopBetweenStages, StartStage, AgentReturns, AgentRaises,
        PersistCheckpoint, ApplyGate, SaveClaim, EmitFinalized, FinalizeRun,
        RequestStop, Crash, StartWorker, vars, callerOnly, eventVars
  <2>4. \A e \in completed' : stages[e[1]][e[2]] # "none"
    BY <1>2, <2>2, <2>3 DEF AnnouncedIsCheckpointed
  <2>5. \A e \in completed' : e[1] \in Run /\ e[2] \in Stages
    BY <1>2 DEF TypeInv, TypeOK
  <2>. QED  BY <2>1, <2>4, <2>5 DEF AnnouncedIsCheckpointed
<1>. QED  BY <1>1, <1>2, PipelineInvariant, PTL DEF Spec

\* A worker that is about to auto-approve holds checkpoints that earn it.
ApprovalsEarned ==
  \A w \in Workers :
    pc[w] \in {"save", "emit", "finalize"} /\ outcome[w] = "auto_approved" =>
      \A s \in Stages : cps[w][s] # "none" /\ (s \in GateStages => cps[w][s] = "ok")

LEMMA ApprovalsEarnedStep ==
  ASSUME TypeInv, ApprovalsEarned, [Next]_vars
  PROVE  ApprovalsEarned'
<1>. USE DEF ApprovalsEarned, TypeInv, TypeOK
<1>1. ASSUME UNCHANGED <<pc, cps, outcome>> PROVE ApprovalsEarned'
  BY <1>1
<1>2. ASSUME NEW w \in Workers,
             pc'[w] \notin {"save", "emit", "finalize"}
               \/ outcome'[w] # "auto_approved",
             \A v \in Workers \ {w} :
               pc'[v] = pc[v] /\ cps'[v] = cps[v] /\ outcome'[v] = outcome[v]
      PROVE  ApprovalsEarned'
  BY <1>2
<1>3. ASSUME NEW w \in Workers, WorkerStep(w) PROVE ApprovalsEarned'
  <2>. USE <1>2 DEF localVars
  <2>1. CASE LoopTest(w)
    BY <2>1 DEF LoopTest
  <2>2. CASE ClaimNextRun(w)
    BY <2>2 DEF ClaimNextRun
  <2>3. CASE QueueEmpty(w)
    BY <2>3 DEF QueueEmpty
  <2>4. CASE StopBetweenStages(w)
    BY <2>4 DEF StopBetweenStages, ForgetRun
  <2>5. CASE StartStage(w)
    BY <2>5 DEF StartStage
  <2>6. CASE AgentReturns(w)
    BY <2>6 DEF AgentReturns
  <2>7. CASE AgentRaises(w)
    BY <2>7 DEF AgentRaises
  <2>8. CASE PersistCheckpoint(w)
    BY <2>8 DEF PersistCheckpoint
  <2>9. CASE AnnounceStage(w)
    BY <2>9 DEF AnnounceStage
  <2>10. CASE ApplyGate(w)
    <3>1. outcome'[w] = "auto_approved" => GatePasses(cps[w])
      BY <2>10 DEF ApplyGate
    <3>2. \A s \in Stages : cps[w][s] # "none"
      BY <2>10 DEF ApplyGate, Unfinished
    <3>. QED  BY <2>10, <3>1, <3>2 DEF ApplyGate, GatePasses
  <2>11. CASE SaveClaim(w)
    BY <2>11 DEF SaveClaim
  <2>12. CASE EmitFinalized(w)
    BY <2>12 DEF EmitFinalized
  <2>13. CASE FinalizeRun(w)
    BY <2>13 DEF FinalizeRun, ForgetRun
  <2>. QED
    BY <1>3, <2>1, <2>2, <2>3, <2>4, <2>5, <2>6, <2>7, <2>8, <2>9, <2>10,
       <2>11, <2>12, <2>13
    DEF WorkerStep
<1>4. ASSUME NEW w \in Workers, RequestStop(w) \/ Crash(w) \/ StartWorker(w)
      PROVE  ApprovalsEarned'
  BY <1>1, <1>2, <1>4 DEF RequestStop, Crash, StartWorker, ForgetRun, localVars
<1>5. ASSUME NEW k \in Callers, CallerStep(k) \/ AbandonRequest(k)
      PROVE  ApprovalsEarned'
  BY <1>1, <1>5
  DEF CallerStep, SubmitClaim, ResubmitClaim, ReadLatest, InsertRun,
      AbandonRequest, callerOnly, localVars
<1>6. CASE UNCHANGED vars
  BY <1>1, <1>6 DEF vars, localVars
<1>. QED  BY <1>3, <1>4, <1>5, <1>6 DEF Next

\* No run is auto-approved but by _apply_stp_gate over a complete, passing set
\* of checkpoints, and the document that says so keeps them.
THEOREM AutoApprovalEarnedHolds == Spec => []AutoApprovalEarned
<1>1. Init => ApprovalsEarned /\ AutoApprovalEarned
  BY DEF Init, ApprovalsEarned, AutoApprovalEarned
<1>2. ASSUME TypeInv, PipelineInv, ApprovalsEarned, AutoApprovalEarned,
             [Next]_vars
      PROVE  ApprovalsEarned' /\ AutoApprovalEarned'
  <2>1. ApprovalsEarned'
    BY <1>2, ApprovalsEarnedStep
  <2>2. \A r \in Run, s \in Stages :
          stages[r][s] # "none" => stages'[r][s] = stages[r][s]
    BY <1>2, CheckpointsStick
  <2>3. ASSUME NEW r \in Run, status'[r] = "auto_approved",
               status[r] # "auto_approved"
        PROVE  \E w \in Workers : FinalizeRun(w) /\ r = job[w]
    <3>1. ASSUME NEW q \in Run, NEW new,
                 status' = [status EXCEPT ![q] = new], new # "auto_approved"
          PROVE  FALSE
      BY <1>2, <2>3, <3>1 DEF TypeInv, TypeOK
    <3>2. ~ UNCHANGED status
      BY <2>3
    <3>3. ASSUME NEW k \in Callers, InsertRun(k) PROVE FALSE
      <4>1. <<caller[k].claim, caller[k].attempt>> \in Run
        BY <1>2, <3>3, InsertingCaller DEF InsertRun, TypeInv
      <4>. QED  BY <3>1, <3>2, <3>3, <4>1 DEF InsertRun, queueVars
    <3>4. ASSUME NEW w \in Workers, ClaimNextRun(w) PROVE FALSE
      BY <3>1, <3>4 DEF ClaimNextRun
    <3>5. ASSUME NEW w \in Workers, StopBetweenStages(w) PROVE FALSE
      <4>1. job[w] \in Run
        BY <1>2, <3>5 DEF StopBetweenStages, Busy, TypeInv, LocalTypes
      <4>. QED
        BY <1>2, <2>3, <3>5, <4>1 DEF StopBetweenStages, TypeInv, TypeOK
    <3>6. \E w \in Workers : FinalizeRun(w)
      BY <1>2, <3>2, <3>3, <3>4, <3>5
      DEF Next, CallerStep, WorkerStep, SubmitClaim, ResubmitClaim, ReadLatest,
          AbandonRequest, LoopTest, QueueEmpty, StartStage, AgentReturns,
          AgentRaises, PersistCheckpoint, AnnounceStage, ApplyGate, SaveClaim,
          EmitFinalized, RequestStop, Crash, StartWorker, vars, queueVars
    <3>. QED  BY <1>2, <2>3, <3>6 DEF FinalizeRun, TypeInv, TypeOK
  <2>4. ASSUME NEW w \in Workers, FinalizeRun(w), outcome[w] = "auto_approved",
               NEW s \in Stages
        PROVE  /\ stages[job[w]][s] # "none"
               /\ s \in GateStages => stages[job[w]][s] = "ok"
    <3>1. pc[w] = "finalize" /\ Busy(w)
      BY <2>4 DEF FinalizeRun, Busy
    <3>2. cps[w][s] = stages[job[w]][s]
      BY <1>2, <3>1 DEF PipelineInv, WorkersInv
    <3>. QED  BY <1>2, <2>4, <3>1, <3>2 DEF ApprovalsEarned
  <2>5. ASSUME NEW r \in Run, status'[r] = "auto_approved", NEW s \in Stages
        PROVE  /\ stages[r][s] # "none"
               /\ s \in GateStages => stages[r][s] = "ok"
    <3>1. CASE status[r] = "auto_approved"
      BY <1>2, <3>1 DEF AutoApprovalEarned
    <3>2. CASE status[r] # "auto_approved"
      <4>1. PICK w \in Workers : FinalizeRun(w) /\ r = job[w]
        BY <2>3, <2>5, <3>2
      <4>2. outcome[w] = "auto_approved"
        BY <1>2, <2>5, <4>1 DEF FinalizeRun, TypeInv, TypeOK
      <4>. QED  BY <2>4, <4>1, <4>2
    <3>. QED  BY <3>1, <3>2
  <2>6. AutoApprovalEarned'
    BY <2>2, <2>5 DEF AutoApprovalEarned
  <2>. QED  BY <2>1, <2>6
<1>. QED  BY <1>1, <1>2, PipelineInvariant, PTL DEF Spec

(***************************************************************************)
(* ClaimPipeline implements ClaimRunLifecycle: workers, checkpoints, gate, *)
(* stops, crashes and lost events are invisible in the life of a claim's   *)
(* runs and in the status its row shows.                                   *)
(***************************************************************************)

\* Where the latest run of claim c stands: the value the mapping gives phase.
Phase(c) ==
  IF LatestAttempt(c) = 0 THEN "none" ELSE status[<<c, LatestAttempt(c)>>]

(***************************************************************************)
(* How a step of the queue shows in the latest attempt.                    *)
(***************************************************************************)

\* The latest attempt is the recorded one with no later one recorded.
LEMMA LatestAttemptIs ==
  ASSUME NEW c \in Claims, NEW n \in Nat, n \in {0} \cup Recorded(c),
         \A m \in Recorded(c) : m <= n
  PROVE  LatestAttempt(c) = n
<1>1. /\ LatestAttempt(c) \in {0} \cup Recorded(c)
      /\ \A m \in Recorded(c) : m <= LatestAttempt(c)
      /\ LatestAttempt(c) \in 0..MaxAttempts
  BY LatestAttemptIsMax
<1>2. LatestAttempt(c) <= n /\ n <= LatestAttempt(c)
  <2>1. CASE n = 0
    BY <1>1, <2>1 DEF Recorded, Attempts
  <2>2. CASE n # 0
    BY <1>1, <2>2
  <2>. QED  BY <2>1, <2>2
<1>. QED  BY <1>1, <1>2, BoundsAssumption

\* It is the one in flight, whenever there is one.
LEMMA InFlightIsLatest ==
  ASSUME AttemptsInv, NEW c \in Claims, NEW a \in Attempts,
         status[<<c, a>>] \in InFlight
  PROVE  LatestAttempt(c) = a /\ Phase(c) = status[<<c, a>>]
<1>1. a \in Recorded(c)
  BY DEF Recorded, InFlight
<1>2. ASSUME NEW m \in Recorded(c) PROVE m <= a
  BY DEF Recorded, AttemptsInv, InFlight, Terminal, Attempts
<1>3. LatestAttempt(c) = a
  BY <1>1, <1>2, LatestAttemptIs DEF Attempts
<1>. QED  BY <1>3 DEF Phase, Attempts

\* A step that records no attempt of the claim leaves its latest.
LEMMA SameLatest ==
  ASSUME NEW c \in Claims,
         \A a \in Attempts : status'[<<c, a>>] = "absent" <=> status[<<c, a>>] = "absent"
  PROVE  LatestAttempt(c)' = LatestAttempt(c)
<1>1. Recorded(c)' = Recorded(c)
  BY DEF Recorded
<1>. QED  BY <1>1 DEF LatestAttempt

LEMMA SamePhase ==
  ASSUME NEW c \in Claims, \A a \in Attempts : status'[<<c, a>>] = status[<<c, a>>]
  PROVE  LatestAttempt(c)' = LatestAttempt(c) /\ Phase(c)' = Phase(c)
<1>1. LatestAttempt(c)' = LatestAttempt(c)
  BY SameLatest
<1>2. LatestAttempt(c) # 0 => LatestAttempt(c) \in Attempts
  BY LatestAttemptIsMax DEF Recorded
<1>. QED  BY <1>1, <1>2 DEF Phase

\* A run in flight that is moved to another status takes the phase with it,
\* and no other claim's.
LEMMA MovedPhase ==
  ASSUME TypeInv, AttemptsInv, NEW c \in Claims, NEW a \in Attempts,
         status[<<c, a>>] \in InFlight, NEW new, new # "absent",
         status' = [status EXCEPT ![<<c, a>>] = new]
  PROVE  /\ \A d \in Claims : LatestAttempt(d)' = LatestAttempt(d)
         /\ Phase(c) = status[<<c, a>>] /\ Phase(c)' = new
         /\ \A d \in Claims \ {c} : Phase(d)' = Phase(d)
<1>1. \A d \in Claims, b \in Attempts :
        status'[<<d, b>>] = IF d = c /\ b = a THEN new ELSE status[<<d, b>>]
  BY DEF TypeInv, TypeOK, Run
<1>2. \A d \in Claims : LatestAttempt(d)' = LatestAttempt(d)
  BY <1>1, SameLatest DEF InFlight
<1>3. LatestAttempt(c) = a /\ Phase(c) = status[<<c, a>>]
  BY InFlightIsLatest
<1>4. Phase(c)' = new
  BY <1>1, <1>2, <1>3 DEF Phase, Attempts
<1>5. \A d \in Claims \ {c} : Phase(d)' = Phase(d)
  BY <1>1, SamePhase
<1>. QED  BY <1>2, <1>3, <1>4, <1>5

(***************************************************************************)
(* The row, the callers and the savers.                                    *)
(***************************************************************************)

\* A request in progress is for a claim with a row, and a worker that has
\* saved its claim's row still finds its outcome there.
RowInv ==
  /\ \A k \in Callers : caller[k] # Idle => row[caller[k].claim] # "absent"
  /\ \A w \in Workers : pc[w] \in {"emit", "finalize"} =>
       row[job[w][1]] = ClaimStatusByRun[outcome[w]]

LEMMA ActiveCaller ==
  ASSUME NEW k \in Callers, TypeOK, caller[k] # Idle
  PROVE  caller[k].claim \in Claims
BY DEF TypeOK

LEMMA BusyJob ==
  ASSUME NEW w \in Workers, TypeInv, PipelineInv, Busy(w)
  PROVE  \E c \in Claims, a \in Attempts :
           /\ job[w] = <<c, a>> /\ <<c, a>> \in Run /\ job[w][1] = c
           /\ status[<<c, a>>] = "running"
BY DEF TypeInv, LocalTypes, PipelineInv, WorkersInv, Run

LEMMA InitRowInv == Init => RowInv
BY DEF Init, RowInv

\* A step that leaves the row alone.
LEMMA QuietRowInv ==
  ASSUME TypeInv, RowInv, UNCHANGED row,
         \A k \in Callers : caller'[k] # Idle =>
           \/ caller[k] # Idle /\ caller'[k].claim = caller[k].claim
           \/ row[caller'[k].claim] # "absent",
         \A w \in Workers : pc'[w] \in {"emit", "finalize"} =>
           /\ pc[w] \in {"emit", "finalize"}
           /\ job'[w] = job[w] /\ outcome'[w] = outcome[w]
  PROVE  RowInv'
BY DEF RowInv

LEMMA CallerRowInv ==
  ASSUME NEW k \in Callers, TypeInv, PipelineInv, RowInv, CallerStep(k)
  PROVE  RowInv'
<1>. USE DEF TypeInv, TypeOK
<1>1. ASSUME NEW c \in Claims, SubmitClaim(k, c) PROVE RowInv'
  <2>1. /\ row[c] = "absent" /\ row' = [row EXCEPT ![c] = "pending"]
        /\ caller' = [caller EXCEPT ![k] = [pc |-> "read", claim |-> c]]
        /\ UNCHANGED <<pc, job, outcome>>
    BY <1>1 DEF SubmitClaim, localVars
  <2>2. ASSUME NEW j \in Callers, caller'[j] # Idle
        PROVE  row'[caller'[j].claim] # "absent"
    <3>1. CASE j = k
      BY <2>1, <3>1
    <3>2. CASE j # k
      BY <2>1, <2>2, <3>2, ActiveCaller DEF RowInv
    <3>. QED  BY <3>1, <3>2
  <2>3. ASSUME NEW w \in Workers, pc[w] \in {"emit", "finalize"}
        PROVE  row'[job[w][1]] = ClaimStatusByRun[outcome[w]]
    <3>1. outcome[w] \in Terminal
      BY <2>3 DEF LocalTypes
    <3>2. row[job[w][1]] # "absent"
      BY <2>3, <3>1 DEF RowInv, ClaimStatusByRun, Terminal
    <3>. QED  BY <2>1, <2>3, <3>2 DEF RowInv
  <2>. QED  BY <2>1, <2>2, <2>3 DEF RowInv
<1>2. ASSUME NEW c \in Claims, ResubmitClaim(k, c) PROVE RowInv'
  BY <1>2, QuietRowInv DEF ResubmitClaim, callerOnly, localVars
<1>3. ASSUME ReadLatest(k) PROVE RowInv'
  <2>1. /\ caller[k] # Idle
        /\ UNCHANGED <<row, pc, job, outcome>>
    BY <1>3 DEF ReadLatest, Idle, callerOnly, localVars
  <2>2. \A j \in Callers : caller'[j] # Idle =>
          caller[j] # Idle /\ caller'[j].claim = caller[j].claim
    BY <1>3, <2>1 DEF ReadLatest, Idle
  <2>. QED  BY <2>1, <2>2, QuietRowInv
<1>4. ASSUME InsertRun(k) PROVE RowInv'
  BY <1>4, QuietRowInv DEF InsertRun, Idle, callerOnly, localVars
<1>. QED  BY <1>1, <1>2, <1>3, <1>4 DEF CallerStep

LEMMA WorkerRowInv ==
  ASSUME NEW w \in Workers, TypeInv, PipelineInv, ExclusiveExecution, RowInv,
         WorkerStep(w)
  PROVE  RowInv'
<1>. USE DEF TypeInv, TypeOK, localVars, notWorker
<1>1. CASE LoopTest(w)
  BY <1>1, QuietRowInv DEF LoopTest
<1>2. CASE ClaimNextRun(w)
  BY <1>2, QuietRowInv DEF ClaimNextRun
<1>3. CASE QueueEmpty(w)
  BY <1>3, QuietRowInv DEF QueueEmpty
<1>4. CASE StopBetweenStages(w)
  BY <1>4, QuietRowInv DEF StopBetweenStages, ForgetRun
<1>5. CASE StartStage(w)
  BY <1>5, QuietRowInv DEF StartStage
<1>6. CASE AgentReturns(w)
  BY <1>6, QuietRowInv DEF AgentReturns
<1>7. CASE AgentRaises(w)
  BY <1>7, QuietRowInv DEF AgentRaises
<1>8. CASE PersistCheckpoint(w)
  BY <1>8, QuietRowInv DEF PersistCheckpoint
<1>9. CASE AnnounceStage(w)
  BY <1>9, QuietRowInv DEF AnnounceStage
<1>10. CASE ApplyGate(w)
  BY <1>10, QuietRowInv DEF ApplyGate
<1>11. CASE SaveClaim(w)
  <2>. DEFINE shown == ClaimStatusByRun[outcome[w]]
  <2>1. pc[w] = "save" /\ Busy(w) /\ outcome[w] \in Terminal
    BY <1>11 DEF SaveClaim, Busy, LocalTypes
  <2>2. PICK c \in Claims : job[w][1] = c
    BY <2>1, BusyJob
  <2>3. shown # "absent"
    BY <2>1 DEF ClaimStatusByRun, Terminal
  <2>4. /\ \A d \in Claims : row'[d] = IF d = c THEN shown ELSE row[d]
        /\ pc' = [pc EXCEPT ![w] = "emit"]
        /\ UNCHANGED <<job, outcome, caller>>
    BY <1>11, <2>2 DEF SaveClaim
  <2>5. ASSUME NEW k \in Callers, caller[k] # Idle
        PROVE  row'[caller[k].claim] # "absent"
    BY <2>3, <2>4, <2>5, ActiveCaller DEF RowInv
  <2>6. ASSUME NEW v \in Workers, v # w, pc[v] \in {"emit", "finalize"}
        PROVE  row'[job[v][1]] = ClaimStatusByRun[outcome[v]]
    <3>1. Busy(v)
      BY <2>6 DEF Busy
    <3>2. job[v][1] \in Claims
      BY <3>1, BusyJob
    <3>3. job[v][1] # c
      BY <2>1, <2>2, <2>6, <3>1 DEF ExclusiveExecution
    <3>. QED  BY <2>4, <2>6, <3>2, <3>3 DEF RowInv
  <2>. HIDE DEF shown
  <2>7. row'[job[w][1]] = shown
    BY <2>2, <2>4
  <2>. QED  BY <2>4, <2>5, <2>6, <2>7 DEF RowInv, shown
<1>12. CASE EmitFinalized(w)
  BY <1>12, QuietRowInv DEF EmitFinalized
<1>13. CASE FinalizeRun(w)
  BY <1>13, QuietRowInv DEF FinalizeRun, ForgetRun
<1>. QED
  BY <1>1, <1>2, <1>3, <1>4, <1>5, <1>6, <1>7, <1>8, <1>9, <1>10, <1>11,
     <1>12, <1>13
  DEF WorkerStep

LEMMA NextRowInv ==
  ASSUME TypeInv, PipelineInv, ExclusiveExecution, RowInv, [Next]_vars
  PROVE  RowInv'
<1>. USE DEF TypeInv, TypeOK, localVars
<1>1. ASSUME NEW w \in Workers, RequestStop(w) \/ Crash(w) \/ StartWorker(w)
      PROVE  RowInv'
  BY <1>1, QuietRowInv DEF RequestStop, Crash, StartWorker, ForgetRun
<1>2. ASSUME NEW k \in Callers, AbandonRequest(k) PROVE RowInv'
  BY <1>2, QuietRowInv DEF AbandonRequest
<1>3. CASE UNCHANGED vars
  BY <1>3, QuietRowInv DEF vars
<1>. QED  BY <1>1, <1>2, <1>3, CallerRowInv, WorkerRowInv DEF Next

(***************************************************************************)
(* Every step of the pipeline is one of the lifecycle, or a stutter.       *)
(***************************************************************************)

LEMMA InitLifecycle == Init => Lifecycle!LifecycleInit
<1>. SUFFICES ASSUME Init PROVE Lifecycle!LifecycleInit
  OBVIOUS
<1>1. ASSUME NEW c \in Claims PROVE LatestAttempt(c) = 0
  <2>1. Recorded(c) = {}
    BY DEF Init, Recorded, Run
  <2>. QED  BY <2>1, LatestAttemptIs
<1>. QED  BY <1>1 DEF Init, Lifecycle!LifecycleInit

LEMMA LifecycleStutter ==
  ASSUME UNCHANGED <<status, row>>
  PROVE  UNCHANGED Lifecycle!lifecycleVars
<1>1. \A c \in Claims :
        /\ LatestAttempt(c)' = LatestAttempt(c)
        /\ Phase(c)' = Phase(c)
  BY SamePhase
<1>. QED  BY <1>1 DEF Phase, Lifecycle!lifecycleVars

\* How the variables of the lifecycle are read off those of the pipeline.
LEMMA LifecycleMapping ==
  /\ Lifecycle!lifecycleVars =
       <<[c \in Claims |-> LatestAttempt(c)], [c \in Claims |-> Phase(c)], row>>
  /\ Lifecycle!Outcomes = Terminal
  /\ Lifecycle!ShownAs = ClaimStatusByRun
BY DEF Lifecycle!lifecycleVars, Lifecycle!Outcomes, Lifecycle!ShownAs, Phase,
       Terminal, ClaimStatusByRun

\* A worker moves its run, which is the claim's latest, to another status.
LEMMA MoveMaps ==
  ASSUME TypeInv, AttemptsInv, UNCHANGED row,
         NEW c \in Claims, NEW a \in Attempts, status[<<c, a>>] \in InFlight,
         NEW new, status' = [status EXCEPT ![<<c, a>>] = new],
         \/ status[<<c, a>>] = "queued" /\ new = "running"
         \/ status[<<c, a>>] = "running" /\ new = "queued"
         \/ /\ status[<<c, a>>] = "running" /\ new \in Terminal
            /\ row[c] = ClaimStatusByRun[new]
  PROVE  Lifecycle!LifecycleNext
<1>1. /\ new # "absent"
      /\ \A d \in Claims : LatestAttempt(d)' = LatestAttempt(d)
      /\ Phase(c) = status[<<c, a>>] /\ Phase(c)' = new
      /\ \A d \in Claims \ {c} : Phase(d)' = Phase(d)
  <2>1. new # "absent"
    BY DEF Terminal
  <2>. QED  BY <2>1, MovedPhase
<1>2. /\ [d \in Claims |-> LatestAttempt(d)]' = [d \in Claims |-> LatestAttempt(d)]
      /\ [d \in Claims |-> Phase(d)]' = [[d \in Claims |-> Phase(d)] EXCEPT ![c] = new]
  BY <1>1
<1>3. CASE status[<<c, a>>] = "queued" /\ new = "running"
  <2>1. Lifecycle!Start(c)
    BY <1>1, <1>2, <1>3 DEF Lifecycle!Start, Phase
  <2>. QED  BY <2>1 DEF Lifecycle!LifecycleNext
<1>4. CASE status[<<c, a>>] = "running" /\ new = "queued"
  <2>1. Lifecycle!GiveBack(c)
    BY <1>1, <1>2, <1>4 DEF Lifecycle!GiveBack, Phase
  <2>. QED  BY <2>1 DEF Lifecycle!LifecycleNext
<1>5. CASE /\ status[<<c, a>>] = "running" /\ new \in Terminal
           /\ row[c] = ClaimStatusByRun[new]
  <2>1. Lifecycle!Finish(c, new)
    BY <1>1, <1>2, <1>5, LifecycleMapping DEF Lifecycle!Finish, Phase
  <2>. QED  BY <1>5, <2>1, LifecycleMapping DEF Lifecycle!LifecycleNext
<1>. QED  BY <1>3, <1>4, <1>5

\* submit_claim's upsert is Receive.
LEMMA SubmitMaps ==
  ASSUME NEW k \in Callers, NEW c \in Claims, SubmitClaim(k, c)
  PROVE  Lifecycle!LifecycleNext
<1>1. UNCHANGED status
  BY DEF SubmitClaim, queueVars
<1>2. \A d \in Claims : LatestAttempt(d)' = LatestAttempt(d) /\ Phase(d)' = Phase(d)
  BY <1>1, SamePhase
<1>3. Lifecycle!Receive(c)
  BY <1>2 DEF SubmitClaim, Lifecycle!Receive, Phase
<1>. QED  BY <1>3 DEF Lifecycle!LifecycleNext

\* The insert of enqueue_claim_run is Enqueue: what the caller read two steps
\* ago still makes its attempt the next one.
LEMMA InsertMaps ==
  ASSUME NEW k \in Callers, TypeInv, PipelineInv, RowInv, InsertRun(k),
         ~ UNCHANGED status
  PROVE  Lifecycle!LifecycleNext
<1>1. PICK c \in Claims, n \in Attempts :
        caller[k].claim = c /\ caller[k].attempt = n /\ <<c, n>> \in Run
  BY InsertingCaller DEF TypeInv, InsertRun
<1>2. /\ status[<<c, n>>] = "absent"
      /\ status' = [status EXCEPT ![<<c, n>>] = "queued"]
      /\ UNCHANGED row
  BY <1>1 DEF InsertRun, queueVars, callerOnly
<1>3. \A a \in Attempts : a < n => status[<<c, a>>] \in Terminal
  BY <1>1 DEF PipelineInv, CallersInv, InsertRun
<1>4. \A a \in Attempts : n < a => status[<<c, a>>] = "absent"
  BY <1>1, <1>2 DEF PipelineInv, AttemptsInv, Terminal
<1>5. LatestAttempt(c) = n - 1
  <2>1. n - 1 \in Nat
    BY <1>1, BoundsAssumption DEF Attempts
  <2>2. n - 1 \in {0} \cup Recorded(c)
    BY <1>1, <1>3, BoundsAssumption DEF Recorded, Attempts, Terminal
  <2>3. \A m \in Recorded(c) : m <= n - 1
    BY <1>1, <1>2, <1>4, BoundsAssumption DEF Recorded, Attempts
  <2>. QED  BY <1>1, <2>1, <2>2, <2>3, LatestAttemptIs
<1>6. Phase(c) \in {"none"} \cup Terminal
  BY <1>1, <1>3, <1>5, BoundsAssumption DEF Phase, Attempts
<1>7. \A d \in Claims, a \in Attempts :
        status'[<<d, a>>] = IF d = c /\ a = n THEN "queued" ELSE status[<<d, a>>]
  BY <1>1, <1>2 DEF TypeInv, TypeOK, Run
<1>8. LatestAttempt(c)' = n
  <2>1. Recorded(c)' = Recorded(c) \cup {n}
    BY <1>1, <1>7 DEF Recorded
  <2>2. \A m \in Recorded(c) : m <= n /\ m \in Nat
    BY <1>1, <1>2, <1>4, BoundsAssumption DEF Recorded, Attempts
  <2>3. \A x \in {0} \cup Recorded(c)' :
          (\A m \in Recorded(c)' : m <= x) <=> x = n
    BY <1>1, <2>1, <2>2 DEF Attempts
  <2>4. n \in {0} \cup Recorded(c)'
    BY <2>1
  <2>5. LatestAttempt(c)' =
          CHOOSE x \in {0} \cup Recorded(c)' : \A m \in Recorded(c)' : m <= x
    BY DEF LatestAttempt
  <2>. QED  BY <2>3, <2>4, <2>5
<1>9. Phase(c)' = "queued"
  BY <1>1, <1>7, <1>8 DEF Phase, Attempts
<1>10. \A d \in Claims \ {c} :
         LatestAttempt(d)' = LatestAttempt(d) /\ Phase(d)' = Phase(d)
  BY <1>7, SamePhase
<1>11. row[c] # "absent"
  BY <1>1 DEF RowInv, InsertRun, Idle
<1>12. /\ [d \in Claims |-> LatestAttempt(d)]' =
            [[d \in Claims |-> LatestAttempt(d)] EXCEPT ![c] = @ + 1]
       /\ [d \in Claims |-> Phase(d)]' =
            [[d \in Claims |-> Phase(d)] EXCEPT ![c] = "queued"]
  <2>1. LatestAttempt(c)' = LatestAttempt(c) + 1
    BY <1>1, <1>5, <1>8, BoundsAssumption DEF Attempts
  <2>2. \A d \in Claims :
          /\ LatestAttempt(d)' = IF d = c THEN LatestAttempt(c) + 1
                                 ELSE LatestAttempt(d)
          /\ Phase(d)' = IF d = c THEN "queued" ELSE Phase(d)
    BY <1>9, <1>10, <2>1
  <2>. QED  BY <2>2
<1>13. Lifecycle!Enqueue(c)
  BY <1>1, <1>2, <1>6, <1>11, <1>12, LifecycleMapping
  DEF Lifecycle!Enqueue, Phase
<1>. QED  BY <1>1, <1>13 DEF Lifecycle!LifecycleNext

\* _save_claim is Publish.
LEMMA SaveMaps ==
  ASSUME NEW w \in Workers, TypeInv, PipelineInv, SaveClaim(w)
  PROVE  Lifecycle!LifecycleNext
<1>1. pc[w] = "save" /\ Busy(w) /\ outcome[w] \in Terminal /\ UNCHANGED status
  BY DEF SaveClaim, Busy, TypeInv, LocalTypes, queueVars
<1>2. PICK c \in Claims, a \in Attempts :
        job[w] = <<c, a>> /\ job[w][1] = c /\ status[<<c, a>>] = "running"
  BY <1>1, BusyJob
<1>3. Phase(c) = "running"
  BY <1>2, InFlightIsLatest DEF PipelineInv, InFlight
<1>4. \A d \in Claims : LatestAttempt(d)' = LatestAttempt(d) /\ Phase(d)' = Phase(d)
  BY <1>1, SamePhase
<1>5. row' = [row EXCEPT ![c] = ClaimStatusByRun[outcome[w]]]
  BY <1>2 DEF SaveClaim
<1>6. Lifecycle!Publish(c, outcome[w])
  BY <1>3, <1>4, <1>5, LifecycleMapping DEF Lifecycle!Publish, Phase
<1>. QED  BY <1>1, <1>6, LifecycleMapping DEF Lifecycle!LifecycleNext

\* The three steps of a worker that move a run: claim_next_run, requeue_run,
\* _finalize_run.
LEMMA WorkerMaps ==
  ASSUME NEW w \in Workers, TypeInv, PipelineInv, RowInv,
         ClaimNextRun(w) \/ StopBetweenStages(w) \/ FinalizeRun(w)
  PROVE  Lifecycle!LifecycleNext
<1>. USE DEF InFlight, PipelineInv
<1>1. CASE ClaimNextRun(w)
  <2>1. PICK r \in Run : /\ status[r] = "queued"
                         /\ status' = [status EXCEPT ![r] = "running"]
    BY <1>1 DEF ClaimNextRun, NextQueued
  <2>2. PICK c \in Claims, a \in Attempts : r = <<c, a>>
    BY DEF Run
  <2>. QED  BY <1>1, <2>1, <2>2, MoveMaps DEF ClaimNextRun
<1>2. CASE StopBetweenStages(w) \/ FinalizeRun(w)
  <2>1. Busy(w)
    BY <1>2 DEF StopBetweenStages, FinalizeRun, Busy
  <2>2. PICK c \in Claims, a \in Attempts :
          /\ job[w] = <<c, a>> /\ job[w][1] = c /\ <<c, a>> \in Run
          /\ status[<<c, a>>] = "running"
    BY <2>1, BusyJob
  <2>3. CASE StopBetweenStages(w)
    <3>1. status' = [status EXCEPT ![<<c, a>>] = "queued"] /\ UNCHANGED row
      BY <2>2, <2>3 DEF StopBetweenStages, TypeInv, TypeOK
    <3>. QED  BY <2>2, <3>1, MoveMaps
  <2>4. CASE FinalizeRun(w)
    <3>1. /\ outcome[w] \in Terminal
          /\ row[c] = ClaimStatusByRun[outcome[w]]
          /\ status' = [status EXCEPT ![<<c, a>>] = outcome[w]]
          /\ UNCHANGED row
      BY <2>2, <2>4 DEF FinalizeRun, RowInv, TypeInv, LocalTypes
    <3>. QED  BY <2>2, <3>1, MoveMaps
  <2>. QED  BY <1>2, <2>3, <2>4
<1>. QED  BY <1>1, <1>2

LEMMA NextLifecycle ==
  ASSUME TypeInv, PipelineInv, RowInv, [Next]_vars
  PROVE  [Lifecycle!LifecycleNext]_(Lifecycle!lifecycleVars)
<1>1. \/ UNCHANGED <<status, row>>
      \/ \E k \in Callers, c \in Claims : SubmitClaim(k, c)
      \/ \E k \in Callers : InsertRun(k) /\ ~ UNCHANGED status
      \/ \E w \in Workers : SaveClaim(w)
      \/ \E w \in Workers : ClaimNextRun(w) \/ StopBetweenStages(w) \/ FinalizeRun(w)
  BY DEF Next, CallerStep, WorkerStep, ResubmitClaim, ReadLatest, InsertRun,
         AbandonRequest, LoopTest, QueueEmpty, StartStage, AgentReturns,
         AgentRaises, PersistCheckpoint, AnnounceStage, ApplyGate,
         EmitFinalized, RequestStop, Crash, StartWorker, vars, queueVars,
         callerOnly
<1>. QED
  BY <1>1, LifecycleStutter, SubmitMaps, InsertMaps, SaveMaps, WorkerMaps

\* The pipeline keeps what the lifecycle promises: one run in flight, a
\* finished run never back in the queue, no row that changes outside an
\* executing run, no run over before the row shows its outcome.
THEOREM ImplementsLifecycleHolds == Spec => ImplementsLifecycle
<1>1. TypeInv /\ PipelineInv /\ ExclusiveExecution /\ RowInv /\ [Next]_vars => RowInv'
  BY NextRowInv
<1>2. TypeInv /\ PipelineInv /\ RowInv /\ [Next]_vars
        => [Lifecycle!LifecycleNext]_(Lifecycle!lifecycleVars)
  BY NextLifecycle
<1>3. Spec => []RowInv
  BY <1>1, InitRowInv, PipelineInvariant, ExclusiveExecutionHolds, PTL DEF Spec
<1>. QED
  BY <1>2, <1>3, InitLifecycle, PipelineInvariant, PTL
  DEF Spec, ImplementsLifecycle, Lifecycle!LifecycleSpec

(***************************************************************************)
(* AgentCalls: the requests behind a stage.                                *)
(***************************************************************************)

(***************************************************************************)
(* The composition is a pipeline.                                          *)
(***************************************************************************)

\* A step around the agents' calls is a step of the pipeline, or none of it.
LEMMA CallsNextIsNext == [CallsNext]_allVars => [Next]_vars
<1>. SUFFICES ASSUME [CallsNext]_allVars PROVE [Next]_vars
  OBVIOUS
<1>1. ASSUME NEW w \in Workers, ModelStep(w) PROVE UNCHANGED vars
  BY <1>1 DEF ModelStep, Answer, LetterWithJargon, Refuse, RejectTemperature,
              FailTransiently, Fail, Ends
<1>2. ASSUME NEW w \in Workers, StageStep(w), ~ ModelStep(w) PROVE WorkerStep(w)
  BY <1>2 DEF StageStep, BeginStage, SkipModel, EndStage, FailStage,
              CheckpointStage, WorkerStep
<1>3. ASSUME NEW w \in Workers, RunStep(w) PROVE WorkerStep(w)
  BY <1>3 DEF RunStep, WorkerStep
<1>4. ASSUME NEW w \in Workers, StartProcess(w) PROVE StartWorker(w)
  BY <1>4 DEF StartProcess
<1>5. CASE UNCHANGED allVars
  BY <1>5 DEF allVars
<1>. QED  BY <1>1, <1>2, <1>3, <1>4, <1>5 DEF CallsNext, Next

\* Hence all that is proved of the pipeline holds of it with its agents.
THEOREM CallsImplementPipeline == CallsSpec => Spec
<1>1. CallsInit => Init
  BY DEF CallsInit
<1>. QED  BY <1>1, CallsNextIsNext, PTL DEF CallsSpec, Spec

(***************************************************************************)
(* Types.                                                                  *)
(***************************************************************************)

CallRecords ==
  [pc : {"ask", "answered", "template", "raised"}, tries : 0..MaxRetries,
   round : 1..2, letter : 1..2, sent : Nat]

LEMMA NewCallType == NewCall \in CallRecords
BY CallsAssumption DEF NewCall, CallRecords

LEMMA CallRecordFields ==
  ASSUME NEW w \in Workers, CallsTypeOK
  PROVE  /\ call[w] \in CallRecords
         /\ call[w].pc \in {"ask", "answered", "template", "raised"}
         /\ call[w].tries \in 0..MaxRetries
         /\ call[w].round \in 1..2 /\ call[w].letter \in 1..2
         /\ call[w].sent \in Nat
BY DEF CallsTypeOK, CallRecords

\* The end of a request gives the worker's call record a new value of the same
\* type and counts the request; the other workers' calls are not touched.
LEMMA EndsEffect ==
  ASSUME NEW w \in Workers, NEW o, NEW next \in CallRecords,
         TypeInv, CallsTypeOK, Ends(w, o, next)
  PROVE  /\ call' \in [Workers -> CallRecords]
         /\ hit' \in [Workers -> SUBSET Claims]
         /\ call'[w].pc = next.pc /\ call'[w].tries = next.tries
         /\ call'[w].round = next.round /\ call'[w].letter = next.letter
         /\ call'[w].sent = next.sent + 1
         /\ \A v \in Workers \ {w} : call'[v] = call[v] /\ hit'[v] = hit[v]
         /\ mode.stage = at[w] => job[w][1] \in hit'[w]
<1>. DEFINE new == [next EXCEPT !.sent = @ + 1]
<1>1. /\ new \in CallRecords
      /\ new.pc = next.pc /\ new.tries = next.tries /\ new.round = next.round
      /\ new.letter = next.letter /\ new.sent = next.sent + 1
  BY DEF CallRecords
<1>2. call' = [call EXCEPT ![w] = new]
  BY DEF Ends
<1>. HIDE DEF new
<1>3. call \in [Workers -> CallRecords] /\ hit \in [Workers -> SUBSET Claims]
  BY DEF CallsTypeOK, CallRecords
<1>4. job[w][1] \in Claims
  <2>1. Busy(w)
    BY DEF Ends, Busy
  <2>. QED  BY <2>1 DEF TypeInv, LocalTypes, Run
<1>5. /\ hit' \in [Workers -> SUBSET Claims]
      /\ \A v \in Workers \ {w} : hit'[v] = hit[v]
      /\ mode.stage = at[w] => job[w][1] \in hit'[w]
  BY <1>3, <1>4 DEF Ends
<1>. QED  BY <1>1, <1>2, <1>3, <1>5

LEMMA GivenUpFields ==
  ASSUME NEW w \in Workers, CallsTypeOK, NEW refused \in BOOLEAN
  PROVE  /\ GivenUp(w, refused) \in CallRecords
         /\ GivenUp(w, refused).pc =
              CASE at[w] = SimilarityStage -> "answered"
                [] at[w] = DecisionStage /\ (refused \/ call[w].letter = 2) -> "template"
                [] OTHER -> "raised"
         /\ GivenUp(w, refused).tries = call[w].tries
         /\ GivenUp(w, refused).round = call[w].round
         /\ GivenUp(w, refused).letter = call[w].letter
         /\ GivenUp(w, refused).sent = call[w].sent
<1>1. call[w] \in CallRecords
  BY CallRecordFields
<1>. QED  BY <1>1 DEF GivenUp, CallRecords

(***************************************************************************)
(* The invariant of a worker's calls.                                      *)
(***************************************************************************)

\* The requests a stage can have sent where its loops stand now: a full round
\* of tries for each round and each letter behind it.
Spent(w) ==
  (IF call[w].letter = 2 THEN 2 * (MaxRetries + 1) ELSE 0)
    + (IF call[w].round = 2 THEN MaxRetries + 1 ELSE 0)
    + call[w].tries
    + (IF call[w].pc = "ask" THEN 0 ELSE 1)
    + (IF ModelOf[at[w]] \in dropped[w] THEN 1 ELSE 0)

LoopsInv(w) ==
  pc[w] = "agent" =>
    /\ call[w].sent <= Spent(w)
    /\ at[w] = SimilarityStage => call[w].round = 1
    /\ at[w] # DecisionStage => call[w].letter = 1
    /\ call[w].pc = "template" => at[w] = DecisionStage

\* A template letter is a decision, and is entered with failing confidence.
LetterInv(w) ==
  pc[w] = "checkpoint" /\ call[w].pc = "template" =>
    at[w] = DecisionStage /\ cps[w][DecisionStage] = "bad"

\* The one fault of a fixture finds the stage's loops fresh.
RescueInv(w) ==
  mode.kind \in {"refusal_once", "schema_once"} =>
    /\ call[w].pc \in {"ask", "answered"}
    /\ pc[w] = "agent" /\ at[w] = mode.stage /\ job[w][1] \notin hit[w] =>
         call[w].round = 1 /\ call[w].tries = 0

CallInv(w) == LoopsInv(w) /\ LetterInv(w) /\ RescueInv(w)

CallsInv == CallsTypeOK /\ \A w \in Workers : CallInv(w)

LEMMA InitCallInv ==
  CallsInit => CallsTypeOK /\ \A w \in Workers : CallInv(w)
BY NewCallType DEF CallsInit, CallsTypeOK, Init, CallInv, LoopsInv, LetterInv,
                   RescueInv, NewCall, CallRecords

\* A worker whose program and calls a step leaves alone keeps its invariant.
LEMMA QuietCallInv ==
  ASSUME NEW v \in Workers, CallInv(v), mode' = mode,
         pc'[v] = pc[v], at'[v] = at[v], job'[v] = job[v], cps'[v] = cps[v],
         call'[v] = call[v], dropped'[v] = dropped[v], hit'[v] = hit[v]
  PROVE  CallInv(v)'
BY DEF CallInv, LoopsInv, LetterInv, RescueInv, Spent

\* So does one that is outside its agents.
LEMMA OutsideCallInv ==
  ASSUME NEW v \in Workers, CallInv(v), mode' = mode,
         pc'[v] \notin {"agent", "checkpoint"}, call'[v] \in {call[v], NewCall}
  PROVE  CallInv(v)'
BY DEF CallInv, LoopsInv, LetterInv, RescueInv, NewCall

\* How the fixture with a one-shot fault answers: cleanly, but for the first
\* request of a claim at its stage.
LEMMA OneShotOutcomes ==
  ASSUME NEW w \in Workers, CallsTypeOK,
         mode.kind \in {"refusal_once", "schema_once"},
         NEW o \in Outcomes(w), o # "clean"
  PROVE  /\ o = IF mode.kind = "refusal_once" THEN "refusal" ELSE "transient"
         /\ mode.stage = at[w] /\ job[w][1] \notin hit[w]
BY DEF Outcomes, FixtureOutcome, FaultOutcome, Live

\* Letters with jargon come from the decision agent only.
LEMMA JargonOutcome ==
  ASSUME NEW w \in Workers, CallsTypeOK, "jargon" \in Outcomes(w)
  PROVE  at[w] = DecisionStage
BY ModesAssumption DEF Outcomes, FixtureOutcome, FaultOutcome, Live, FixtureFaults,
                       CallsTypeOK

\* The temperature is rejected at most once for a model.
LEMMA TemperatureOutcome ==
  ASSUME NEW w \in Workers, CallsTypeOK, "temperature" \in Outcomes(w)
  PROVE  ModelOf[at[w]] \notin dropped[w]
BY ModesAssumption DEF Outcomes, FixtureOutcome, FaultOutcome, Live, FixtureFaults,
                       CallsTypeOK

\* The loops start over with a second round, or with a second letter.
LEMMA SecondRound ==
  ASSUME NEW c \in CallRecords
  PROVE  LET next == [c EXCEPT !.round = 2, !.tries = 0]
         IN  /\ next \in CallRecords /\ next.sent = c.sent
             /\ next.letter = c.letter /\ next.pc = c.pc
             /\ next.tries = 0 /\ next.round = 2
<1>1. 0 \in 0..MaxRetries /\ 2 \in 1..2
  BY CallsAssumption
<1>. QED  BY <1>1 DEF CallRecords

LEMMA SecondLetter ==
  ASSUME NEW n \in Nat
  PROVE  LET next == [NewCall EXCEPT !.letter = 2, !.sent = n]
         IN  /\ next \in CallRecords /\ next.sent = n /\ next.pc = "ask"
             /\ next.tries = 0 /\ next.round = 1 /\ next.letter = 2
<1>1. /\ 0 \in 0..MaxRetries /\ 1 \in 1..2 /\ 2 \in 1..2
      /\ "ask" \in {"ask", "answered", "template", "raised"}
  BY CallsAssumption
<1>. QED  BY <1>1 DEF CallRecords, NewCall

LEMMA ModelStepCallInv ==
  ASSUME NEW w \in Workers, TypeInv, CallsTypeOK, CallInv(w), ModelStep(w)
  PROVE  CallInv(w)' /\ call' \in [Workers -> CallRecords]
         /\ hit' \in [Workers -> SUBSET Claims]
         /\ \A v \in Workers \ {w} : call'[v] = call[v] /\ hit'[v] = hit[v]
<1>. DEFINE c == call[w]
            effect(n) ==
              /\ call' \in [Workers -> CallRecords]
              /\ hit' \in [Workers -> SUBSET Claims]
              /\ call'[w].pc = n.pc /\ call'[w].tries = n.tries
              /\ call'[w].round = n.round /\ call'[w].letter = n.letter
              /\ call'[w].sent = n.sent + 1
              /\ \A v \in Workers \ {w} : call'[v] = call[v] /\ hit'[v] = hit[v]
              /\ mode.stage = at[w] => job[w][1] \in hit'[w]
<1>1. /\ pc[w] = "agent" /\ c.pc = "ask"
      /\ UNCHANGED <<pc, at, job, cps, mode>>
  BY DEF ModelStep, Answer, LetterWithJargon, Refuse, RejectTemperature,
         FailTransiently, Fail, Ends, vars, localVars
<1>2. /\ c \in CallRecords /\ c.tries \in 0..MaxRetries /\ c.round \in 1..2
      /\ c.letter \in 1..2 /\ c.sent \in Nat
  BY CallRecordFields
<1>3. CASE Answer(w)
  <2>. DEFINE next == [c EXCEPT !.pc = "answered"]
  <2>1. next \in CallRecords /\ next.pc = "answered" /\ next.tries = c.tries
        /\ next.round = c.round /\ next.letter = c.letter /\ next.sent = c.sent
    BY <1>2 DEF CallRecords
  <2>2. Ends(w, "clean", next) /\ UNCHANGED dropped
    BY <1>3 DEF Answer
  <2>. HIDE DEF next
  <2>3. effect(next)
    BY <1>2, <2>1, <2>2, EndsEffect
  <2>4. LoopsInv(w)'
    BY <1>1, <1>2, <2>1, <2>2, <2>3, CallsAssumption DEF CallInv, LoopsInv, Spent
  <2>5. LetterInv(w)' /\ RescueInv(w)'
    BY <1>1, <1>2, <2>1, <2>2, <2>3, CallsAssumption DEF CallInv, LetterInv, RescueInv
  <2>. QED  BY <2>3, <2>4, <2>5 DEF CallInv
<1>4. CASE LetterWithJargon(w)
  <2>. DEFINE next == IF c.letter = 1
                      THEN [NewCall EXCEPT !.letter = 2, !.sent = c.sent]
                      ELSE [c EXCEPT !.pc = "template"]
  <2>1. /\ next \in CallRecords /\ next.sent = c.sent
        /\ c.letter = 1 => /\ next.pc = "ask" /\ next.tries = 0
                           /\ next.round = 1 /\ next.letter = 2
        /\ c.letter # 1 => /\ next.pc = "template" /\ next.tries = c.tries
                           /\ next.round = c.round /\ next.letter = c.letter
    <3>1. c.letter = 1 => next = [NewCall EXCEPT !.letter = 2, !.sent = c.sent]
      OBVIOUS
    <3>2. c.letter # 1 => next = [c EXCEPT !.pc = "template"]
      OBVIOUS
    <3>. HIDE DEF next
    <3>3. CASE c.letter = 1
      BY <1>2, <3>1, <3>3, SecondLetter
    <3>4. CASE c.letter # 1
      BY <1>2, <3>2, <3>4 DEF CallRecords
    <3>. QED  BY <3>3, <3>4
  <2>2. Ends(w, "jargon", next) /\ UNCHANGED dropped
    BY <1>4 DEF LetterWithJargon
  <2>. HIDE DEF next
  <2>3. "jargon" \in Outcomes(w)
    BY <2>2 DEF Ends
  <2>4. at[w] = DecisionStage /\ at[w] # SimilarityStage
        /\ mode.kind \notin {"refusal_once", "schema_once"}
    BY <2>3, JargonOutcome, OneShotOutcomes, CallsAssumption
  <2>5. effect(next)
    BY <1>2, <2>1, <2>2, EndsEffect
  <2>6. LoopsInv(w)'
    BY <1>1, <1>2, <2>1, <2>2, <2>4, <2>5, CallsAssumption DEF CallInv, LoopsInv, Spent
  <2>7. LetterInv(w)' /\ RescueInv(w)'
    BY <1>1, <1>2, <2>1, <2>2, <2>4, <2>5, CallsAssumption DEF CallInv, LetterInv, RescueInv
  <2>. QED  BY <2>5, <2>6, <2>7 DEF CallInv
<1>5. CASE Refuse(w)
  <2>. DEFINE again == c.round = 1 /\ at[w] # SimilarityStage
              next == IF again THEN [c EXCEPT !.round = 2, !.tries = 0]
                      ELSE GivenUp(w, TRUE)
  <2>1. /\ next \in CallRecords /\ next.sent = c.sent /\ next.letter = c.letter
        /\ again => next.pc = "ask" /\ next.tries = 0 /\ next.round = 2
        /\ ~again => /\ next.tries = c.tries /\ next.round = c.round
                     /\ at[w] = SimilarityStage => next.pc = "answered"
                     /\ next.pc = "template" => at[w] = DecisionStage
                     /\ next.pc # "ask"
    <3>1. again => /\ next \in CallRecords /\ next.sent = c.sent
                   /\ next.letter = c.letter /\ next.pc = "ask"
                   /\ next.tries = 0 /\ next.round = 2
      BY <1>1, <1>2, SecondRound
    <3>2. ~again => next = GivenUp(w, TRUE)
      OBVIOUS
    <3>. HIDE DEF next
    <3>. QED  BY <3>1, <3>2, GivenUpFields, CallsAssumption
  <2>2. Ends(w, "refusal", next) /\ UNCHANGED dropped
    BY <1>5 DEF Refuse
  <2>. HIDE DEF next
  <2>3. mode.kind \in {"refusal_once", "schema_once"} =>
          mode.stage = at[w] /\ job[w][1] \notin hit[w]
    BY <2>2, OneShotOutcomes DEF Ends
  <2>4. effect(next)
    BY <1>2, <2>1, <2>2, EndsEffect
  <2>5. LoopsInv(w)'
    BY <1>1, <1>2, <2>1, <2>2, <2>3, <2>4, CallsAssumption DEF CallInv, LoopsInv, Spent
  <2>6. LetterInv(w)' /\ RescueInv(w)'
    BY <1>1, <1>2, <2>1, <2>2, <2>3, <2>4, CallsAssumption DEF CallInv, LetterInv, RescueInv
  <2>. QED  BY <2>4, <2>5, <2>6 DEF CallInv
<1>6. CASE RejectTemperature(w)
  <2>1. Ends(w, "temperature", c)
        /\ dropped' = [dropped EXCEPT ![w] = @ \cup {ModelOf[at[w]]}]
    BY <1>6 DEF RejectTemperature
  <2>2. ModelOf[at[w]] \notin dropped[w]
        /\ mode.kind \notin {"refusal_once", "schema_once"}
    BY <2>1, TemperatureOutcome, OneShotOutcomes DEF Ends
  <2>3. ModelOf[at[w]] \in dropped'[w]
    BY <2>1 DEF CallsTypeOK
  <2>4. effect(c)
    BY <1>2, <2>1, <2>2, EndsEffect
  <2>5. LoopsInv(w)'
    BY <1>1, <1>2, <2>1, <2>2, <2>3, <2>4, CallsAssumption DEF CallInv, LoopsInv, Spent
  <2>6. LetterInv(w)' /\ RescueInv(w)'
    BY <1>1, <1>2, <2>1, <2>2, <2>3, <2>4, CallsAssumption DEF CallInv, LetterInv, RescueInv
  <2>. QED  BY <2>4, <2>5, <2>6 DEF CallInv
<1>7. CASE FailTransiently(w)
  <2>. DEFINE again == c.tries < MaxRetries
              next == IF c.tries < MaxRetries THEN [c EXCEPT !.tries = @ + 1]
                      ELSE GivenUp(w, FALSE)
  <2>1. /\ next \in CallRecords /\ next.sent = c.sent
        /\ next.round = c.round /\ next.letter = c.letter
        /\ again => next.pc = "ask" /\ next.tries = c.tries + 1
        /\ ~again => /\ next.tries = c.tries /\ next.pc # "ask"
                     /\ next.pc = "template" => at[w] = DecisionStage
    <3>1. again => /\ next \in CallRecords /\ next.sent = c.sent
                   /\ next.round = c.round /\ next.letter = c.letter
                   /\ next.pc = "ask" /\ next.tries = c.tries + 1
      BY <1>1, <1>2, CallsAssumption DEF CallRecords
    <3>2. ~again => next = GivenUp(w, FALSE)
      OBVIOUS
    <3>. HIDE DEF next
    <3>. QED  BY <3>1, <3>2, GivenUpFields, CallsAssumption
  <2>2. Ends(w, "transient", next) /\ UNCHANGED dropped
    BY <1>7 DEF FailTransiently
  <2>. HIDE DEF next
  <2>3. mode.kind \in {"refusal_once", "schema_once"} =>
          mode.stage = at[w] /\ job[w][1] \notin hit[w]
    BY <2>2, OneShotOutcomes DEF Ends
  <2>4. effect(next)
    BY <1>2, <2>1, <2>2, EndsEffect
  <2>5. LoopsInv(w)'
    BY <1>1, <1>2, <2>1, <2>2, <2>3, <2>4, CallsAssumption DEF CallInv, LoopsInv, Spent
  <2>6. LetterInv(w)' /\ RescueInv(w)'
    BY <1>1, <1>2, <2>1, <2>2, <2>3, <2>4, CallsAssumption DEF CallInv, LetterInv, RescueInv
  <2>. QED  BY <2>4, <2>5, <2>6 DEF CallInv
<1>8. CASE Fail(w)
  <2>. DEFINE next == GivenUp(w, FALSE)
  <2>1. /\ next \in CallRecords /\ next.sent = c.sent /\ next.tries = c.tries
        /\ next.round = c.round /\ next.letter = c.letter
        /\ next.pc # "ask" /\ (next.pc = "template" => at[w] = DecisionStage)
    BY GivenUpFields, CallsAssumption
  <2>2. Ends(w, "fatal", next) /\ UNCHANGED dropped
    BY <1>8 DEF Fail
  <2>. HIDE DEF next
  <2>3. mode.kind \notin {"refusal_once", "schema_once"}
    BY <2>2, OneShotOutcomes DEF Ends
  <2>4. effect(next)
    BY <1>2, <2>1, <2>2, EndsEffect
  <2>5. LoopsInv(w)'
    BY <1>1, <1>2, <2>1, <2>2, <2>3, <2>4, CallsAssumption DEF CallInv, LoopsInv, Spent
  <2>6. LetterInv(w)' /\ RescueInv(w)'
    BY <1>1, <1>2, <2>1, <2>2, <2>3, <2>4, CallsAssumption DEF CallInv, LetterInv, RescueInv
  <2>. QED  BY <2>4, <2>5, <2>6 DEF CallInv
<1>. QED  BY <1>3, <1>4, <1>5, <1>6, <1>7, <1>8 DEF ModelStep

LEMMA ModelStepInv ==
  ASSUME NEW w \in Workers, TypeInv, CallsTypeOK, \A v \in Workers : CallInv(v),
         ModelStep(w)
  PROVE  CallsTypeOK' /\ \A v \in Workers : CallInv(v)'
<1>1. /\ CallInv(w)' /\ call' \in [Workers -> CallRecords]
      /\ hit' \in [Workers -> SUBSET Claims]
      /\ \A v \in Workers \ {w} : call'[v] = call[v] /\ hit'[v] = hit[v]
  BY ModelStepCallInv
<1>2. /\ UNCHANGED <<pc, at, job, cps, mode, templated>>
      /\ pc[w] = "agent"
  BY DEF ModelStep, Answer, LetterWithJargon, Refuse, RejectTemperature,
         FailTransiently, Fail, Ends, vars, localVars
<1>3. UNCHANGED dropped
        \/ dropped' = [dropped EXCEPT ![w] = @ \cup {ModelOf[at[w]]}]
  BY DEF ModelStep, Answer, LetterWithJargon, Refuse, RejectTemperature,
         FailTransiently, Fail
<1>4. ModelOf[at[w]] \in Models
  BY <1>2 DEF Models, TypeInv, LocalTypes
<1>5. /\ dropped' \in [Workers -> SUBSET Models]
      /\ \A v \in Workers \ {w} : dropped'[v] = dropped[v]
  BY <1>3, <1>4 DEF CallsTypeOK
<1>6. CallsTypeOK'
  BY <1>1, <1>2, <1>5 DEF CallsTypeOK, CallRecords
<1>7. \A v \in Workers \ {w} : CallInv(v)'
  BY <1>1, <1>2, <1>5, QuietCallInv
<1>. QED  BY <1>1, <1>6, <1>7

\* The other steps of a worker.
LEMMA StageStepInv ==
  ASSUME NEW w \in Workers, TypeInv, CallsTypeOK, \A v \in Workers : CallInv(v),
         StageStep(w), ~ ModelStep(w)
  PROVE  CallsTypeOK' /\ \A v \in Workers : CallInv(v)'
<1>. USE DEF localVars
<1>1. /\ call' \in {call, [call EXCEPT ![w] = NewCall]}
      /\ UNCHANGED <<mode, dropped, hit>>
  BY DEF StageStep, BeginStage, SkipModel, EndStage, FailStage,
         CheckpointStage, callVars
<1>2. /\ call' \in [Workers -> CallRecords]
      /\ \A v \in Workers \ {w} : call'[v] = call[v]
      /\ call'[w] \in {call[w], NewCall}
  BY <1>1, NewCallType DEF CallsTypeOK, CallRecords
<1>3. templated' \subseteq Claims
  <2>1. CheckpointStage(w) => job[w][1] \in Claims
    BY DEF CheckpointStage, PersistCheckpoint, Busy, TypeInv, LocalTypes, Run
  <2>. QED
    BY <2>1 DEF StageStep, BeginStage, SkipModel, EndStage, FailStage,
                CheckpointStage, callVars, CallsTypeOK
<1>4. CallsTypeOK'
  BY <1>1, <1>2, <1>3 DEF CallsTypeOK, CallRecords
<1>5. \A v \in Workers \ {w} :
        pc'[v] = pc[v] /\ at'[v] = at[v] /\ job'[v] = job[v] /\ cps'[v] = cps[v]
  BY DEF StageStep, BeginStage, SkipModel, EndStage, FailStage, CheckpointStage,
         StartStage, AgentReturns, AgentRaises, PersistCheckpoint, TypeInv, TypeOK
<1>6. \A v \in Workers \ {w} : CallInv(v)'
  BY <1>1, <1>2, <1>5, QuietCallInv
<1>7. CallInv(w)'
  <2>1. CASE BeginStage(w)
    <3>1. call'[w] = NewCall
      BY <2>1 DEF BeginStage, CallsTypeOK
    <3>2. pc'[w] = "agent"
      BY <2>1 DEF BeginStage, StartStage, TypeInv, TypeOK
    <3>. QED
      BY <3>1, <3>2, CallsAssumption
      DEF CallInv, LoopsInv, LetterInv, RescueInv, Spent, NewCall
  <2>2. CASE SkipModel(w) \/ EndStage(w)
    <3>1. /\ pc[w] = "agent" /\ pc'[w] = "checkpoint"
          /\ UNCHANGED <<call, at, mode>>
          /\ call[w].pc = "template" => cps'[w][at[w]] = "bad"
      BY <2>2 DEF SkipModel, EndStage, AgentReturns, callVars, NewCall, TypeInv,
                  TypeOK
    <3>. QED  BY <3>1 DEF CallInv, LoopsInv, LetterInv, RescueInv
  <2>3. CASE FailStage(w)
    <3>1. pc'[w] = "save"
      BY <2>3 DEF FailStage, AgentRaises, TypeInv, TypeOK
    <3>. QED  BY <1>1, <1>2, <3>1, OutsideCallInv
  <2>4. CASE CheckpointStage(w)
    <3>1. pc'[w] = "announce"
      BY <2>4 DEF CheckpointStage, PersistCheckpoint, TypeInv, TypeOK
    <3>. QED  BY <1>1, <1>2, <3>1, OutsideCallInv
  <2>. QED  BY <2>1, <2>2, <2>3, <2>4 DEF StageStep
<1>. QED  BY <1>4, <1>6, <1>7

LEMMA OutsideStepInv ==
  ASSUME NEW w \in Workers, TypeInv, CallsTypeOK, \A v \in Workers : CallInv(v),
         RunStep(w) \/ StartProcess(w)
  PROVE  CallsTypeOK' /\ \A v \in Workers : CallInv(v)'
<1>1. /\ UNCHANGED <<mode, call, templated>>
      /\ dropped' \in {dropped, [dropped EXCEPT ![w] = {}]}
      /\ hit' \in {hit, [hit EXCEPT ![w] = {}]}
  BY DEF RunStep, StartProcess, callVars
<1>2. CallsTypeOK'
  BY <1>1 DEF CallsTypeOK
<1>3. /\ \A v \in Workers \ {w} :
           /\ pc'[v] = pc[v] /\ at'[v] = at[v] /\ job'[v] = job[v]
           /\ cps'[v] = cps[v]
      /\ pc'[w] \notin {"agent", "checkpoint"}
  <2>. USE DEF TypeInv, TypeOK, localVars
  <2>1. CASE LoopTest(w) \/ ClaimNextRun(w) \/ QueueEmpty(w)
    BY <2>1 DEF LoopTest, ClaimNextRun, QueueEmpty
  <2>2. CASE StopBetweenStages(w) \/ FinalizeRun(w)
    BY <2>2 DEF StopBetweenStages, FinalizeRun, ForgetRun
  <2>3. CASE AnnounceStage(w) \/ ApplyGate(w) \/ SaveClaim(w) \/ EmitFinalized(w)
    BY <2>3 DEF AnnounceStage, ApplyGate, SaveClaim, EmitFinalized
  <2>4. CASE StartWorker(w)
    BY <2>4 DEF StartWorker
  <2>. QED  BY <2>1, <2>2, <2>3, <2>4 DEF RunStep, StartProcess
<1>4. \A v \in Workers \ {w} : dropped'[v] = dropped[v] /\ hit'[v] = hit[v]
  BY <1>1 DEF CallsTypeOK
<1>5. \A v \in Workers \ {w} : CallInv(v)'
  BY <1>1, <1>3, <1>4, QuietCallInv
<1>6. CallInv(w)'
  BY <1>1, <1>3, OutsideCallInv
<1>. QED  BY <1>2, <1>5, <1>6

LEMMA CallsNextInv ==
  ASSUME TypeInv, CallsTypeOK, \A v \in Workers : CallInv(v), [CallsNext]_allVars
  PROVE  CallsTypeOK' /\ \A v \in Workers : CallInv(v)'
<1>1. ASSUME UNCHANGED <<pc, at, job, cps, callVars>>
      PROVE  CallsTypeOK' /\ \A v \in Workers : CallInv(v)'
  BY <1>1, QuietCallInv DEF callVars, CallsTypeOK
<1>2. ASSUME NEW k \in Callers, CallerStep(k), UNCHANGED callVars
      PROVE  UNCHANGED <<pc, at, job, cps, callVars>>
  BY <1>2 DEF CallerStep, SubmitClaim, ResubmitClaim, ReadLatest, InsertRun,
              callerOnly, localVars
<1>3. ASSUME NEW w \in Workers, RequestStop(w), UNCHANGED callVars
      PROVE  UNCHANGED <<pc, at, job, cps, callVars>>
  BY <1>3 DEF RequestStop, localVars
<1>4. UNCHANGED allVars => UNCHANGED <<pc, at, job, cps, callVars>>
  BY DEF allVars, vars, localVars
<1>. QED
  BY <1>1, <1>2, <1>3, <1>4, ModelStepInv, StageStepInv, OutsideStepInv
  DEF CallsNext

\* The loops, the letter and the fixture's fault stay as a worker's program
\* counter says, in every behaviour of the composition.
THEOREM CallsInvariant == CallsSpec => []CallsInv
<1>1. CallsInit => CallsInv
  BY InitCallInv DEF CallsInv
<1>2. TypeInv /\ CallsInv /\ [CallsNext]_allVars => CallsInv'
  BY CallsNextInv DEF CallsInv
<1>. QED
  BY <1>1, <1>2, CallsImplementPipeline, PipelineInvariant, PTL DEF CallsSpec

\* The types of this module's own variables.
THEOREM CallsTypeCorrect == CallsSpec => []CallsTypeOK
<1>1. CallsInv => CallsTypeOK
  BY DEF CallsInv
<1>. QED  BY <1>1, CallsInvariant, PTL

(***************************************************************************)
(* What follows.                                                           *)
(***************************************************************************)

LEMMA LearntAtMostOnce ==
  ASSUME NEW m, NEW S
  PROVE  Cardinality(S \cap {m}) = IF m \in S THEN 1 ELSE 0
<1>1. CASE m \in S
  <2>1. S \cap {m} = {m}
    BY <1>1
  <2>. QED  BY <1>1, <2>1, FS_Singleton
<1>2. CASE m \notin S
  <2>1. S \cap {m} = {}
    BY <1>2
  <2>. QED  BY <1>2, <2>1, FS_EmptySet
<1>. QED  BY <1>1, <1>2

\* A stage costs at most the product of its loops' caps, and one request more
\* where the process learns about the temperature (complete_structured,
\* _complete_with_refusal_retry, decision_agent).
THEOREM StageCostBoundedHolds == CallsSpec => []StageCostBounded
<1>1. CallsInv => StageCostBounded
  <2>. SUFFICES ASSUME CallsTypeOK, NEW w \in Workers, CallInv(w), pc[w] = "agent"
                PROVE  call[w].sent <= LoopsOf(at[w]) * (MaxRetries + 1)
                         + Cardinality(dropped[w] \cap {ModelOf[at[w]]})
    BY DEF CallsInv, StageCostBounded
  <2>. DEFINE c == call[w]
              K == MaxRetries + 1
              D == IF ModelOf[at[w]] \in dropped[w] THEN 1 ELSE 0
  <2>1. Cardinality(dropped[w] \cap {ModelOf[at[w]]}) = D
    BY LearntAtMostOnce
  <2>2. /\ c.tries \in 0..MaxRetries /\ c.round \in 1..2
        /\ c.letter \in 1..2 /\ c.sent \in Nat
    BY CallRecordFields
  <2>3. MaxRetries \in Nat /\ K \in Nat /\ D \in Nat
    BY CallsAssumption
  <2>4. c.sent <= (IF c.letter = 2 THEN 2 * K ELSE 0)
                    + (IF c.round = 2 THEN K ELSE 0) + K + D
    BY <2>2, <2>3 DEF CallInv, LoopsInv, Spent
  <2>5. /\ at[w] = SimilarityStage => c.round = 1
        /\ at[w] # DecisionStage => c.letter = 1
    BY DEF CallInv, LoopsInv
  <2>6. SimilarityStage # DecisionStage
    BY CallsAssumption
  <2>. HIDE DEF c, K, D
  <2>7. CASE at[w] = SimilarityStage
    <3>1. LoopsOf(at[w]) = 1
      BY <2>6, <2>7 DEF LoopsOf
    <3>2. c.sent <= 1 * K + D
      BY <2>2, <2>3, <2>4, <2>5, <2>6, <2>7
    <3>. QED  BY <2>1, <3>1, <3>2 DEF c, K
  <2>8. CASE at[w] = DecisionStage
    <3>1. LoopsOf(at[w]) = 4
      BY <2>6, <2>8 DEF LoopsOf
    <3>2. c.sent <= 4 * K + D
      BY <2>2, <2>3, <2>4
    <3>. QED  BY <2>1, <3>1, <3>2 DEF c, K
  <2>9. CASE at[w] # SimilarityStage /\ at[w] # DecisionStage
    <3>1. LoopsOf(at[w]) = 2
      BY <2>9 DEF LoopsOf
    <3>2. c.sent <= 2 * K + D
      BY <2>2, <2>3, <2>4, <2>5, <2>9
    <3>. QED  BY <2>1, <3>1, <3>2 DEF c, K
  <2>. QED  BY <2>7, <2>8, <2>9
<1>. QED  BY <1>1, CallsInvariant, PTL

\* A fault that happens once neither fails a run nor costs a letter
\* (FixtureLLMAdapter._maybe_fault and the retries it exercises).
THEOREM OneShotFaultsAreRescuedHolds == CallsSpec => []OneShotFaultsAreRescued
<1>1. CallsInv => OneShotFaultsAreRescued
  BY DEF CallsInv, CallInv, RescueInv, OneShotFaultsAreRescued
<1>. QED  BY <1>1, CallsInvariant, PTL

\* The template letter of a claim is on record, in some attempt.
TemplatedOnRecord ==
  \A c \in templated : \E a \in Attempts : stages[<<c, a>>][DecisionStage] = "bad"

LEMMA TemplatedStep ==
  ASSUME TypeInv, PipelineInv, CallsTypeOK, \A w \in Workers : CallInv(w),
         TemplatedOnRecord, [CallsNext]_allVars
  PROVE  TemplatedOnRecord'
<1>1. DecisionStage \in Stages
  BY CallsAssumption, StagesAssumption DEF Stages
<1>2. \A r \in Run : stages[r][DecisionStage] = "bad" =>
        stages'[r][DecisionStage] = "bad"
  BY <1>1, CallsNextIsNext, CheckpointsStick
<1>3. ASSUME NEW c \in templated
      PROVE  \E a \in Attempts : stages'[<<c, a>>][DecisionStage] = "bad"
  BY <1>2 DEF TemplatedOnRecord, CallsTypeOK, Run
<1>4. ASSUME NEW w \in Workers, CheckpointStage(w), call[w].pc = "template"
      PROVE  \E a \in Attempts : stages'[<<job[w][1], a>>][DecisionStage] = "bad"
  <2>1. pc[w] = "checkpoint" /\ Busy(w)
    BY <1>4 DEF CheckpointStage, PersistCheckpoint, Busy
  <2>2. at[w] = DecisionStage /\ cps[w][DecisionStage] = "bad"
    BY <1>4, <2>1 DEF CallInv, LetterInv
  <2>3. PICK c \in Claims, a \in Attempts :
          job[w] = <<c, a>> /\ <<c, a>> \in Run /\ job[w][1] = c
    BY <2>1 DEF TypeInv, LocalTypes, Run
  <2>4. stages'[<<c, a>>][DecisionStage] = "bad"
    <3>1. "bad" \in Output
      BY DEF Output
    <3>2. stages' = [stages EXCEPT ![<<c, a>>][DecisionStage] = "bad"]
      BY <1>4, <2>2, <2>3 DEF CheckpointStage, PersistCheckpoint
    <3>. QED  BY <1>1, <2>3, <3>1, <3>2, EntryUpdate DEF TypeInv, TypeOK
  <2>. QED  BY <2>3, <2>4
<1>5. \/ templated' = templated
      \/ \E w \in Workers : /\ CheckpointStage(w) /\ call[w].pc = "template"
                            /\ templated' = templated \cup {job[w][1]}
  BY DEF CallsNext, StageStep, BeginStage, ModelStep, Answer, LetterWithJargon,
         Refuse, RejectTemperature, FailTransiently, Fail, Ends, SkipModel,
         EndStage, FailStage, CheckpointStage, RunStep, StartProcess, callVars,
         allVars
<1>. QED  BY <1>3, <1>4, <1>5 DEF TemplatedOnRecord

\* A claim that was ever given the template letter is never auto-approved, by
\* any attempt (_template_decision).
THEOREM TemplateNeverPaysHolds == CallsSpec => []TemplateNeverPays
<1>1. CallsInit => TemplatedOnRecord
  BY DEF CallsInit, TemplatedOnRecord
<1>2. TypeInv /\ PipelineInv /\ CallsInv /\ TemplatedOnRecord
        /\ [CallsNext]_allVars => TemplatedOnRecord'
  BY TemplatedStep DEF CallsInv
<1>3. TypeInv /\ PipelineInv /\ CallsInv /\ TemplatedOnRecord
        /\ AutoApprovalEarned => TemplateNeverPays
  <2>. SUFFICES ASSUME PipelineInv, CallsTypeOK, TemplatedOnRecord,
                       AutoApprovalEarned, NEW c \in Claims, NEW b \in Attempts,
                       c \in templated, status[<<c, b>>] = "auto_approved"
                PROVE  FALSE
    BY DEF CallsInv, TemplateNeverPays, Run
  <2>1. DecisionStage \in Stages /\ DecisionStage \in GateStages
    BY CallsAssumption, StagesAssumption DEF Stages
  <2>2. PICK a \in Attempts : stages[<<c, a>>][DecisionStage] = "bad"
    BY DEF TemplatedOnRecord
  <2>3. stages[<<c, b>>][DecisionStage] = "ok"
    BY <2>1 DEF AutoApprovalEarned, Run
  <2>4. status[<<c, a>>] # "absent"
    BY <2>1, <2>2 DEF PipelineInv, AttemptsInv, NoCheckpoints
  <2>5. a < b \/ b < a
    BY <2>2, <2>3 DEF Attempts
  <2>. QED  BY <2>1, <2>2, <2>3, <2>4, <2>5 DEF PipelineInv, AttemptsInv
<1>4. CallsSpec => []TemplatedOnRecord
  BY <1>1, <1>2, CallsInvariant, CallsImplementPipeline, PipelineInvariant, PTL
  DEF CallsSpec
<1>. QED
  BY <1>3, <1>4, CallsInvariant, CallsImplementPipeline, PipelineInvariant,
     AutoApprovalEarnedHolds, PTL

=============================================================================
