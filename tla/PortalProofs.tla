------------------------------ MODULE PortalProofs ------------------------------
(***************************************************************************)
(* What Portal keeps for any number of stages, lookups, codes and faults.  *)
(*                                                                         *)
(* Neither AnswersAgree nor KnownCodeOpens is inductive.  That the two     *)
(* reads of a lookup agree is due to the run being at least as far as      *)
(* anything that was read of it, and the events as far as the run.  That   *)
(* the code told last opens the claim is due to it being the last one      *)
(* made, which the save of the run can only spoil while the claim has had  *)
(* no other code than its first.                                           *)
(***************************************************************************)
EXTENDS Portal, TLAPS

Filings == {"idle", "row", "run", "event", "done", "dead"}
RunPlaces == {"none", "between", "agent", "save", "over", "dead"}
RowRecord == [exists : BOOLEAN, code : Code, done : 0..Stages]
LogRecord == [submitted : BOOLEAN, started : SUBSET (1..Stages),
              completed : SUBSET (1..Stages), paid : BOOLEAN]
RunRecord == [at : RunPlaces, done : 0..Stages]
AnswerRecord == [decision : BOOLEAN, complete : BOOLEAN]
LookupRecord == [at : {"idle", "claim", "answered", "refused"},
                 typed : Code, done : 0..Stages, answer : AnswerRecord]
PageRecord == [up : BOOLEAN, used : Code, shown : AnswerRecord]

\* The saved row, and what lookups read of it, are never ahead of the run.
RunIsAhead ==
  /\ run.at = "agent" => run.done < Stages
  /\ row.done <= run.done
  /\ \A l \in Lookups : lookup[l].done <= run.done

\* The events are as far as the run is, unless one of them was lost, and no
\* further than the stage that runs.
EventsFollowRun ==
  /\ log.started \subseteq 1..(run.done + 1)
  /\ "event" \notin excused => 1..run.done \subseteq log.completed

\* There is a row before there is a run, and a run before the customer is
\* told a code.
FilingOrder ==
  /\ filing = "idle" => codes = 0
  /\ filing # "idle" => codes # 0
  /\ filing \in {"idle", "row"} => run.at = "none"
  /\ filing \in {"run", "event", "done"} => run.at # "none"
  /\ known # 0 => filing = "done"
  /\ known = 0 => codes <= 1 /\ mails = {}
  /\ 0 \notin mails

\* Without an excuse the code in force is the last one made, it is the only
\* one that may be in the mail, and it was told if it is not; and while a
\* save is to come it is the first one.
LastCodeCounts ==
  "code" \notin excused =>
    /\ filing # "idle" => row.code = codes
    /\ mails \subseteq {codes}
    /\ mails = {} /\ known # 0 => known = codes
    /\ SaveToCome => codes = 1

PortalInv ==
  /\ TypeOK
  /\ RunIsAhead
  /\ EventsFollowRun
  /\ FilingOrder
  /\ LastCodeCounts

LEMMA PortalInit == Init => PortalInv
<1> SUFFICES ASSUME Init PROVE PortalInv
  OBVIOUS
<1> USE PortalAssumption DEF Init, NoRow, NoLookup, Nothing
<1>1. TypeOK
  BY DEF TypeOK, Code
<1>2. RunIsAhead
  BY DEF RunIsAhead
<1>3. EventsFollowRun
  BY DEF EventsFollowRun
<1>4. FilingOrder
  BY DEF FilingOrder
<1>5. LastCodeCounts
  BY DEF LastCodeCounts, SaveToCome
<1> QED
  BY <1>1, <1>2, <1>3, <1>4, <1>5 DEF PortalInv

\* The call that files the claim.
LEMMA FilingKeeps ==
  ASSUME PortalInv, Filing PROVE PortalInv'
<1> USE PortalAssumption DEF PortalInv, customer, browser, history
<1>1. CASE InsertRow
  <2>1. /\ row' = [exists |-> TRUE, code |-> 1, done |-> 0]
        /\ filing = "idle" /\ filing' = "row" /\ codes' = 1
        /\ UNCHANGED <<log, run, mails, known, lookup, page, faults, excused>>
    BY <1>1 DEF InsertRow, NoRow
  <2>2. TypeOK'
    BY <2>1 DEF TypeOK, Code
  <2>3. RunIsAhead' /\ EventsFollowRun'
    BY <2>1 DEF RunIsAhead, EventsFollowRun, TypeOK
  <2>4. FilingOrder' /\ LastCodeCounts'
    BY <2>1 DEF FilingOrder, LastCodeCounts, SaveToCome, TypeOK
  <2> QED
    BY <2>2, <2>3, <2>4
<1>2. CASE EnqueueRun
  <2>1. /\ run' \in RunRecord /\ run'.at = "between" /\ run'.done = run.done
        /\ filing = "row" /\ filing' = "run"
        /\ UNCHANGED <<row, log, codes, mails, known, lookup, page, faults,
                       excused>>
    BY <1>2 DEF EnqueueRun, TypeOK, RunRecord, RunPlaces
  <2>2. TypeOK'
    BY <2>1 DEF TypeOK, RunRecord, RunPlaces
  <2>3. RunIsAhead' /\ EventsFollowRun'
    BY <2>1 DEF RunIsAhead, EventsFollowRun, TypeOK
  <2>4. FilingOrder' /\ LastCodeCounts'
    BY <2>1 DEF FilingOrder, LastCodeCounts, SaveToCome, TypeOK, Code
  <2> QED
    BY <2>2, <2>3, <2>4
<1>3. CASE AnnounceClaim
  <2>1. /\ log' \in LogRecord
        /\ log'.started = log.started /\ log'.completed = log.completed
        /\ filing = "run" /\ filing' = "event"
        /\ UNCHANGED <<row, run, codes, mails, known, lookup, page, faults,
                       excused>>
    BY <1>3 DEF AnnounceClaim, TypeOK, LogRecord
  <2>2. TypeOK'
    BY <2>1 DEF TypeOK, LogRecord
  <2>3. RunIsAhead' /\ EventsFollowRun'
    BY <2>1 DEF RunIsAhead, EventsFollowRun, TypeOK
  <2>4. FilingOrder' /\ LastCodeCounts'
    BY <2>1 DEF FilingOrder, LastCodeCounts, SaveToCome, TypeOK
  <2> QED
    BY <2>2, <2>3, <2>4
<1>4. CASE GiveCode
  <2>1. /\ filing = "event" /\ filing' = "done" /\ known' = 1
        /\ UNCHANGED <<row, log, run, codes, mails, lookup, page, faults,
                       excused>>
    BY <1>4 DEF GiveCode
  <2>2. TypeOK'
    BY <2>1 DEF TypeOK, Code
  <2>3. RunIsAhead' /\ EventsFollowRun'
    BY <2>1 DEF RunIsAhead, EventsFollowRun, TypeOK
  <2>4. FilingOrder' /\ LastCodeCounts'
    BY <2>1 DEF FilingOrder, LastCodeCounts, SaveToCome, TypeOK, Code
  <2> QED
    BY <2>2, <2>3, <2>4
<1>5. CASE FilingDies
  <2>1. /\ filing \in {"row", "run", "event"} /\ filing' = "dead"
        /\ faults' \in 0..MaxFaults
        /\ UNCHANGED <<row, log, run, codes, mails, known, lookup, page,
                       excused>>
    BY <1>5 DEF FilingDies, Fault, TypeOK
  <2>2. TypeOK'
    BY <2>1 DEF TypeOK
  <2>3. RunIsAhead' /\ EventsFollowRun'
    BY <2>1 DEF RunIsAhead, EventsFollowRun, TypeOK
  <2>4. FilingOrder' /\ LastCodeCounts'
    BY <2>1 DEF FilingOrder, LastCodeCounts, SaveToCome, TypeOK
  <2> QED
    BY <2>2, <2>3, <2>4
<1> QED
  BY <1>1, <1>2, <1>3, <1>4, <1>5 DEF Filing

\* What the events and the history are after a stage's event was written or
\* lost.
LEMMA EmitKeeps ==
  ASSUME TypeOK, NEW event \in LogRecord, Emit(event)
  PROVE  /\ log' \in LogRecord /\ log' \in {log, event}
         /\ faults' \in 0..MaxFaults /\ excused' \subseteq {"code", "event"}
         /\ excused \subseteq excused'
         /\ "event" \notin excused' => log' = event
         /\ "code" \notin excused' => "code" \notin excused
<1>1. CASE log' = event /\ UNCHANGED history
  BY <1>1 DEF TypeOK, history
<1>2. CASE Fault /\ excused' = excused \cup {"event"} /\ UNCHANGED log
  <2>1. log' \in LogRecord
    BY <1>2 DEF TypeOK, LogRecord
  <2>2. faults' \in 0..MaxFaults
    BY <1>2, PortalAssumption DEF TypeOK, Fault
  <2> QED
    BY <1>2, <2>1, <2>2 DEF TypeOK
<1> QED
  BY <1>1, <1>2 DEF Emit

\* The worker reads and writes no code but the one of its save.
LEMMA RunningKeeps ==
  ASSUME PortalInv, Running PROVE PortalInv'
<1> USE PortalAssumption DEF PortalInv, customer, browser, history, notRun
<1>1. CASE StartStage
  <2> DEFINE event == [log EXCEPT !.started = @ \cup {run.done + 1}]
  <2>1. /\ run.at = "between" /\ run.done < Stages
        /\ run' \in RunRecord /\ run'.at = "agent" /\ run'.done = run.done
        /\ UNCHANGED <<row, filing, codes, mails, known, lookup, page>>
    BY <1>1 DEF StartStage, TypeOK, RunRecord, RunPlaces
  <2>2. /\ event \in LogRecord
        /\ event.started = log.started \cup {run.done + 1}
        /\ event.completed = log.completed
    BY <2>1 DEF TypeOK, LogRecord
  <2>3. Emit(event)
    BY <1>1 DEF StartStage
  <2> HIDE DEF event
  <2>4. /\ log' \in LogRecord /\ log' \in {log, event}
        /\ faults' \in 0..MaxFaults /\ excused' \subseteq {"code", "event"}
        /\ excused \subseteq excused'
    BY <2>2, <2>3, EmitKeeps
  <2>5. TypeOK'
    BY <2>1, <2>4 DEF TypeOK, RunRecord, RunPlaces, LogRecord
  <2>6. RunIsAhead'
    BY <2>1 DEF RunIsAhead, TypeOK
  <2>7. EventsFollowRun'
    BY <2>1, <2>2, <2>4 DEF EventsFollowRun, TypeOK
  <2>8. FilingOrder' /\ LastCodeCounts'
    BY <2>1, <2>4 DEF FilingOrder, LastCodeCounts, SaveToCome, TypeOK
  <2> QED
    BY <2>5, <2>6, <2>7, <2>8
<1>2. CASE EndStage
  <2>1. /\ run \in RunRecord /\ run.at = "agent"
        /\ run.done \in Nat /\ run.done + 1 \in 0..Stages
        /\ UNCHANGED <<row, filing, codes, mails, known, lookup, page>>
    BY <1>2 DEF EndStage, RunIsAhead, TypeOK, RunRecord, RunPlaces
  <2>2. ASSUME NEW at \in RunPlaces, NEW r,
               r = [run EXCEPT !.at = at, !.done = @ + 1]
        PROVE  r \in RunRecord /\ r.at = at /\ r.done = run.done + 1
    BY <2>1, <2>2 DEF RunRecord
  <2>3. /\ run' \in RunRecord /\ run'.at \in {"between", "save"}
        /\ run'.done = run.done + 1
    BY <1>2, <2>1, <2>2 DEF EndStage, Halted, RunRecord, RunPlaces
  <2>4. /\ Completed \in LogRecord
        /\ Completed.started = log.started
        /\ Completed.completed = log.completed \cup {run.done + 1}
    BY <2>1 DEF Completed, TypeOK, LogRecord
  <2>5. Emit(Completed)
    BY <1>2 DEF EndStage
  <2>6. /\ log' \in LogRecord /\ log' \in {log, Completed}
        /\ faults' \in 0..MaxFaults /\ excused' \subseteq {"code", "event"}
        /\ excused \subseteq excused'
        /\ "event" \notin excused' => log' = Completed
    BY <2>4, <2>5, EmitKeeps
  <2>7. TypeOK'
    BY <2>1, <2>3, <2>6 DEF TypeOK, RunRecord, RunPlaces, LogRecord
  <2>8. RunIsAhead'
    BY <2>1, <2>3 DEF RunIsAhead, TypeOK
  <2>9. EventsFollowRun'
    <3>1. log'.started \subseteq 1..(run'.done + 1)
      <4>1. log'.started = log.started
        BY <2>4, <2>6
      <4>2. 1..(run.done + 1) \subseteq 1..(run'.done + 1)
        BY <2>1, <2>3
      <4> QED
        BY <4>1, <4>2 DEF EventsFollowRun
    <3>2. ASSUME "event" \notin excused'
          PROVE  1..run'.done \subseteq log'.completed
      <4>1. 1..run.done \subseteq log.completed
        BY <2>6, <3>2 DEF EventsFollowRun
      <4>2. log'.completed = log.completed \cup {run.done + 1}
        BY <2>4, <2>6, <3>2
      <4> QED
        BY <2>1, <2>3, <4>1, <4>2
    <3> QED
      BY <3>1, <3>2 DEF EventsFollowRun
  <2>10. FilingOrder' /\ LastCodeCounts'
    BY <2>1, <2>3, <2>6 DEF FilingOrder, LastCodeCounts, SaveToCome, TypeOK
  <2> QED
    BY <2>7, <2>8, <2>9, <2>10
<1>3. CASE FailStage \/ Gate \/ Crash
  <2>1. /\ run.at \in {"between", "agent", "save"}
        /\ run' \in RunRecord /\ run'.at \in {"save", "dead"}
        /\ run'.done = run.done
        /\ faults' \in 0..MaxFaults
        /\ UNCHANGED <<row, log, filing, codes, mails, known, lookup, page,
                       excused>>
    BY <1>3 DEF FailStage, Gate, Crash, Fault, TypeOK, RunRecord, RunPlaces
  <2>2. TypeOK'
    BY <2>1 DEF TypeOK, RunRecord, RunPlaces
  <2>3. RunIsAhead' /\ EventsFollowRun'
    BY <2>1 DEF RunIsAhead, EventsFollowRun, TypeOK
  <2>4. FilingOrder' /\ LastCodeCounts'
    BY <2>1 DEF FilingOrder, LastCodeCounts, SaveToCome, TypeOK
  <2> QED
    BY <2>2, <2>3, <2>4
<1>4. CASE Save
  <2>1. /\ run.at = "save"
        /\ run' \in RunRecord /\ run'.at = "over" /\ run'.done = run.done
        /\ row' = [exists |-> TRUE, code |-> 1, done |-> run.done]
        /\ UNCHANGED <<log, filing, codes, mails, known, lookup, page, faults,
                       excused>>
    BY <1>4 DEF Save, NoRow, TypeOK, RunRecord, RunPlaces
  <2>2. TypeOK'
    BY <2>1 DEF TypeOK, RunRecord, RunPlaces, Code
  <2>3. RunIsAhead' /\ EventsFollowRun'
    BY <2>1 DEF RunIsAhead, EventsFollowRun, TypeOK
  <2>4. FilingOrder' /\ LastCodeCounts'
    BY <2>1 DEF FilingOrder, LastCodeCounts, SaveToCome, TypeOK
  <2> QED
    BY <2>2, <2>3, <2>4
<1> QED
  BY <1>1, <1>2, <1>3, <1>4 DEF Running

LEMMA SettleKeeps ==
  ASSUME PortalInv, Settle PROVE PortalInv'
<1> USE DEF PortalInv, customer, browser, history
<1>1. /\ log' \in LogRecord
      /\ log'.started = log.started /\ log'.completed = log.completed
      /\ UNCHANGED <<row, filing, run, codes, mails, known, lookup, page,
                     faults, excused>>
  BY DEF Settle, TypeOK, LogRecord
<1>2. TypeOK'
  BY <1>1 DEF TypeOK, LogRecord
<1>3. RunIsAhead' /\ EventsFollowRun'
  BY <1>1 DEF RunIsAhead, EventsFollowRun, TypeOK
<1>4. FilingOrder' /\ LastCodeCounts'
  BY <1>1 DEF FilingOrder, LastCodeCounts, SaveToCome, TypeOK
<1> QED
  BY <1>2, <1>3, <1>4

\* A recovery made while a save is to come, or while a code is in the mail,
\* excuses the customer's code; any other leaves one code, the last.
LEMMA CodesKeep ==
  ASSUME PortalInv, RotateCode \/ \E c \in mails : MailCode(c) \/ LoseMail(c)
  PROVE  PortalInv'
<1> USE PortalAssumption DEF PortalInv, claim, browser, history
<1>1. CASE RotateCode
  <2>1. /\ known # 0 /\ codes < MaxCodes /\ codes' = codes + 1
        /\ row' \in RowRecord /\ row'.code = codes + 1 /\ row'.done = row.done
        /\ mails' = mails \cup {codes + 1}
        /\ excused' \subseteq {"code", "event"}
        /\ "event" \in excused' <=> "event" \in excused
        /\ "code" \notin excused' =>
             "code" \notin excused /\ ~SaveToCome /\ mails = {}
        /\ UNCHANGED <<log, filing, run, known, lookup, page, faults>>
    BY <1>1 DEF RotateCode, TypeOK, RowRecord, Code
  <2>2. TypeOK'
    BY <2>1 DEF TypeOK, RowRecord, Code
  <2>3. RunIsAhead' /\ EventsFollowRun'
    BY <2>1 DEF RunIsAhead, EventsFollowRun, TypeOK
  <2>4. FilingOrder'
    BY <2>1 DEF FilingOrder, TypeOK, Code
  <2>5. LastCodeCounts'
    BY <2>1 DEF LastCodeCounts, SaveToCome, TypeOK
  <2> QED
    BY <2>2, <2>3, <2>4, <2>5
<1>2. ASSUME NEW c \in mails, MailCode(c) PROVE PortalInv'
  <2>1. /\ mails' = mails \ {c} /\ known' = c
        /\ UNCHANGED <<row, log, filing, run, codes, lookup, page, faults,
                       excused>>
    BY <1>2 DEF MailCode
  <2>2. TypeOK'
    BY <2>1 DEF TypeOK
  <2>3. RunIsAhead' /\ EventsFollowRun'
    BY <2>1 DEF RunIsAhead, EventsFollowRun, TypeOK
  <2>4. known # 0 /\ c # 0
    BY DEF FilingOrder
  <2>5. FilingOrder'
    BY <2>1, <2>4 DEF FilingOrder, TypeOK, Code
  <2>6. LastCodeCounts'
    BY <2>1, <2>4 DEF LastCodeCounts, SaveToCome, TypeOK
  <2> QED
    BY <2>2, <2>3, <2>5, <2>6
<1>3. ASSUME NEW c \in mails, LoseMail(c) PROVE PortalInv'
  <2>1. /\ mails' = mails \ {c}
        /\ excused' = excused \cup {"code"}
        /\ faults' \in 0..MaxFaults
        /\ UNCHANGED <<row, log, filing, run, codes, known, lookup, page>>
    BY <1>3 DEF LoseMail, Fault, TypeOK
  <2>2. TypeOK'
    BY <2>1 DEF TypeOK
  <2>3. RunIsAhead' /\ EventsFollowRun'
    BY <2>1 DEF RunIsAhead, EventsFollowRun, TypeOK
  <2>4. FilingOrder' /\ LastCodeCounts'
    BY <2>1 DEF FilingOrder, LastCodeCounts, TypeOK
  <2> QED
    BY <2>2, <2>3, <2>4
<1> QED
  BY <1>1, <1>2, <1>3

\* The next value of the lookups after one of them has moved on.
LEMMA LookupMoves ==
  ASSUME TypeOK, NEW l \in Lookups, NEW r \in LookupRecord,
         lookup' = [lookup EXCEPT ![l] = r]
  PROVE  /\ lookup' \in [Lookups -> LookupRecord]
         /\ lookup'[l] = r
         /\ \A m \in Lookups \ {l} : lookup'[m] = lookup[m]
  BY DEF TypeOK, LookupRecord, AnswerRecord

\* A lookup and the page read the claim; they write nothing of it.  What a
\* lookup knows of the run is what the row says at the moment it is read.
LEMMA LookupsKeep ==
  ASSUME PortalInv, NEW l \in Lookups, NEW r \in LookupRecord,
         lookup' = [lookup EXCEPT ![l] = r],
         r.done \in {0, row.done, lookup[l].done},
         page' \in PageRecord, faults' \in 0..MaxFaults,
         UNCHANGED <<claim, customer, excused>>
  PROVE  PortalInv'
<1> USE DEF PortalInv
<1>1. UNCHANGED <<row, log, filing, run, codes, mails, known, excused>>
  BY DEF claim, customer
<1>2. /\ lookup' \in [Lookups -> LookupRecord]
      /\ lookup'[l] = r
      /\ \A m \in Lookups \ {l} : lookup'[m] = lookup[m]
  BY LookupMoves
<1>3. TypeOK'
  BY <1>1, <1>2 DEF TypeOK, LookupRecord, AnswerRecord, PageRecord
<1>4. RunIsAhead'
  BY <1>1, <1>2 DEF RunIsAhead, TypeOK
<1>5. EventsFollowRun' /\ FilingOrder' /\ LastCodeCounts'
  BY <1>1 DEF EventsFollowRun, FilingOrder, LastCodeCounts, SaveToCome
<1> QED
  BY <1>3, <1>4, <1>5

LEMMA CustomerKeeps ==
  ASSUME PortalInv, NEW l \in Lookups,
         Lookup(l) \/ Poll(l) \/ ReadEvents(l) \/ LookupFails(l) \/ Hear(l)
  PROVE  PortalInv'
<1> USE DEF PortalInv
<1>1. /\ page \in PageRecord /\ faults \in 0..MaxFaults
      /\ lookup[l] \in LookupRecord
      /\ known \in Code /\ page.used \in Code /\ row \in RowRecord
  BY DEF TypeOK, PageRecord, AnswerRecord, LookupRecord, RowRecord
<1>2. /\ NoLookup \in LookupRecord /\ Nothing \in AnswerRecord
      /\ 0 \in Code /\ 0 \in 0..Stages
  BY PortalAssumption DEF NoLookup, LookupRecord, AnswerRecord, Nothing, Code
<1>3. ASSUME NEW code \in Code, NEW typed \in Code, LookupClaim(l, code, typed)
      PROVE  PortalInv'
  <2>1. ASSUME NEW r,
               r = [NoLookup EXCEPT !.at = "claim", !.typed = typed,
                                    !.done = row.done]
        PROVE  r \in LookupRecord /\ r.done = row.done
    BY <1>1, <1>2, <2>1 DEF LookupRecord, RowRecord
  <2>2. ASSUME NEW r, r = [NoLookup EXCEPT !.at = "refused", !.typed = typed]
        PROVE  r \in LookupRecord /\ r.done = 0
    BY <1>2, <2>2 DEF LookupRecord, NoLookup
  <2>3. PICK r \in LookupRecord : /\ lookup' = [lookup EXCEPT ![l] = r]
                                  /\ r.done \in {0, row.done}
    BY <1>3, <2>1, <2>2 DEF LookupClaim
  <2> QED
    BY <1>1, <1>3, <2>3, LookupsKeep DEF LookupClaim, notServer, history
<1>4. CASE ReadEvents(l)
  <2> DEFINE payload == PublicStatusPayload(lookup[l].done)
             a == [decision |-> payload.decision, complete |-> AllDone(payload)]
  <2>1. lookup' = [lookup EXCEPT ![l].at = "answered", ![l].done = 0,
                                 ![l].answer = a]
    BY <1>4 DEF ReadEvents
  <2>2. a \in AnswerRecord
    BY DEF AnswerRecord, PublicStatusPayload, AllDone
  <2> HIDE DEF a
  <2>3. lookup \in [Lookups -> LookupRecord]
    BY DEF TypeOK, LookupRecord, AnswerRecord
  <2>4. /\ lookup'[l] \in LookupRecord /\ lookup'[l].done = 0
        /\ lookup' = [lookup EXCEPT ![l] = lookup'[l]]
    BY <1>2, <2>1, <2>2, <2>3 DEF LookupRecord
  <2> QED
    BY <1>1, <1>4, <2>4, LookupsKeep DEF ReadEvents, notServer, history
<1>5. CASE LookupFails(l)
  <2>1. ASSUME NEW r,
               r = [NoLookup EXCEPT !.at = "refused", !.typed = lookup[l].typed]
        PROVE  r \in LookupRecord /\ r.done = 0
    BY <1>1, <1>2, <2>1 DEF LookupRecord, NoLookup
  <2>2. PICK r \in LookupRecord : /\ lookup' = [lookup EXCEPT ![l] = r]
                                  /\ r.done = 0
    BY <1>5, <2>1 DEF LookupFails
  <2>3. faults' \in 0..MaxFaults /\ UNCHANGED <<claim, customer, page, excused>>
    BY <1>1, <1>5, PortalAssumption DEF LookupFails, Fault
  <2> QED
    BY <1>1, <2>2, <2>3, LookupsKeep
<1>6. CASE Hear(l)
  <2>1. page' \in PageRecord
    <3>1. CASE HearAnswer(l)
      BY <1>1, <3>1 DEF HearAnswer, PageRecord, LookupRecord
    <3>2. CASE HearFailure(l)
      BY <1>1, <1>2, <3>2 DEF HearFailure, PageRecord
    <3> QED
      BY <1>6, <3>1, <3>2 DEF Hear
  <2>2. NoLookup.done = 0
    BY DEF NoLookup
  <2> QED
    BY <1>1, <1>2, <1>6, <2>1, <2>2, LookupsKeep DEF Hear, history
<1> QED
  BY <1>1, <1>2, <1>3, <1>4, <1>5, <1>6 DEF Lookup, Poll

LEMMA PortalStep == PortalInv /\ [Next]_vars => PortalInv'
<1> SUFFICES ASSUME PortalInv, [Next]_vars PROVE PortalInv'
  OBVIOUS
<1>1. CASE UNCHANGED vars
  BY <1>1 DEF vars, claim, customer, browser, history, PortalInv, TypeOK,
              RunIsAhead, EventsFollowRun, FilingOrder, LastCodeCounts,
              SaveToCome
<1>2. CASE Next
  BY <1>2, FilingKeeps, RunningKeeps, SettleKeeps, CodesKeep, CustomerKeeps
     DEF Next
<1> QED
  BY <1>1, <1>2

\* The invariant of the page and everything it reads.
THEOREM PortalInvariant == Spec => []PortalInv
  BY PortalInit, PortalStep, PTL DEF Spec

\* Every variable keeps its type.
THEOREM PortalTypes == Spec => []TypeOK
<1>1. PortalInv => TypeOK
  BY DEF PortalInv
<1> QED
  BY <1>1, PortalInvariant, PTL

\* A stage that runs is the first one that has not completed, if no event was
\* lost: so the largest of those that started and have not completed is it.
LEMMA OneStageRuns ==
  ASSUME PortalInv, "event" \notin excused
  PROVE  CurrentStage \in {0, run.done + 1}
<1> DEFINE running == log.started \ log.completed
<1>1. run.done \in 0..Stages /\ Stages \in Nat
  BY PortalAssumption DEF PortalInv, TypeOK
<1>2. running \subseteq {run.done + 1}
  BY <1>1 DEF PortalInv, EventsFollowRun
<1>3. CASE running = {}
  BY <1>3 DEF CurrentStage
<1>4. CASE running = {run.done + 1}
  <2>1. Max(running) = run.done + 1
    BY <1>1, <1>4 DEF Max
  <2> QED
    BY <1>4, <2>1 DEF CurrentStage
<1> QED
  BY <1>2, <1>3, <1>4

LEMMA AnswersFollow == PortalInv => AnswersAgree
<1> SUFFICES ASSUME PortalInv, "event" \notin excused, NEW l \in Lookups
             PROVE  LET a == PublicStatusPayload(lookup[l].done) IN
                      /\ a.decision => "decision_ready" \in a.milestones
                      /\ DocumentStage \in a.summaries =>
                           "documents_received" \in a.milestones
                      /\ a.current \notin a.summaries
  BY DEF AnswersAgree
<1> USE PortalAssumption
<1>1. /\ run.done \in 0..Stages /\ lookup[l].done \in 0..Stages
      /\ lookup[l].done <= run.done /\ Stages \in Nat \ {0}
  BY DEF PortalInv, RunIsAhead, TypeOK
<1>2. 1..lookup[l].done \subseteq log.completed
  BY <1>1 DEF PortalInv, EventsFollowRun
<1>3. lookup[l].done = Stages => "decision_ready" \in Milestones
  BY <1>1, <1>2 DEF Milestones, Slots
<1>4. DocumentStage \in 1..lookup[l].done => "documents_received" \in Milestones
  BY <1>1, <1>2 DEF Milestones, Slots
<1>5. CurrentStage \notin 1..lookup[l].done
  BY <1>1, OneStageRuns
<1> QED
  BY <1>3, <1>4, <1>5 DEF PublicStatusPayload, Summaries

\* The halves of an answer agree, whatever the run does between the two reads
\* of a lookup and however many lookups are open.
THEOREM AnswersAlwaysAgree == Spec => []AnswersAgree
  BY AnswersFollow, PortalInvariant, PTL

\* The code told last opens the claim, outside the cases KnownCodeOpens names.
THEOREM KnownCodeAlwaysOpens == Spec => []KnownCodeOpens
<1>1. PortalInv => KnownCodeOpens
  BY DEF PortalInv, FilingOrder, LastCodeCounts, KnownCodeOpens
<1> QED
  BY <1>1, PortalInvariant, PTL

=============================================================================
