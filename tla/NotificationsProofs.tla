-------------------------- MODULE NotificationsProofs --------------------------
(***************************************************************************)
(* What Notifications keeps for any number of emissions, messages,         *)
(* readings, notes and faults.                                             *)
(*                                                                         *)
(* MailedOnce is not inductive: an emission that is about to send holds    *)
(* the only right to, which it won when its record went in under the       *)
(* unique index.  Nor is ReceiptsAreHonest: what a reading has stamped is  *)
(* in the thread by the time it lists it.                                  *)
(***************************************************************************)
EXTENDS Notifications, FiniteSetTheorems, TLAPS

BellRecord == [shown : FromCustomer \cup {NoOne}, read : BOOLEAN]

\* An emission that was made announces a milestone, and one that is about to
\* send is the only one, with the record of its milestone and no mail sent.
OneSender ==
  /\ \A e \in Emissions : pc[e] # "new" => milestone[e] \in Milestones
  /\ \A e \in Emissions : pc[e] = "send" =>
       milestone[e] \in records /\ mails[milestone[e]] = 0
  /\ \A e, f \in Emissions :
       pc[e] = "send" /\ pc[f] = "send" /\ milestone[e] = milestone[f] => e = f

\* What a reading has stamped it stamped in the thread.
StampedInThread ==
  \A r \in Readings : pc[r] = "list" => stamped[r] \subseteq thread

\* Only the customer's route rings the bell; no adjuster has the bell of a
\* note that has not said whom it mentions.
BellsHaveCallers ==
  /\ \A p \in Messages : pc[p] = "ring" => p \in FromCustomer
  /\ mentioned \in [Notes -> SUBSET Adjusters]
  /\ \A n \in Notes : pc[n] = "new" => mentioned[n] = {}

NotificationsInv ==
  /\ TypeOK
  /\ OneSender
  /\ MailedOnce
  /\ StampedInThread
  /\ ReceiptsAreHonest
  /\ BellsHaveCallers

LEMMA NotificationsInit == Init => NotificationsInv
<1> SUFFICES ASSUME Init PROVE NotificationsInv
  OBVIOUS
<1> USE NotificationsAssumption DEF Init
<1>1. 0 \in 0..Cardinality(Emissions)
  BY FS_CardinalityType
<1>2. TypeOK
  BY <1>1 DEF TypeOK, Steps
<1>3. /\ OneSender /\ MailedOnce /\ StampedInThread /\ ReceiptsAreHonest
      /\ BellsHaveCallers
  BY DEF OneSender, MailedOnce, StampedInThread, ReceiptsAreHonest,
         BellsHaveCallers, Calls, Messages
<1> QED
  BY <1>2, <1>3 DEF NotificationsInv

\* The next value of pc after one call of a request.
LEMMA PcMoves ==
  ASSUME TypeOK, NEW c \in Calls, NEW from, NEW to \in Steps, Moves(c, from, to)
  PROVE  /\ pc[c] = from
         /\ pc' \in [Calls -> Steps]
         /\ pc'[c] = to
         /\ \A d \in Calls \ {c} : pc'[d] = pc[d]
  BY DEF TypeOK, Moves

\* The bounds on faults and losses that every step of a request keeps.
LEMMA Outcomes ==
  ASSUME TypeOK, NEW c \in Calls, Succeeds \/ IsIgnored \/ IsLost(c)
  PROVE  faults' \in 0..MaxFaults /\ lost' \subseteq Calls
  BY NotificationsAssumption DEF TypeOK, Succeeds, IsIgnored, IsLost

\* Each kind of request keeps the others where they are.
LEMMA Kinds ==
  /\ \A e \in Emissions : e \in Calls /\ e \notin Messages \cup Readings \cup Notes
  /\ \A p \in Messages : p \in Calls /\ p \notin Emissions \cup Readings \cup Notes
  /\ \A r \in Readings : r \in Calls /\ r \notin Emissions \cup Messages \cup Notes
  /\ \A n \in Notes : n \in Calls /\ n \notin Emissions \cup Messages \cup Readings
  BY NotificationsAssumption DEF Calls

\* A milestone is announced once at most: the record decides who sends.
LEMMA EmissionsKeep ==
  ASSUME NotificationsInv, NEW e \in Emissions, Announce(e) \/ FanOut(e)
  PROVE  NotificationsInv'
<1> USE DEF NotificationsInv
<1>1. e \in Calls /\ \A c \in Messages \cup Readings \cup Notes : c \in Calls \ {e}
  BY Kinds
<1>2. /\ UNCHANGED <<thread, receipts, side, stamped, listed, bell, rung, notes,
                     noteAudit, mentions, mentioned>>
      /\ faults' \in 0..MaxFaults /\ lost' \subseteq Calls
  BY <1>1, Outcomes DEF Announce, FanOut, FindRecord, InsertRecord, SendMail,
       fanOutVars, threadVars, bellVars, noteVars
<1>3. /\ pc' \in [Calls -> Steps]
      /\ \A d \in Calls \ {e} : pc'[d] = pc[d]
  <2>1. PICK from \in Steps, to \in Steps : Moves(e, from, to)
    BY DEF Announce, FanOut, FindRecord, InsertRecord, SendMail, Steps
  <2> QED
    BY <1>1, <2>1, PcMoves
<1>4. StampedInThread' /\ ReceiptsAreHonest' /\ BellsHaveCallers'
  BY <1>1, <1>2, <1>3 DEF StampedInThread, ReceiptsAreHonest, BellsHaveCallers
<1>5. SUFFICES /\ milestone' \in [Emissions -> Milestones \cup {NoOne}]
               /\ records' \subseteq Milestones
               /\ mails' \in [Milestones -> 0..Cardinality(Emissions)]
               /\ OneSender' /\ MailedOnce'
  BY <1>2, <1>3, <1>4 DEF TypeOK
<1>6. /\ milestone \in [Emissions -> Milestones \cup {NoOne}]
      /\ records \subseteq Milestones
      /\ mails \in [Milestones -> 0..Cardinality(Emissions)]
      /\ Cardinality(Emissions) \in Nat /\ Cardinality(Emissions) # 0
  BY NotificationsAssumption, FS_CardinalityType, FS_EmptySet DEF TypeOK
<1>7. \A f \in Emissions \ {e} : pc'[f] = pc[f]
  BY <1>3, Kinds
<1>8. CASE Announce(e)
  <2>1. PICK m \in Milestones : milestone' = [milestone EXCEPT ![e] = m]
    BY <1>8 DEF Announce
  <2>2. /\ pc[e] = "new" /\ pc'[e] = "find"
        /\ UNCHANGED <<records, mails>>
    BY <1>1, <1>8, PcMoves DEF Announce, Steps
  <2>3. OneSender' /\ MailedOnce'
    BY <1>6, <1>7, <2>1, <2>2 DEF OneSender, MailedOnce
  <2> QED
    BY <1>6, <2>1, <2>2, <2>3
<1>9. CASE FindRecord(e)
  <2>1. /\ pc[e] = "find" /\ pc'[e] \in {"done", "insert"}
        /\ UNCHANGED <<milestone, records, mails>>
    BY <1>1, <1>9, PcMoves DEF FindRecord, Steps, fanOutVars
  <2>2. OneSender' /\ MailedOnce'
    BY <1>6, <1>7, <2>1 DEF OneSender, MailedOnce
  <2> QED
    BY <1>6, <2>1, <2>2
<1>10. CASE InsertRecord(e)
  <2>1. /\ pc[e] = "insert"
        /\ pc'[e] = IF milestone[e] \in records THEN "done" ELSE "send"
        /\ records' = records \cup {milestone[e]}
        /\ UNCHANGED <<milestone, mails>>
    BY <1>1, <1>10, PcMoves DEF InsertRecord, Steps
  <2>2. milestone[e] \in Milestones
    BY <2>1 DEF OneSender
  <2>3. MailedOnce'
    BY <1>6, <2>1 DEF MailedOnce
  <2>4. OneSender'
    BY <1>6, <1>7, <2>1, <2>2 DEF OneSender, MailedOnce
  <2> QED
    BY <1>6, <2>1, <2>2, <2>3, <2>4
<1>11. CASE SendMail(e)
  <2>1. /\ pc[e] = "send" /\ pc'[e] = "done"
        /\ mails' \in {mails, [mails EXCEPT ![milestone[e]] = @ + 1]}
        /\ UNCHANGED <<milestone, records>>
    BY <1>1, <1>11, PcMoves DEF SendMail, Steps
  <2>2. /\ milestone[e] \in Milestones /\ milestone[e] \in records
        /\ mails[milestone[e]] = 0
    BY <2>1 DEF OneSender
  <2>3. /\ mails' \in [Milestones -> 0..Cardinality(Emissions)]
        /\ mails'[milestone[e]] \in 0..1
        /\ \A m \in Milestones \ {milestone[e]} : mails'[m] = mails[m]
    BY <1>6, <2>1, <2>2
  <2>4. MailedOnce'
    BY <1>6, <2>1, <2>2, <2>3 DEF MailedOnce
  <2>5. OneSender'
    BY <1>6, <1>7, <2>1, <2>2, <2>3 DEF OneSender
  <2> QED
    BY <1>6, <2>1, <2>3, <2>4, <2>5
<1> QED
  BY <1>8, <1>9, <1>10, <1>11 DEF FanOut

\* A message goes into the thread and is never taken out of it.
LEMMA MessagesKeep ==
  ASSUME NotificationsInv, NEW p \in Messages, StoreMessage(p) \/ Post(p)
  PROVE  NotificationsInv'
<1> USE DEF NotificationsInv
<1>1. p \in Calls /\ \A c \in Emissions \cup Readings \cup Notes : c \in Calls \ {p}
  BY Kinds
<1>2. /\ UNCHANGED <<milestone, records, mails, receipts, side, stamped, listed,
                     notes, noteAudit, mentions, mentioned>>
      /\ faults' \in 0..MaxFaults /\ lost' \subseteq Calls
  BY <1>1, Outcomes DEF StoreMessage, Post, TellOtherParty, RingBell,
       fanOutVars, threadVars, bellVars, noteVars
<1>3. /\ pc' \in [Calls -> Steps]
      /\ \A d \in Calls \ {p} : pc'[d] = pc[d]
      /\ pc'[p] = "ring" => p \in FromCustomer
      /\ pc[p] = "ring" => p \in FromCustomer
  <2>1. PICK from \in Steps, to \in Steps :
          Moves(p, from, to) /\ (to = "ring" => p \in FromCustomer)
    BY DEF StoreMessage, Post, TellOtherParty, RingBell, AfterNotice, Steps
  <2> QED
    BY <1>1, <2>1, PcMoves DEF BellsHaveCallers
<1>4. /\ thread \subseteq thread' /\ thread' \subseteq Messages
      /\ bell' \in BellRecord /\ rung' \subseteq FromCustomer
  <2>1. CASE StoreMessage(p)
    BY <2>1 DEF StoreMessage, bellVars, TypeOK, BellRecord
  <2>2. CASE TellOtherParty(p)
    BY <2>2 DEF TellOtherParty, bellVars, threadVars, TypeOK, BellRecord
  <2>3. CASE RingBell(p)
    <3>1. p \in FromCustomer
      BY <1>1, <1>3, <2>3 DEF RingBell, Moves
    <3>2. thread' = thread /\ thread \subseteq Messages
      BY <2>3 DEF RingBell, threadVars, TypeOK
    <3>3. CASE bell' = [shown |-> p, read |-> FALSE] /\ rung' = rung \cup {p}
      BY <3>1, <3>2, <3>3 DEF TypeOK, BellRecord
    <3>4. CASE UNCHANGED bellVars
      BY <3>2, <3>4 DEF bellVars, TypeOK, BellRecord
    <3> QED
      BY <2>3, <3>3, <3>4 DEF RingBell
  <2> QED
    BY <2>1, <2>2, <2>3 DEF Post
<1>5. TypeOK'
  BY <1>2, <1>3, <1>4 DEF TypeOK, BellRecord
<1>6. OneSender' /\ MailedOnce'
  BY <1>1, <1>2, <1>3 DEF OneSender, MailedOnce
<1>7. StampedInThread' /\ ReceiptsAreHonest'
  BY <1>1, <1>2, <1>3, <1>4 DEF StampedInThread, ReceiptsAreHonest
<1>8. BellsHaveCallers'
  BY <1>1, <1>2, <1>3 DEF BellsHaveCallers, Calls
<1> QED
  BY <1>5, <1>6, <1>7, <1>8

\* A reading stamps what is in the thread, and lists the thread after that.
LEMMA ReadingsKeep ==
  ASSUME NotificationsInv, NEW r \in Readings, AskForThread(r) \/ Read(r)
  PROVE  NotificationsInv'
<1> USE DEF NotificationsInv
<1>1. r \in Calls /\ \A c \in Emissions \cup Messages \cup Notes : c \in Calls \ {r}
  BY Kinds
<1>2. /\ UNCHANGED <<milestone, records, mails, thread, bell, rung,
                     notes, noteAudit, mentions, mentioned>>
      /\ faults' \in 0..MaxFaults /\ lost' \subseteq Calls
  BY <1>1, Outcomes DEF AskForThread, Read, MarkThreadRead, ListThread,
       fanOutVars, threadVars, bellVars, noteVars
<1>3. /\ pc' \in [Calls -> Steps]
      /\ \A d \in Calls \ {r} : pc'[d] = pc[d]
  <2>1. PICK from \in Steps, to \in Steps : Moves(r, from, to)
    BY DEF AskForThread, Read, MarkThreadRead, ListThread, AfterRead, Steps
  <2> QED
    BY <1>1, <2>1, PcMoves
<1>4. OneSender' /\ MailedOnce' /\ BellsHaveCallers'
  BY <1>1, <1>2, <1>3 DEF OneSender, MailedOnce, BellsHaveCallers
<1>5. /\ side \in [Readings -> Sides \cup {NoOne}]
      /\ stamped \in [Readings -> SUBSET Messages]
      /\ listed \in [Readings -> SUBSET Messages]
      /\ thread \subseteq Messages /\ receipts \subseteq thread
  BY DEF TypeOK
<1>6. /\ side' \in [Readings -> Sides \cup {NoOne}]
      /\ stamped' \in [Readings -> SUBSET Messages]
      /\ listed' \in [Readings -> SUBSET Messages]
      /\ receipts' \subseteq thread
      /\ \A q \in Readings \ {r} : stamped'[q] = stamped[q] /\ listed'[q] = listed[q]
      /\ pc'[r] = "list" => stamped'[r] \subseteq thread
      /\ pc'[r] = "done" => stamped'[r] \subseteq listed'[r]
  <2>1. CASE AskForThread(r)
    <3>1. pc'[r] = "mark"
      BY <1>1, <2>1, PcMoves DEF AskForThread, AfterRead, Steps
    <3> QED
      BY <1>5, <2>1, <3>1 DEF AskForThread
  <2>2. CASE MarkThreadRead(r)
    <3>1. pc'[r] = "list"
      BY <1>1, <2>2, PcMoves DEF MarkThreadRead, AfterRead, Steps
    <3>2. PICK unread \in SUBSET thread :
            /\ receipts' = receipts \cup unread
            /\ stamped' = [stamped EXCEPT ![r] = unread]
      BY <2>2 DEF MarkThreadRead
    <3> QED
      BY <1>5, <2>2, <3>1, <3>2 DEF MarkThreadRead
  <2>3. CASE ListThread(r)
    <3>1. pc[r] = "list" /\ pc'[r] = "done"
      BY <1>1, <2>3, PcMoves DEF ListThread, AfterRead, Steps
    <3> QED
      BY <1>5, <2>3, <3>1 DEF ListThread, StampedInThread
  <2> QED
    BY <2>1, <2>2, <2>3 DEF Read
<1>7. TypeOK'
  BY <1>2, <1>3, <1>6 DEF TypeOK
<1>8. StampedInThread' /\ ReceiptsAreHonest'
  BY <1>2, <1>3, <1>6, Kinds DEF StampedInThread, ReceiptsAreHonest
<1> QED
  BY <1>4, <1>7, <1>8

\* A note rings only adjusters it mentions.
LEMMA NotesKeep ==
  ASSUME NotificationsInv, NEW n \in Notes, ReadMentions(n) \/ Annotate(n)
  PROVE  NotificationsInv'
<1> USE DEF NotificationsInv
<1>1. n \in Calls /\ \A c \in Emissions \cup Messages \cup Readings : c \in Calls \ {n}
  BY Kinds
<1>2. /\ UNCHANGED <<milestone, records, mails, thread, receipts, side, stamped,
                     listed, bell, rung>>
      /\ faults' \in 0..MaxFaults /\ lost' \subseteq Calls
  BY <1>1, Outcomes DEF ReadMentions, Annotate, AuditNote, InsertNote,
       RingMention, fanOutVars, threadVars, bellVars, noteVars
<1>3. /\ pc' \in [Calls -> Steps]
      /\ pc'[n] # "new"
      /\ \A d \in Calls \ {n} : pc'[d] = pc[d]
  <2>1. PICK from \in Steps, to \in Steps \ {"new"} : Moves(n, from, to)
    BY DEF ReadMentions, Annotate, AuditNote, InsertNote, RingMention, Steps
  <2> QED
    BY <1>1, <2>1, PcMoves
<1>4. /\ OneSender' /\ MailedOnce' /\ StampedInThread' /\ ReceiptsAreHonest'
  BY <1>1, <1>2, <1>3 DEF OneSender, MailedOnce, StampedInThread,
                          ReceiptsAreHonest
<1>5. /\ mentions \in [Notes -> SUBSET Adjusters]
      /\ mentioned \in [Notes -> SUBSET Adjusters]
      /\ \A m \in Notes : mentioned[m] \subseteq mentions[m]
      /\ notes \subseteq Notes /\ noteAudit \subseteq Notes
  BY DEF TypeOK, BellsHaveCallers
<1>6. /\ mentions' \in [Notes -> SUBSET Adjusters]
      /\ mentioned' \in [Notes -> SUBSET Adjusters]
      /\ \A m \in Notes \ {n} : mentioned'[m] = mentioned[m]
      /\ \A m \in Notes : mentioned'[m] \subseteq mentions'[m]
      /\ notes' \subseteq Notes /\ noteAudit' \subseteq Notes
  <2>1. CASE ReadMentions(n)
    <3>1. mentioned[n] = {}
      BY <2>1 DEF ReadMentions, Moves, BellsHaveCallers
    <3> QED
      BY <1>5, <2>1, <3>1 DEF ReadMentions
  <2>2. CASE AuditNote(n) \/ InsertNote(n)
    BY <1>5, <2>2 DEF AuditNote, InsertNote
  <2>3. CASE RingMention(n)
    <3>1. \/ mentioned' = mentioned
          \/ \E a \in mentions[n] :
               mentioned' = [mentioned EXCEPT ![n] = @ \cup {a}]
      BY <2>3 DEF RingMention
    <3> QED
      BY <1>5, <2>3, <3>1 DEF RingMention
  <2> QED
    BY <2>1, <2>2, <2>3 DEF Annotate
<1>7. TypeOK'
  BY <1>2, <1>3, <1>6 DEF TypeOK
<1>8. BellsHaveCallers'
  BY <1>1, <1>2, <1>3, <1>6, Kinds DEF BellsHaveCallers
<1> QED
  BY <1>4, <1>7, <1>8

LEMMA DeathKeeps ==
  ASSUME NotificationsInv, NEW c \in Calls, Dies(c)
  PROVE  NotificationsInv'
<1> USE DEF NotificationsInv
<1>1. /\ pc' \in [Calls -> Steps] /\ pc[c] # "new" /\ pc'[c] = "dead"
      /\ \A d \in Calls \ {c} : pc'[d] = pc[d]
      /\ faults' \in 0..MaxFaults
      /\ UNCHANGED <<milestone, records, mails, thread, receipts, side, stamped,
                     listed, bell, rung, notes, noteAudit, mentions, mentioned,
                     lost>>
  BY NotificationsAssumption DEF Dies, TypeOK, Steps, fanOutVars, threadVars,
                                 bellVars, noteVars
<1>2. TypeOK'
  BY <1>1 DEF TypeOK
<1>3. OneSender' /\ MailedOnce'
  BY <1>1 DEF OneSender, MailedOnce, Calls
<1>4. StampedInThread' /\ ReceiptsAreHonest'
  BY <1>1 DEF StampedInThread, ReceiptsAreHonest, Calls
<1>5. BellsHaveCallers'
  BY <1>1 DEF BellsHaveCallers, Calls
<1> QED
  BY <1>2, <1>3, <1>4, <1>5

LEMMA BellKeeps ==
  ASSUME NotificationsInv, MarkBellRead
  PROVE  NotificationsInv'
<1> USE DEF NotificationsInv
<1>1. /\ bell' \in BellRecord
      /\ UNCHANGED <<pc, milestone, records, mails, thread, receipts, side,
                     stamped, listed, rung, notes, noteAudit, mentions,
                     mentioned, lost, faults>>
  BY DEF MarkBellRead, TypeOK, BellRecord, fanOutVars, threadVars, noteVars
<1> QED
  BY <1>1 DEF TypeOK, BellRecord, OneSender, MailedOnce, StampedInThread,
              ReceiptsAreHonest, BellsHaveCallers

LEMMA NotificationsStep == NotificationsInv /\ [Next]_vars => NotificationsInv'
<1> SUFFICES ASSUME NotificationsInv, [Next]_vars PROVE NotificationsInv'
  OBVIOUS
<1>1. CASE UNCHANGED vars
  BY <1>1 DEF vars, fanOutVars, threadVars, bellVars, noteVars,
              NotificationsInv, TypeOK, OneSender, MailedOnce, StampedInThread,
              ReceiptsAreHonest, BellsHaveCallers
<1>2. CASE Next
  BY <1>2, EmissionsKeep, MessagesKeep, ReadingsKeep, NotesKeep, BellKeeps,
     DeathKeeps DEF Next
<1> QED
  BY <1>1, <1>2

\* The invariant of the notifications, the thread and the notes.
THEOREM NotificationsInvariant == Spec => []NotificationsInv
  BY NotificationsInit, NotificationsStep, PTL DEF Spec

\* Every variable keeps its type.
THEOREM NotificationsTypes == Spec => []TypeOK
<1>1. NotificationsInv => TypeOK
  BY DEF NotificationsInv
<1> QED
  BY <1>1, NotificationsInvariant, PTL

\* No milestone is mailed twice or without its record, however many emissions
\* announce it at once and whatever dies in between.
THEOREM MailedAtMostOnce == Spec => []MailedOnce
<1>1. NotificationsInv => MailedOnce
  BY DEF NotificationsInv
<1> QED
  BY <1>1, NotificationsInvariant, PTL

\* Every message an answered reading has stamped is in its answer.
THEOREM ReceiptsAlwaysHonest == Spec => []ReceiptsAreHonest
<1>1. NotificationsInv => ReceiptsAreHonest
  BY DEF NotificationsInv
<1> QED
  BY <1>1, NotificationsInvariant, PTL

=============================================================================
