----------------------------- MODULE Notifications -----------------------------
(***************************************************************************)
(* Who is told what about one claim: the milestone fan-out behind every    *)
(* event (backend/app/notifications), the thread of messages between the   *)
(* customer and the adjusters (app/claim_messages.py, messages_routes.py), *)
(* internal notes with mentions (app/notes_routes.py), and the bell of     *)
(* NotificationBell.js.                                                    *)
(*                                                                         *)
(* Every call of a request is a step of its own, and a request may die     *)
(* between two of them; sends, the thread's event and the adjusters' bell  *)
(* may also fail on their own, which the code logs and ignores.  The       *)
(* unique index of the notifications collection, on claim, milestone and   *)
(* request, is what keeps a milestone, and the bell of a note, single.     *)
(***************************************************************************)
EXTENDS Naturals, FiniteSets

CONSTANTS
  Emissions,     \* emit_event calls whose event is a milestone
  Milestones,    \* submitted, documents_received, decision_ready, ...
  FromCustomer,  \* messages the customer posts
  FromAdjuster,  \* messages an adjuster posts
  Readings,      \* requests for the thread, of either side
  Notes,         \* internal notes posted
  Adjusters,     \* adjuster accounts
  NoOne,         \* no message, milestone or role
  MaxFaults      \* bound: deaths and failed sends or writes

Messages == FromCustomer \cup FromAdjuster
Calls == Emissions \cup Messages \cup Readings \cup Notes

ASSUME NotificationsAssumption ==
  /\ NoOne \notin Messages \cup Milestones
  /\ FromCustomer \cap FromAdjuster = {}
  /\ Emissions \cap (Messages \cup Readings \cup Notes) = {}
  /\ Messages \cap (Readings \cup Notes) = {} /\ Readings \cap Notes = {}
  /\ IsFiniteSet(Emissions)
  /\ MaxFaults \in Nat

VARIABLES
  pc,        \* pc[c]: the next call of request c
  milestone, \* milestone[e]: what emission e announces
  records,   \* milestones that have a notification
  mails,     \* mails[m]: how often milestone m was sent
  thread,    \* claim_messages
  receipts,  \* messages whose read_at is set
  bell,      \* the adjusters' new_message notification
  rung,      \* customer messages that rang it
  side,      \* side[r]: who asked for the thread
  stamped,   \* stamped[r]: the messages reading r stamped
  listed,    \* listed[r]: the messages it answered with
  notes,     \* claim_notes
  noteAudit, \* notes with an audit entry
  mentions,  \* mentions[n]: the adjusters note n mentions
  mentioned, \* mentioned[n]: those of them with a bell
  lost,      \* requests whose milestone mail or bell failed and was ignored
  faults

fanOutVars == <<milestone, records, mails>>
threadVars == <<thread, receipts, side, stamped, listed>>
bellVars == <<bell, rung>>
noteVars == <<notes, noteAudit, mentions, mentioned>>
vars == <<pc, fanOutVars, threadVars, bellVars, noteVars, lost, faults>>

Sides == {"customer", "adjuster"}
From(s) == IF s = "customer" THEN FromCustomer ELSE FromAdjuster
Steps == {"new", "find", "insert", "send", "notify", "ring",
          "mark", "list", "audit", "note", "mention", "done", "failed", "dead"}

TypeOK ==
  /\ pc \in [Calls -> Steps]
  /\ milestone \in [Emissions -> Milestones \cup {NoOne}]
  /\ records \subseteq Milestones
  /\ mails \in [Milestones -> 0..Cardinality(Emissions)]
  /\ thread \subseteq Messages /\ receipts \subseteq thread
  /\ bell \in [shown : FromCustomer \cup {NoOne}, read : BOOLEAN]
  /\ rung \subseteq FromCustomer
  /\ side \in [Readings -> Sides \cup {NoOne}]
  /\ stamped \in [Readings -> SUBSET Messages]
  /\ listed \in [Readings -> SUBSET Messages]
  /\ notes \subseteq Notes /\ noteAudit \subseteq Notes
  /\ mentions \in [Notes -> SUBSET Adjusters]
  /\ \A n \in Notes : mentioned[n] \subseteq mentions[n]
  /\ lost \subseteq Calls
  /\ faults \in 0..MaxFaults

Init ==
  /\ pc = [c \in Calls |-> "new"]
  /\ milestone = [e \in Emissions |-> NoOne]
  /\ records = {} /\ mails = [m \in Milestones |-> 0]
  /\ thread = {} /\ receipts = {}
  /\ bell = [shown |-> NoOne, read |-> FALSE] /\ rung = {}
  /\ side = [r \in Readings |-> NoOne]
  /\ stamped = [r \in Readings |-> {}] /\ listed = [r \in Readings |-> {}]
  /\ notes = {} /\ noteAudit = {}
  /\ mentions = [n \in Notes |-> {}] /\ mentioned = [n \in Notes |-> {}]
  /\ lost = {} /\ faults = 0

Moves(c, from, to) == pc[c] = from /\ pc' = [pc EXCEPT ![c] = to]

\* The call succeeds, or its exception is logged and the request goes on.
Succeeds == UNCHANGED <<lost, faults>>
IsIgnored == faults < MaxFaults /\ faults' = faults + 1 /\ UNCHANGED lost
IsLost(c) ==
  faults < MaxFaults /\ faults' = faults + 1 /\ lost' = lost \cup {c}

-----------------------------------------------------------------------------
(* Milestone fan-out: dispatch_milestone, after the event was inserted.    *)

Announce(e) ==
  /\ Moves(e, "new", "find")
  /\ \E m \in Milestones : milestone' = [milestone EXCEPT ![e] = m]
  /\ Succeeds
  /\ UNCHANGED <<records, mails, threadVars, bellVars, noteVars>>

\* A milestone that has its record was announced before.
FindRecord(e) ==
  /\ Moves(e, "find", IF milestone[e] \in records THEN "done" ELSE "insert")
  /\ Succeeds
  /\ UNCHANGED <<fanOutVars, threadVars, bellVars, noteVars>>

\* Nothing but the find keeps a milestone from being recorded again.
InsertRecordUnindexed(e) ==
  /\ Moves(e, "insert", "send")
  /\ records' = records \cup {milestone[e]}
  /\ Succeeds
  /\ UNCHANGED <<milestone, mails, threadVars, bellVars, noteVars>>

\* The unique index lets one insert through; the other raises, is logged and
\* sends nothing.
InsertRecord(e) ==
  /\ Moves(e, "insert", IF milestone[e] \in records THEN "done" ELSE "send")
  /\ records' = records \cup {milestone[e]}
  /\ Succeeds
  /\ UNCHANGED <<milestone, mails, threadVars, bellVars, noteVars>>

\* The mail is given up and nothing tells.
SendMailUnnoticed(e) ==
  /\ Moves(e, "send", "done")
  /\ Succeeds
  /\ UNCHANGED <<fanOutVars, threadVars, bellVars, noteVars>>

SendMail(e) ==
  /\ Moves(e, "send", "done")
  /\ \/ mails' = [mails EXCEPT ![milestone[e]] = @ + 1] /\ Succeeds
     \/ UNCHANGED mails /\ IsLost(e)
  /\ UNCHANGED <<milestone, records, threadVars, bellVars, noteVars>>

-----------------------------------------------------------------------------
(* The thread: post_message and what the two send routes do after it.      *)

StoreMessage(p) ==
  /\ Moves(p, "new", "notify")
  /\ thread' = thread \cup {p}
  /\ Succeeds
  /\ UNCHANGED <<fanOutVars, receipts, side, stamped, listed,
                 bellVars, noteVars>>

\* No route rings the bell.
AfterNoticeForAll(p) == "done"
\* Only the customer's route goes on to ring the bell.
AfterNotice(p) == IF p \in FromCustomer THEN "ring" ELSE "done"

\* The claim_message_posted event (see EventStream) and notify_other_party's
\* mails change nothing here; a failure of either is logged and ignored.
TellOtherParty(p) ==
  /\ Moves(p, "notify", AfterNotice(p))
  /\ Succeeds \/ IsIgnored
  /\ UNCHANGED <<fanOutVars, threadVars, bellVars, noteVars>>

\* notify_adjusters_bell: one record for all adjusters, made unread again by
\* each message.
RingBell(p) ==
  /\ Moves(p, "ring", "done")
  /\ \/ /\ bell' = [shown |-> p, read |-> FALSE] /\ rung' = rung \cup {p}
        /\ Succeeds
     \/ UNCHANGED bellVars /\ IsLost(p)
  /\ UNCHANGED <<fanOutVars, threadVars, noteVars>>

\* The thread is listed first.
AfterReadSwapped == [new |-> "list", list |-> "mark", mark |-> "done"]
\* The two list routes stamp the other side's messages, then list the thread.
AfterRead == [new |-> "mark", mark |-> "list", list |-> "done"]

AskForThread(r) ==
  /\ Moves(r, "new", AfterRead["new"])
  /\ \E s \in Sides : side' = [side EXCEPT ![r] = s]
  /\ Succeeds
  /\ UNCHANGED <<fanOutVars, thread, receipts, stamped, listed,
                 bellVars, noteVars>>

MarkThreadRead(r) ==
  LET unread == (thread \ From(side[r])) \ receipts
  IN  /\ Moves(r, "mark", AfterRead["mark"])
      /\ receipts' = receipts \cup unread
      /\ stamped' = [stamped EXCEPT ![r] = unread]
      /\ Succeeds
      /\ UNCHANGED <<fanOutVars, thread, side, listed, bellVars,
                     noteVars>>

ListThread(r) ==
  /\ Moves(r, "list", AfterRead["list"])
  /\ listed' = [listed EXCEPT ![r] = thread]
  /\ Succeeds
  /\ UNCHANGED <<fanOutVars, thread, receipts, side, stamped,
                 bellVars, noteVars>>

-----------------------------------------------------------------------------
(* Internal notes: create_claim_note.                                      *)

ReadMentions(n) ==
  /\ Moves(n, "new", "audit")
  /\ \E A \in SUBSET Adjusters : mentions' = [mentions EXCEPT ![n] = A]
  /\ Succeeds
  /\ UNCHANGED <<fanOutVars, threadVars, bellVars, notes, noteAudit, mentioned>>

AuditNote(n) ==
  /\ Moves(n, "audit", "note")
  /\ noteAudit' = noteAudit \cup {n}
  /\ Succeeds
  /\ UNCHANGED <<fanOutVars, threadVars, bellVars, notes, mentions, mentioned>>

InsertNote(n) ==
  /\ Moves(n, "note", "mention")
  /\ notes' = notes \cup {n}
  /\ Succeeds
  /\ UNCHANGED <<fanOutVars, threadVars, bellVars, noteAudit, mentions, mentioned>>

\* The adjusters rung are not the ones the note mentions.
RingMentionForAll(n) ==
  /\ \/ \E a \in Adjusters \ mentioned[n] :
          IF mentioned[n] = {}
          THEN /\ Moves(n, "mention", "mention")
               /\ mentioned' = [mentioned EXCEPT ![n] = @ \cup {a}]
          ELSE Moves(n, "mention", "failed") /\ UNCHANGED mentioned
     \/ /\ mentions[n] \subseteq mentioned[n]
        /\ Moves(n, "mention", "done") /\ UNCHANGED mentioned
  /\ Succeeds
  /\ UNCHANGED <<fanOutVars, threadVars, bellVars, notes, noteAudit, mentions>>

\* One insert per mentioned adjuster, all under the milestone of the note:
\* the unique index refuses the second, and the request fails.
RingMention(n) ==
  /\ \/ \E a \in mentions[n] \ mentioned[n] :
          IF mentioned[n] = {}
          THEN /\ Moves(n, "mention", "mention")
               /\ mentioned' = [mentioned EXCEPT ![n] = @ \cup {a}]
          ELSE Moves(n, "mention", "failed") /\ UNCHANGED mentioned
     \/ /\ mentions[n] \subseteq mentioned[n]
        /\ Moves(n, "mention", "done") /\ UNCHANGED mentioned
  /\ Succeeds
  /\ UNCHANGED <<fanOutVars, threadVars, bellVars, notes, noteAudit, mentions>>

-----------------------------------------------------------------------------
(* The bell on an adjuster's screen.                                       *)

\* markAllRead sends the ids a screen shows unread, whenever it loaded them;
\* the record is the same whatever message it shows by now, and the same for
\* every adjuster, so each of them marks it read for all.
MarkBellRead ==
  /\ bell.shown # NoOne /\ ~bell.read
  /\ bell' = [bell EXCEPT !.read = TRUE]
  /\ UNCHANGED <<pc, fanOutVars, threadVars, rung, noteVars, lost, faults>>

-----------------------------------------------------------------------------

\* The process dies, or a call whose failure is not caught fails.
Dies(c) ==
  /\ pc[c] \notin {"new", "done", "failed", "dead"}
  /\ pc' = [pc EXCEPT ![c] = "dead"]
  /\ faults < MaxFaults /\ faults' = faults + 1
  /\ UNCHANGED <<fanOutVars, threadVars, bellVars, noteVars, lost>>

FanOut(e) == FindRecord(e) \/ InsertRecord(e) \/ SendMail(e)
Post(p) == TellOtherParty(p) \/ RingBell(p)
Read(r) == MarkThreadRead(r) \/ ListThread(r)
Annotate(n) == AuditNote(n) \/ InsertNote(n) \/ RingMention(n)

Next ==
  \/ \E e \in Emissions : Announce(e) \/ FanOut(e)
  \/ \E p \in Messages : StoreMessage(p) \/ Post(p)
  \/ \E r \in Readings : AskForThread(r) \/ Read(r)
  \/ \E n \in Notes : ReadMentions(n) \/ Annotate(n)
  \/ MarkBellRead
  \/ \E c \in Calls : Dies(c)

Spec == Init /\ [][Next]_vars

\* A request that has begun is run to its end unless it dies.
FairSpec ==
  /\ Spec
  /\ \A e \in Emissions : WF_vars(FanOut(e))
  /\ \A p \in Messages : WF_vars(Post(p))
  /\ \A r \in Readings : WF_vars(Read(r))
  /\ \A n \in Notes : WF_vars(Annotate(n))

-----------------------------------------------------------------------------
(* Properties.                                                             *)

\* "Replayed events and retried fan-outs must never double-notify": however
\* many emissions announce a milestone at once, it is mailed at most once,
\* and only when the notification center has it.
MailedOnce ==
  \A m \in Milestones : mails[m] <= IF m \in records THEN 1 ELSE 0

\* A message is stamped read only by an answer that also shows it: the thread
\* is listed after it was stamped, so none slips in between unseen.
ReceiptsAreHonest ==
  \A r \in Readings : pc[r] = "done" => stamped[r] \subseteq listed[r]

\* A milestone the notification center has is mailed, unless the emission
\* that recorded it died or its send failed.
RecordedIsMailed ==
  \A m \in Milestones :
    m \in records ~>
      \/ mails[m] = 1
      \/ \E e \in Emissions :
           milestone[e] = m /\ (pc[e] = "dead" \/ e \in lost)

\* A stored message of the customer reaches the adjusters' bell, unless its
\* request died or the bell could not be written.
MessagesRing ==
  \A p \in FromCustomer :
    p \in thread ~> p \in rung \/ pc[p] = "dead" \/ p \in lost

=============================================================================
