---------------------------- MODULE DocumentRequests ----------------------------
(***************************************************************************)
(* The document checklist of a claim: the adjuster's create and PATCH      *)
(* (app/document_requests.py, DocumentRequests.jsx), and the customer's    *)
(* upload through the portal with the bell it rings                        *)
(* (app/portal_uploads.py, PortalDocumentRequests.jsx).                    *)
(*                                                                         *)
(* Each call makes its database calls one after the other, with others in  *)
(* between, and may die after any of them; nothing is rolled back.  People *)
(* act on what their screen last loaded.                                   *)
(***************************************************************************)
EXTENDS Naturals

CONSTANTS
  Requests,   \* document requests, each also the call that creates it
  Patches,    \* adjusters' PATCH calls
  Uploads,    \* customers' upload calls, each with one file
  NoOne,
  MaxFaults   \* bound: calls that die half way

ASSUME ChecklistAssumption ==
  /\ NoOne \notin Requests \cup Patches \cup Uploads
  /\ Requests \cap Patches = {} /\ Uploads \cap (Requests \cup Patches) = {}
  /\ MaxFaults \in Nat

VARIABLES
  request,    \* document_requests: [status, wording, document]
  stored,     \* blobs in the upload directory, by their upload
  documents,  \* claim_documents rows, by their upload
  audit,      \* audit_log: [by, before, after]
  events,     \* claim_events, by the call that emitted them
  bells,      \* requests whose received notification exists (unique index)
  call,       \* each call: [pc, target, change, before]
  screen,     \* the statuses the adjuster's page and the portal show
  faults

dataVars == <<request, stored, documents, audit, events, bells>>
vars == <<dataVars, call, screen, faults>>

Status == {"absent", "requested", "received", "waived"}
Calls == Requests \cup Patches \cup Uploads
Screens == {"adjuster", "portal"}
Changes == SUBSET {"wording", "waive"}
Ended == {"done", "refused", "dead"}

Shows == [q \in Requests |-> request[q].status]

TypeOK ==
  /\ request \in [Requests -> [status : Status,
                               wording : Calls \cup {NoOne},
                               document : Uploads \cup {NoOne}]]
  /\ stored \subseteq Uploads /\ documents \subseteq Uploads
  /\ audit \subseteq [by : Calls, before : Status, after : Status]
  /\ events \subseteq Calls
  /\ bells \subseteq Requests
  /\ call \in [Calls -> [pc : Ended \cup {"new", "update", "store", "link",
                                          "flip", "audit", "emit", "bell",
                                          "reply"},
                         target : Requests \cup {NoOne},
                         change : Changes,
                         before : Status,
                         after : Status]]
  /\ screen \in [Screens -> [Requests -> Status]]
  /\ faults \in 0..MaxFaults

Init ==
  /\ request = [q \in Requests |->
       [status |-> "absent", wording |-> NoOne, document |-> NoOne]]
  /\ stored = {} /\ documents = {} /\ audit = {} /\ events = {} /\ bells = {}
  /\ call = [c \in Calls |-> [pc |-> "new", target |-> NoOne, change |-> {},
                              before |-> "absent", after |-> "absent"]]
  /\ screen = [s \in Screens |-> [q \in Requests |-> "absent"]]
  /\ faults = 0

-----------------------------------------------------------------------------
(* The adjuster: create_document_request and update_document_request.      *)

Create(q) ==
  /\ call[q].pc = "new"
  /\ request' = [request EXCEPT ![q].status = "requested", ![q].wording = q]
  /\ call' = [call EXCEPT ![q].pc = "audit", ![q].target = q,
                          ![q].after = "requested"]
  /\ UNCHANGED <<stored, documents, audit, events, bells, screen, faults>>

\* The 409s of a PATCH, from the request as it was read.
Refused(q, change) ==
  IF "waive" \in change THEN request[q].status # "requested"
                        ELSE request[q].status = "waived"

\* The page offers Edit and Waive on what it shows as requested; the PATCH
\* reads the request and is refused or goes on.
BeginPatch(p) ==
  /\ call[p].pc = "new"
  /\ \E q \in Requests, change \in Changes \ {{}} :
       /\ screen["adjuster"][q] = "requested"
       /\ call' = [call EXCEPT ![p] =
            [pc |-> IF Refused(q, change) THEN "refused" ELSE "update",
             target |-> q, change |-> change,
             before |-> request[q].status, after |-> "absent"]]
  /\ UNCHANGED <<dataVars, screen, faults>>

\* find_one_and_update by id alone; the audit entry quotes what it returns.
ApplyPatch(p) ==
  /\ call[p].pc = "update"
  /\ LET q == call[p].target
         status == IF "waive" \in call[p].change THEN "waived"
                                                 ELSE request[q].status
         wording == IF "wording" \in call[p].change THEN p
                                                    ELSE request[q].wording
     IN  /\ request' = [request EXCEPT ![q].status = status,
                                       ![q].wording = wording]
         /\ call' = [call EXCEPT ![p].pc = "audit", ![p].after = status]
  /\ UNCHANGED <<stored, documents, audit, events, bells, screen, faults>>

-----------------------------------------------------------------------------
(* The customer: upload_portal_document.                                   *)

\* The portal offers an upload on what it shows as requested; the call reads
\* the request and is refused or goes on.
BeginUpload(u) ==
  /\ call[u].pc = "new"
  /\ \E q \in Requests :
       /\ screen["portal"][q] = "requested"
       /\ call' = [call EXCEPT ![u] =
            [pc |-> IF request[q].status = "requested" THEN "store" ELSE "refused",
             target |-> q, change |-> {},
             before |-> "requested", after |-> "received"]]
  /\ UNCHANGED <<dataVars, screen, faults>>

StoreBlobOnly(u) ==
  /\ call[u].pc = "store"
  /\ stored' = stored \cup {u}
  /\ call' = [call EXCEPT ![u].pc = "flip"]
  /\ UNCHANGED <<request, documents, audit, events, bells, screen, faults>>

StoreBlob(u) ==
  /\ call[u].pc = "store"
  /\ stored' = stored \cup {u}
  /\ call' = [call EXCEPT ![u].pc = "link"]
  /\ UNCHANGED <<request, documents, audit, events, bells, screen, faults>>

InsertDocument(u) ==
  /\ call[u].pc = "link"
  /\ documents' = documents \cup {u}
  /\ call' = [call EXCEPT ![u].pc = "flip"]
  /\ UNCHANGED <<request, stored, audit, events, bells, screen, faults>>

Received(q, u) ==
  [request EXCEPT ![q].status = "received", ![q].document = u]

\* The flip without `requested` in its filter.
FlipUnfiltered(u) ==
  /\ call[u].pc = "flip"
  /\ request' = Received(call[u].target, u)
  /\ call' = [call EXCEPT ![u].pc = "audit"]
  /\ UNCHANGED <<stored, documents, audit, events, bells, screen, faults>>

\* A flip that goes on to the event at once.
FlipUnaudited(u) ==
  /\ call[u].pc = "flip"
  /\ IF request[call[u].target].status = "requested"
     THEN /\ request' = Received(call[u].target, u)
          /\ call' = [call EXCEPT ![u].pc = "emit"]
     ELSE /\ call' = [call EXCEPT ![u].pc = "refused"]
          /\ UNCHANGED request
  /\ UNCHANGED <<stored, documents, audit, events, bells, screen, faults>>

\* update_one filtered on `requested`: the loser is told to refresh.
FlipReceived(u) ==
  /\ call[u].pc = "flip"
  /\ IF request[call[u].target].status = "requested"
     THEN /\ request' = Received(call[u].target, u)
          /\ call' = [call EXCEPT ![u].pc = "audit"]
     ELSE /\ call' = [call EXCEPT ![u].pc = "refused"]
          /\ UNCHANGED request
  /\ UNCHANGED <<stored, documents, audit, events, bells, screen, faults>>

\* _notify_requesting_adjuster: a second row for the request is a duplicate
\* key, and the call answers all the same.
RingBell(u) ==
  /\ call[u].pc = "bell"
  /\ bells' = bells \cup {call[u].target}
  /\ call' = [call EXCEPT ![u].pc = "reply"]
  /\ UNCHANGED <<request, stored, documents, audit, events, screen, faults>>

-----------------------------------------------------------------------------
(* What all three end with, and the screens.                               *)

AppendAudit(c) ==
  /\ call[c].pc = "audit"
  /\ audit' = audit \cup
       {[by |-> c, before |-> call[c].before, after |-> call[c].after]}
  /\ call' = [call EXCEPT ![c].pc = "emit"]
  /\ UNCHANGED <<request, stored, documents, events, bells, screen, faults>>

EmitEvent(c) ==
  /\ call[c].pc = "emit"
  /\ events' = events \cup {c}
  /\ call' = [call EXCEPT ![c].pc = IF c \in Uploads THEN "bell" ELSE "reply"]
  /\ UNCHANGED <<request, stored, documents, audit, bells, screen, faults>>

\* The success answer arrives, and the caller's screen loads the checklist.
Reply(c) ==
  /\ call[c].pc = "reply"
  /\ screen' = [screen EXCEPT
       ![IF c \in Uploads THEN "portal" ELSE "adjuster"] = Shows]
  /\ call' = [call EXCEPT ![c].pc = "done"]
  /\ UNCHANGED <<dataVars, faults>>

\* A screen is opened, or the portal's poll is due.
Load(s) ==
  /\ screen[s] # Shows
  /\ screen' = [screen EXCEPT ![s] = Shows]
  /\ UNCHANGED <<dataVars, call, faults>>

\* The API process dies, or one of the call's database calls fails.
Die(c) ==
  /\ call[c].pc \notin Ended \cup {"new"}
  /\ faults < MaxFaults
  /\ faults' = faults + 1
  /\ call' = [call EXCEPT ![c].pc = "dead"]
  /\ UNCHANGED <<dataVars, screen>>

Continue(c) ==
  \/ c \in Patches /\ ApplyPatch(c)
  \/ c \in Uploads /\ (\/ StoreBlob(c) \/ InsertDocument(c)
                       \/ FlipReceived(c) \/ RingBell(c))
  \/ AppendAudit(c) \/ EmitEvent(c) \/ Reply(c)

Next ==
  \/ \E q \in Requests : Create(q)
  \/ \E p \in Patches : BeginPatch(p)
  \/ \E u \in Uploads : BeginUpload(u)
  \/ \E c \in Calls : Continue(c) \/ Die(c)
  \/ \E s \in Screens : Load(s)

Spec == Init /\ [][Next]_vars

\* A call that has begun runs to its end unless it dies.
FairSpec == Spec /\ \A c \in Calls : WF_vars(Continue(c))

-----------------------------------------------------------------------------
(* Properties.                                                             *)

\* The document a request names is there: its row was inserted and its file
\* stored before the request said received, wherever the upload died.
DocumentBehindReceipt ==
  \A q \in Requests :
    /\ request[q].status = "received" => request[q].document # NoOne
    /\ request[q].document # NoOne =>
         /\ request[q].document \in stored \cap documents
         /\ call[request[q].document].target = q

\* "A second upload can never double-receive": the first document a request
\* is given stays its document.
OneReceipt ==
  [][\A q \in Requests : request[q].document # NoOne =>
       request'[q].document = request[q].document]_vars

\* A waived request is closed, whatever uploads and edits were under way.
WaivedIsClosed ==
  [][\A q \in Requests :
       request[q].status = "waived" => request'[q].status = "waived"]_vars

\* A bell rings only for a request that was answered, and only after the
\* receipt is in the audit log and on the claim's stream.
BellsAreEarned ==
  \A q \in bells :
    /\ request[q].document \in events
    /\ [by |-> request[q].document, before |-> "requested",
        after |-> "received"] \in audit

\* A request that was answered or waived gets the audit entry that says so,
\* unless the call that closed it died on the way.
ClosingIsAudited ==
  \A q \in Requests, s \in {"received", "waived"} :
    request[q].status = s ~>
      \/ \E a \in audit : call[a.by].target = q /\ a.after = s
      \/ \E c \in Patches \cup Uploads :
           call[c].target = q /\ call[c].after = s /\ call[c].pc = "dead"

\* api-reference.md: "receiving (the customer's portal upload) or waiving is
\* terminal"; portal_uploads.py: of a concurrent waive and an upload "one of
\* them wins".
ReceivingIsTerminal ==
  [][\A q \in Requests :
       request[q].status = "received" => request'[q].status = "received"]_vars

=============================================================================
