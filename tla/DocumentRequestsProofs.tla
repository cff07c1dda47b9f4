------------------------- MODULE DocumentRequestsProofs -------------------------
(***************************************************************************)
(* What DocumentRequests keeps for any number of requests, PATCHes,        *)
(* uploads and failures.                                                   *)
(*                                                                         *)
(* DocumentBehindReceipt and BellsAreEarned are not inductive: that a flip *)
(* finds its file and its row in place depends on how far each upload has  *)
(* come, and that a request is given its first document when it is flipped *)
(* depends on no open request having one.  ChecklistInv says both.         *)
(***************************************************************************)
EXTENDS DocumentRequests, TLAPS

Pcs == Ended \cup {"new", "update", "store", "link", "flip", "audit", "emit",
                   "bell", "reply"}
CallRecord == [pc : Pcs, target : Requests \cup {NoOne}, change : Changes,
               before : Status, after : Status]
RequestRecord == [status : Status, wording : Calls \cup {NoOne},
                  document : Uploads \cup {NoOne}]

Receipt(u) == [by |-> u, before |-> "requested", after |-> "received"]

\* A request that was not created has no status, and no screen shows it.
CreatedFirst ==
  /\ \A q \in Requests :
       call[q].pc = "new" => request[q].status = "absent"
  /\ \A s \in Screens, q \in Requests :
       screen[s][q] = "requested" => call[q].pc # "new"

\* A PATCH that goes on is about a request that was created.
PatchesHaveTargets ==
  \A p \in Patches : call[p].pc = "update" =>
    /\ call[p].target \in Requests
    /\ call[call[p].target].pc # "new"

\* How far an upload has come, and what it has left behind by then.
UploadsProgress ==
  \A u \in Uploads :
    /\ call[u].pc = "new" => u \notin documents
    /\ call[u].pc # "new" =>
         /\ call[u].target \in Requests
         /\ call[u].before = "requested" /\ call[u].after = "received"
    /\ call[u].pc \in {"link", "flip", "audit", "emit", "bell"} => u \in stored
    /\ call[u].pc \in {"flip", "audit", "emit", "bell"} => u \in documents
    /\ call[u].pc \in {"audit", "emit", "bell"} =>
         request[call[u].target].document = u
    /\ call[u].pc \in {"emit", "bell"} => Receipt(u) \in audit
    /\ call[u].pc = "bell" => u \in events

\* A request that is still open has no document.
OpenHasNone ==
  \A q \in Requests :
    request[q].status \in {"absent", "requested"} => request[q].document = NoOne

ChecklistInv ==
  /\ TypeOK
  /\ CreatedFirst
  /\ PatchesHaveTargets
  /\ UploadsProgress
  /\ OpenHasNone
  /\ DocumentBehindReceipt
  /\ BellsAreEarned

\* The next value of the calls after one of them has moved on.
LEMMA CallMoves ==
  ASSUME call \in [Calls -> CallRecord],
         NEW c \in Calls,
         NEW r \in CallRecord,
         call' = [call EXCEPT ![c] = r]
  PROVE  /\ call' \in [Calls -> CallRecord]
         /\ call'[c] = r
         /\ \A d \in Calls : d # c => call'[d] = call[d]
  OBVIOUS

\* A call that only changes where it is.
LEMMA PcMoves ==
  ASSUME call \in [Calls -> CallRecord],
         NEW c \in Calls,
         NEW pc \in Pcs,
         call' = [call EXCEPT ![c].pc = pc]
  PROVE  /\ call' \in [Calls -> CallRecord]
         /\ call'[c].pc = pc
         /\ call'[c].target = call[c].target
         /\ call'[c].before = call[c].before
         /\ call'[c].after = call[c].after
         /\ \A d \in Calls : d # c => call'[d] = call[d]
  BY DEF CallRecord

\* A step that is no upload's and gives or takes no document.
LEMMA DocumentsStay ==
  ASSUME ChecklistInv,
         \A u \in Uploads : call'[u] = call[u],
         \A q \in Requests :
           /\ request'[q].document = request[q].document
           /\ request'[q].status = "received" => request[q].status = "received",
         UNCHANGED <<stored, documents, audit, events, bells>>
  PROVE  UploadsProgress' /\ DocumentBehindReceipt' /\ BellsAreEarned'
<1> USE ChecklistAssumption DEF ChecklistInv
<1>1. UploadsProgress'
  <2> SUFFICES ASSUME NEW u \in Uploads
               PROVE  UploadsProgress!(u)'
    BY DEF UploadsProgress
  <2>1. /\ call'[u] = call[u]
        /\ call[u].pc # "new" => request'[call[u].target].document
                                 = request[call[u].target].document
    BY DEF UploadsProgress
  <2> QED
    BY <2>1 DEF UploadsProgress, Receipt
<1>2. DocumentBehindReceipt'
  <2>1. \A q \in Requests :
          request[q].document # NoOne => request[q].document \in Uploads
    BY DEF TypeOK
  <2> QED
    BY <2>1 DEF DocumentBehindReceipt
<1>3. BellsAreEarned'
  <2>1. bells \subseteq Requests
    BY DEF TypeOK
  <2> QED
    BY <2>1 DEF BellsAreEarned
<1> QED
  BY <1>1, <1>2, <1>3

\* Storing the file touches no request.
LEMMA StoreBlobKeeps ==
  ASSUME ChecklistInv, NEW u \in Uploads, StoreBlob(u)
  PROVE  ChecklistInv'
<1> USE ChecklistAssumption DEF ChecklistInv
<1>1. call \in [Calls -> CallRecord] /\ u \in Calls
  BY DEF TypeOK, CallRecord, Pcs, Calls
<1>2. /\ call' \in [Calls -> CallRecord]
      /\ call'[u].pc = "link"
      /\ call'[u].target = call[u].target
      /\ call'[u].before = call[u].before
      /\ call'[u].after = call[u].after
      /\ \A d \in Calls : d # u => call'[d] = call[d]
  BY <1>1, PcMoves DEF StoreBlob, Pcs, Ended
<1>3. TypeOK'
  BY <1>1, <1>2 DEF StoreBlob, TypeOK, CallRecord, Pcs, RequestRecord, Calls, Ended, Screens, Shows
<1>4. CreatedFirst'
  BY <1>1, <1>2 DEF StoreBlob, CreatedFirst, Calls, Shows, Screens
<1>5. PatchesHaveTargets'
  BY <1>1, <1>2 DEF StoreBlob, PatchesHaveTargets, Calls
<1>6. UploadsProgress'
  <2> SUFFICES ASSUME NEW v \in Uploads
               PROVE  UploadsProgress!(v)'
    BY DEF UploadsProgress
  <2>1. UploadsProgress!(v) /\ v \in Calls
    BY DEF UploadsProgress, Calls
  <2>2. CASE v = u
    BY <1>2, <2>1, <2>2 DEF StoreBlob, Receipt
  <2>3. CASE v # u
    <3>1. call'[v] = call[v]
      BY <1>2, <2>1, <2>3
    <3> QED
      BY <2>1, <3>1 DEF StoreBlob, Receipt
  <2> QED
    BY <2>2, <2>3
<1>7. OpenHasNone'
  BY <1>1, <1>2 DEF StoreBlob, OpenHasNone, Calls
<1>8. DocumentBehindReceipt'
  BY <1>1, <1>2 DEF StoreBlob, DocumentBehindReceipt, OpenHasNone, UploadsProgress, Calls
<1>9. BellsAreEarned'
  BY <1>1, <1>2 DEF StoreBlob, BellsAreEarned, UploadsProgress, Receipt, DocumentBehindReceipt, Calls
<1> QED
  BY <1>3, <1>4, <1>5, <1>6, <1>7, <1>8, <1>9

\* The row is inserted after the file was stored.
LEMMA InsertDocumentKeeps ==
  ASSUME ChecklistInv, NEW u \in Uploads, InsertDocument(u)
  PROVE  ChecklistInv'
<1> USE ChecklistAssumption DEF ChecklistInv
<1>1. call \in [Calls -> CallRecord] /\ u \in Calls
  BY DEF TypeOK, CallRecord, Pcs, Calls
<1>2. /\ call' \in [Calls -> CallRecord]
      /\ call'[u].pc = "flip"
      /\ call'[u].target = call[u].target
      /\ call'[u].before = call[u].before
      /\ call'[u].after = call[u].after
      /\ \A d \in Calls : d # u => call'[d] = call[d]
  BY <1>1, PcMoves DEF InsertDocument, Pcs, Ended
<1>3. TypeOK'
  BY <1>1, <1>2 DEF InsertDocument, TypeOK, CallRecord, Pcs, RequestRecord, Calls, Ended, Screens, Shows
<1>4. CreatedFirst'
  BY <1>1, <1>2 DEF InsertDocument, CreatedFirst, Calls, Shows, Screens
<1>5. PatchesHaveTargets'
  BY <1>1, <1>2 DEF InsertDocument, PatchesHaveTargets, Calls
<1>6. UploadsProgress'
  <2> SUFFICES ASSUME NEW v \in Uploads
               PROVE  UploadsProgress!(v)'
    BY DEF UploadsProgress
  <2>1. UploadsProgress!(v) /\ v \in Calls
    BY DEF UploadsProgress, Calls
  <2>2. CASE v = u
    BY <1>2, <2>1, <2>2 DEF InsertDocument, Receipt
  <2>3. CASE v # u
    <3>1. call'[v] = call[v]
      BY <1>2, <2>1, <2>3
    <3> QED
      BY <2>1, <3>1 DEF InsertDocument, Receipt
  <2> QED
    BY <2>2, <2>3
<1>7. OpenHasNone'
  BY <1>1, <1>2 DEF InsertDocument, OpenHasNone, Calls
<1>8. DocumentBehindReceipt'
  BY <1>1, <1>2 DEF InsertDocument, DocumentBehindReceipt, OpenHasNone, UploadsProgress, Calls
<1>9. BellsAreEarned'
  BY <1>1, <1>2 DEF InsertDocument, BellsAreEarned, UploadsProgress, Receipt, DocumentBehindReceipt, Calls
<1> QED
  BY <1>3, <1>4, <1>5, <1>6, <1>7, <1>8, <1>9

\* The bell is rung after the audit entry and the event.
LEMMA RingBellKeeps ==
  ASSUME ChecklistInv, NEW u \in Uploads, RingBell(u)
  PROVE  ChecklistInv'
<1> USE ChecklistAssumption DEF ChecklistInv
<1>1. call \in [Calls -> CallRecord] /\ u \in Calls
  BY DEF TypeOK, CallRecord, Pcs, Calls
<1>2. /\ call' \in [Calls -> CallRecord]
      /\ call'[u].pc = "reply"
      /\ call'[u].target = call[u].target
      /\ call'[u].before = call[u].before
      /\ call'[u].after = call[u].after
      /\ \A d \in Calls : d # u => call'[d] = call[d]
  BY <1>1, PcMoves DEF RingBell, Pcs, Ended
<1>3. TypeOK'
  BY <1>1, <1>2 DEF RingBell, UploadsProgress, TypeOK, CallRecord, Pcs, RequestRecord, Calls, Ended, Screens, Shows
<1>4. CreatedFirst'
  BY <1>1, <1>2 DEF RingBell, CreatedFirst, Calls, Shows, Screens
<1>5. PatchesHaveTargets'
  BY <1>1, <1>2 DEF RingBell, PatchesHaveTargets, Calls
<1>6. UploadsProgress'
  <2> SUFFICES ASSUME NEW v \in Uploads
               PROVE  UploadsProgress!(v)'
    BY DEF UploadsProgress
  <2>1. UploadsProgress!(v) /\ v \in Calls
    BY DEF UploadsProgress, Calls
  <2>2. CASE v = u
    BY <1>2, <2>1, <2>2 DEF RingBell, Receipt
  <2>3. CASE v # u
    <3>1. call'[v] = call[v]
      BY <1>2, <2>1, <2>3
    <3> QED
      BY <2>1, <3>1 DEF RingBell, Receipt
  <2> QED
    BY <2>2, <2>3
<1>7. OpenHasNone'
  BY <1>1, <1>2 DEF RingBell, OpenHasNone, Calls
<1>8. DocumentBehindReceipt'
  BY <1>1, <1>2 DEF RingBell, DocumentBehindReceipt, OpenHasNone, UploadsProgress, Calls
<1>9. BellsAreEarned'
  <2>1. /\ request[call[u].target].document = u
        /\ u \in events /\ Receipt(u) \in audit
    BY DEF RingBell, UploadsProgress
  <2>2. bells' = bells \cup {call[u].target} /\ UNCHANGED <<request, events, audit>>
    BY DEF RingBell
  <2> QED
    BY <2>1, <2>2 DEF BellsAreEarned, Receipt
<1> QED
  BY <1>3, <1>4, <1>5, <1>6, <1>7, <1>8, <1>9

\* An audit entry only adds.
LEMMA AppendAuditKeeps ==
  ASSUME ChecklistInv, NEW c \in Calls, AppendAudit(c)
  PROVE  ChecklistInv'
<1> USE ChecklistAssumption DEF ChecklistInv
<1>1. call \in [Calls -> CallRecord] /\ c \in Calls
  BY DEF TypeOK, CallRecord, Pcs, Calls
<1>2. /\ call' \in [Calls -> CallRecord]
      /\ call'[c].pc = "emit"
      /\ call'[c].target = call[c].target
      /\ call'[c].before = call[c].before
      /\ call'[c].after = call[c].after
      /\ \A d \in Calls : d # c => call'[d] = call[d]
  BY <1>1, PcMoves DEF AppendAudit, Pcs, Ended
<1>3. TypeOK'
  BY <1>1, <1>2 DEF AppendAudit, TypeOK, CallRecord, Pcs, RequestRecord, Calls, Ended, Screens, Shows
<1>4. CreatedFirst'
  BY <1>1, <1>2 DEF AppendAudit, CreatedFirst, Calls, Shows, Screens
<1>5. PatchesHaveTargets'
  BY <1>1, <1>2 DEF AppendAudit, PatchesHaveTargets, Calls
<1>6. UploadsProgress'
  <2> SUFFICES ASSUME NEW u \in Uploads
               PROVE  UploadsProgress!(u)'
    BY DEF UploadsProgress
  <2>1. CASE u = c
    BY <1>1, <1>2, <2>1 DEF AppendAudit, UploadsProgress, Receipt, Calls
  <2>2. CASE u # c
    BY <1>1, <1>2, <2>2 DEF AppendAudit, UploadsProgress, Receipt, Calls
  <2> QED
    BY <2>1, <2>2
<1>7. OpenHasNone'
  BY <1>1, <1>2 DEF AppendAudit, OpenHasNone, Calls
<1>8. DocumentBehindReceipt'
  BY <1>1, <1>2 DEF AppendAudit, DocumentBehindReceipt, OpenHasNone, UploadsProgress, Calls
<1>9. BellsAreEarned'
  BY <1>1, <1>2 DEF AppendAudit, BellsAreEarned, UploadsProgress, Receipt, DocumentBehindReceipt, Calls
<1> QED
  BY <1>3, <1>4, <1>5, <1>6, <1>7, <1>8, <1>9

\* An event only adds.
LEMMA EmitEventKeeps ==
  ASSUME ChecklistInv, NEW c \in Calls, EmitEvent(c)
  PROVE  ChecklistInv'
<1> USE ChecklistAssumption DEF ChecklistInv
<1>1. call \in [Calls -> CallRecord] /\ c \in Calls
  BY DEF TypeOK, CallRecord, Pcs, Calls
<1>2. /\ call' \in [Calls -> CallRecord]
      /\ call'[c].pc = (IF c \in Uploads THEN "bell" ELSE "reply")
      /\ call'[c].target = call[c].target
      /\ call'[c].before = call[c].before
      /\ call'[c].after = call[c].after
      /\ \A d \in Calls : d # c => call'[d] = call[d]
  BY ZenonT(60), <1>1, PcMoves DEF EmitEvent, Pcs, Ended
<1>3. TypeOK'
  BY <1>1, <1>2 DEF EmitEvent, TypeOK, CallRecord, Pcs, RequestRecord, Calls, Ended, Screens, Shows
<1>4. CreatedFirst'
  BY <1>1, <1>2 DEF EmitEvent, CreatedFirst, Calls, Shows, Screens
<1>5. PatchesHaveTargets'
  BY <1>1, <1>2 DEF EmitEvent, PatchesHaveTargets, Calls
<1>6. UploadsProgress'
  <2> SUFFICES ASSUME NEW u \in Uploads
               PROVE  UploadsProgress!(u)'
    BY DEF UploadsProgress
  <2>1. CASE u = c
    BY <1>1, <1>2, <2>1 DEF EmitEvent, UploadsProgress, Receipt, Calls
  <2>2. CASE u # c
    BY <1>1, <1>2, <2>2 DEF EmitEvent, UploadsProgress, Receipt, Calls
  <2> QED
    BY <2>1, <2>2
<1>7. OpenHasNone'
  BY <1>1, <1>2 DEF EmitEvent, OpenHasNone, Calls
<1>8. DocumentBehindReceipt'
  BY <1>1, <1>2 DEF EmitEvent, DocumentBehindReceipt, OpenHasNone, UploadsProgress, Calls
<1>9. BellsAreEarned'
  BY <1>1, <1>2 DEF EmitEvent, BellsAreEarned, UploadsProgress, Receipt, DocumentBehindReceipt, Calls
<1> QED
  BY <1>3, <1>4, <1>5, <1>6, <1>7, <1>8, <1>9

\* An answer reloads one screen.
LEMMA ReplyKeeps ==
  ASSUME ChecklistInv, NEW c \in Calls, Reply(c)
  PROVE  ChecklistInv'
<1> USE ChecklistAssumption DEF ChecklistInv
<1>1. call \in [Calls -> CallRecord] /\ c \in Calls
  BY DEF TypeOK, CallRecord, Pcs, Calls
<1>2. /\ call' \in [Calls -> CallRecord]
      /\ call'[c].pc = "done"
      /\ call'[c].target = call[c].target
      /\ call'[c].before = call[c].before
      /\ call'[c].after = call[c].after
      /\ \A d \in Calls : d # c => call'[d] = call[d]
  BY <1>1, PcMoves DEF Reply, dataVars, Pcs, Ended
<1>3. TypeOK'
  BY <1>1, <1>2 DEF Reply, dataVars, TypeOK, CallRecord, Pcs, RequestRecord, Calls, Ended, Screens, Shows
<1>4. CreatedFirst'
  BY <1>1, <1>2 DEF Reply, dataVars, CreatedFirst, Calls, Shows, Screens
<1>5. PatchesHaveTargets'
  BY <1>1, <1>2 DEF Reply, dataVars, PatchesHaveTargets, Calls
<1>6. UploadsProgress'
  <2> SUFFICES ASSUME NEW v \in Uploads
               PROVE  UploadsProgress!(v)'
    BY DEF UploadsProgress
  <2>1. UploadsProgress!(v) /\ v \in Calls
    BY DEF UploadsProgress, Calls
  <2>2. CASE v = c
    BY <1>2, <2>1, <2>2 DEF Reply, dataVars, Receipt
  <2>3. CASE v # c
    <3>1. call'[v] = call[v]
      BY <1>2, <2>1, <2>3
    <3> QED
      BY <2>1, <3>1 DEF Reply, dataVars, Receipt
  <2> QED
    BY <2>2, <2>3
<1>7. OpenHasNone'
  BY <1>1, <1>2 DEF Reply, dataVars, OpenHasNone, Calls
<1>8. DocumentBehindReceipt'
  BY <1>1, <1>2 DEF Reply, dataVars, DocumentBehindReceipt, OpenHasNone, UploadsProgress, Calls
<1>9. BellsAreEarned'
  BY <1>1, <1>2 DEF Reply, dataVars, BellsAreEarned, UploadsProgress, Receipt, DocumentBehindReceipt, Calls
<1> QED
  BY <1>3, <1>4, <1>5, <1>6, <1>7, <1>8, <1>9

\* A call that dies leaves what it has written.
LEMMA DieKeeps ==
  ASSUME ChecklistInv, NEW c \in Calls, Die(c)
  PROVE  ChecklistInv'
<1> USE ChecklistAssumption DEF ChecklistInv
<1>1. call \in [Calls -> CallRecord] /\ c \in Calls
  BY DEF TypeOK, CallRecord, Pcs, Calls
<1>2. /\ call' \in [Calls -> CallRecord]
      /\ call'[c].pc = "dead"
      /\ call'[c].target = call[c].target
      /\ call'[c].before = call[c].before
      /\ call'[c].after = call[c].after
      /\ \A d \in Calls : d # c => call'[d] = call[d]
  BY <1>1, PcMoves DEF Die, dataVars, Pcs, Ended
<1>3. TypeOK'
  BY <1>1, <1>2 DEF Die, dataVars, TypeOK, CallRecord, Pcs, RequestRecord, Calls, Ended, Screens, Shows
<1>4. CreatedFirst'
  BY <1>1, <1>2 DEF Die, dataVars, CreatedFirst, Calls, Shows, Screens
<1>5. PatchesHaveTargets'
  BY <1>1, <1>2 DEF Die, dataVars, PatchesHaveTargets, Calls
<1>6. UploadsProgress'
  <2> SUFFICES ASSUME NEW v \in Uploads
               PROVE  UploadsProgress!(v)'
    BY DEF UploadsProgress
  <2>1. UploadsProgress!(v) /\ v \in Calls
    BY DEF UploadsProgress, Calls
  <2>2. CASE v = c
    BY <1>2, <2>1, <2>2 DEF Die, dataVars, Receipt
  <2>3. CASE v # c
    <3>1. call'[v] = call[v]
      BY <1>2, <2>1, <2>3
    <3> QED
      BY <2>1, <3>1 DEF Die, dataVars, Receipt
  <2> QED
    BY <2>2, <2>3
<1>7. OpenHasNone'
  BY <1>1, <1>2 DEF Die, dataVars, OpenHasNone, Calls
<1>8. DocumentBehindReceipt'
  BY <1>1, <1>2 DEF Die, dataVars, DocumentBehindReceipt, OpenHasNone, UploadsProgress, Calls
<1>9. BellsAreEarned'
  BY <1>1, <1>2 DEF Die, dataVars, BellsAreEarned, UploadsProgress, Receipt, DocumentBehindReceipt, Calls
<1> QED
  BY <1>3, <1>4, <1>5, <1>6, <1>7, <1>8, <1>9

\* A request is created before any screen shows it.
LEMMA CreateKeeps ==
  ASSUME ChecklistInv, NEW q \in Requests, Create(q)
  PROVE  ChecklistInv'
<1> USE ChecklistAssumption DEF ChecklistInv
<1>1. /\ call \in [Calls -> CallRecord] /\ q \in Calls
      /\ request \in [Requests -> RequestRecord]
  BY DEF TypeOK, CallRecord, RequestRecord, Pcs, Calls
<1>2. /\ call' \in [Calls -> CallRecord]
      /\ call[q].pc = "new"
      /\ call'[q].pc = "audit"
      /\ \A d \in Calls : d # q => call'[d] = call[d]
  <2> DEFINE next == [call[q] EXCEPT !.pc = "audit", !.target = q,
                                     !.after = "requested"]
  <2>1. call[q].pc = "new" /\ call' = [call EXCEPT ![q] = next]
    BY <1>1 DEF Create
  <2>2. next \in CallRecord /\ next.pc = "audit"
    <3>1. call[q] \in CallRecord /\ "audit" \in Pcs
          /\ q \in Requests /\ "requested" \in Status
      BY <1>1 DEF Pcs, Ended, Status
    <3>. QED  BY <3>1 DEF CallRecord
  <2> HIDE DEF next
  <2> QED
    BY <1>1, <2>1, <2>2, CallMoves
<1>3. /\ request' \in [Requests -> RequestRecord]
      /\ request'[q].status = "requested"
      /\ request'[q].document = request[q].document
      /\ \A r \in Requests : r # q => request'[r] = request[r]
      /\ UNCHANGED <<stored, documents, audit, events, bells, screen, faults>>
  BY <1>1 DEF Create, RequestRecord, Status, Calls
<1>4. TypeOK'
  BY <1>1, <1>2, <1>3 DEF TypeOK, CallRecord, Pcs, RequestRecord, Calls, Ended
<1>5. CreatedFirst'
  BY <1>1, <1>2, <1>3 DEF CreatedFirst, Calls, Screens
<1>6. PatchesHaveTargets'
  BY <1>1, <1>2, <1>3 DEF PatchesHaveTargets, CreatedFirst, Calls, Screens
<1>7. UploadsProgress' /\ DocumentBehindReceipt' /\ BellsAreEarned'
  <2>1. \A u \in Uploads : call'[u] = call[u]
    BY <1>2, <1>3 DEF Calls
  <2>2. \A r \in Requests :
          /\ request'[r].document = request[r].document
          /\ request'[r].status = "received" => request[r].status = "received"
    BY <1>1, <1>2, <1>3
  <2> QED
    BY <1>2, <1>3, <2>1, <2>2, DocumentsStay
<1>8. OpenHasNone'
  BY <1>1, <1>2, <1>3 DEF OpenHasNone, Calls, CreatedFirst
<1> QED
  BY <1>4, <1>5, <1>6, <1>7, <1>8

\* A PATCH goes on only with a request some screen showed.
LEMMA BeginPatchKeeps ==
  ASSUME ChecklistInv, NEW p \in Patches, BeginPatch(p)
  PROVE  ChecklistInv'
<1> USE ChecklistAssumption DEF ChecklistInv
<1>1. /\ call \in [Calls -> CallRecord] /\ p \in Calls
      /\ request \in [Requests -> RequestRecord]
  BY DEF TypeOK, CallRecord, RequestRecord, Pcs, Calls
<1>2. PICK q \in Requests, change \in Changes :
        /\ screen["adjuster"][q] = "requested"
        /\ call' = [call EXCEPT ![p] =
             [pc |-> IF Refused(q, change) THEN "refused" ELSE "update",
              target |-> q, change |-> change,
              before |-> request[q].status, after |-> "absent"]]
  BY DEF BeginPatch
<1>3. /\ call' \in [Calls -> CallRecord]
      /\ call'[p].pc \in {"refused", "update"}
      /\ call'[p].target = q
      /\ \A d \in Calls : d # p => call'[d] = call[d]
      /\ UNCHANGED <<request, stored, documents, audit, events, bells, screen,
                     faults>>
  BY <1>1, <1>2 DEF BeginPatch, CallRecord, RequestRecord, Pcs, Ended, Status,
                    dataVars
<1>4. TypeOK'
  BY <1>1, <1>2, <1>3 DEF TypeOK, CallRecord, Pcs, RequestRecord, Calls, Ended
<1>5. CreatedFirst'
  BY <1>1, <1>2, <1>3 DEF CreatedFirst, Calls, Screens
<1>6. PatchesHaveTargets'
  BY <1>1, <1>2, <1>3 DEF PatchesHaveTargets, CreatedFirst, Calls, Screens
<1>7. UploadsProgress' /\ DocumentBehindReceipt' /\ BellsAreEarned'
  <2>1. \A u \in Uploads : call'[u] = call[u]
    BY <1>3 DEF Calls
  <2> QED
    BY <1>3, <2>1, DocumentsStay
<1>8. OpenHasNone'
  BY <1>3 DEF OpenHasNone
<1> QED
  BY <1>4, <1>5, <1>6, <1>7, <1>8

\* An upload starts with nothing stored.
LEMMA BeginUploadKeeps ==
  ASSUME ChecklistInv, NEW u \in Uploads, BeginUpload(u)
  PROVE  ChecklistInv'
<1> USE ChecklistAssumption DEF ChecklistInv
<1>1. /\ call \in [Calls -> CallRecord] /\ u \in Calls
      /\ request \in [Requests -> RequestRecord]
  BY DEF TypeOK, CallRecord, RequestRecord, Pcs, Calls
<1>2. PICK q \in Requests :
        call' = [call EXCEPT ![u] =
          [pc |-> IF request[q].status = "requested" THEN "store" ELSE "refused",
           target |-> q, change |-> {},
           before |-> "requested", after |-> "received"]]
  BY DEF BeginUpload
<1>3. /\ call' \in [Calls -> CallRecord]
      /\ call[u].pc = "new"
      /\ call'[u].pc \in {"refused", "store"}
      /\ call'[u].target = q
      /\ call'[u].before = "requested" /\ call'[u].after = "received"
      /\ \A d \in Calls : d # u => call'[d] = call[d]
      /\ UNCHANGED <<request, stored, documents, audit, events, bells, screen,
                     faults>>
  BY <1>1, <1>2 DEF BeginUpload, CallRecord, Pcs, Ended, Status, Changes, dataVars
<1>4. TypeOK'
  BY <1>1, <1>2, <1>3 DEF TypeOK, CallRecord, Pcs, RequestRecord, Calls, Ended
<1>5. CreatedFirst'
  BY <1>1, <1>2, <1>3 DEF CreatedFirst, Calls, Screens
<1>6. PatchesHaveTargets'
  BY <1>1, <1>2, <1>3 DEF PatchesHaveTargets, CreatedFirst, Calls, Screens
<1>7. UploadsProgress'
  BY ZenonT(60), <1>1, <1>2, <1>3 DEF UploadsProgress, OpenHasNone, Calls, Receipt
<1>8. OpenHasNone'
  BY <1>1, <1>2, <1>3 DEF OpenHasNone, Calls, CreatedFirst
<1>9. DocumentBehindReceipt'
  BY <1>1, <1>2, <1>3 DEF DocumentBehindReceipt, OpenHasNone, UploadsProgress, Calls
<1>10. BellsAreEarned'
  BY <1>1, <1>2, <1>3 DEF BellsAreEarned, UploadsProgress, OpenHasNone, Receipt, DocumentBehindReceipt, Calls
<1> QED
  BY <1>4, <1>5, <1>6, <1>7, <1>8, <1>9, <1>10

\* A PATCH may change a status and never a document.
LEMMA ApplyPatchKeeps ==
  ASSUME ChecklistInv, NEW p \in Patches, ApplyPatch(p)
  PROVE  ChecklistInv'
<1> USE ChecklistAssumption DEF ChecklistInv
<1>1. /\ call \in [Calls -> CallRecord] /\ p \in Calls
      /\ request \in [Requests -> RequestRecord]
  BY DEF TypeOK, CallRecord, RequestRecord, Pcs, Calls
<1>2. PICK q \in Requests :
        /\ q = call[p].target /\ call[q].pc # "new"
  BY DEF ApplyPatch, PatchesHaveTargets
<1>3. PICK status \in {"waived", request[q].status} :
        /\ request' \in [Requests -> RequestRecord]
        /\ request'[q].status = status
        /\ request'[q].document = request[q].document
        /\ \A r \in Requests : r # q => request'[r] = request[r]
        /\ call' \in [Calls -> CallRecord]
        /\ call'[p].pc = "audit"
        /\ call'[p].target = call[p].target
        /\ \A d \in Calls : d # p => call'[d] = call[d]
        /\ UNCHANGED <<stored, documents, audit, events, bells, screen, faults>>
  <2> DEFINE status ==
        IF "waive" \in call[p].change THEN "waived" ELSE request[q].status
             wording ==
        IF "wording" \in call[p].change THEN p ELSE request[q].wording
  <2>1. status \in Status /\ wording \in Calls \cup {NoOne}
    BY <1>1 DEF Status, RequestRecord, Calls
  <2>2. request' = [request EXCEPT ![q].status = status, ![q].wording = wording]
    BY <1>2 DEF ApplyPatch
  <2>3. call' = [call EXCEPT ![p].pc = "audit", ![p].after = status]
    BY <1>2 DEF ApplyPatch
  <2>4. UNCHANGED <<stored, documents, audit, events, bells, screen, faults>>
    BY DEF ApplyPatch
  <2>5. status \in {"waived", request[q].status}
    OBVIOUS
  <2> HIDE DEF status, wording
  <2>6. /\ request' \in [Requests -> RequestRecord]
        /\ request'[q].status = status
        /\ request'[q].document = request[q].document
        /\ \A r \in Requests : r # q => request'[r] = request[r]
    BY ZenonT(60), <1>1, <2>1, <2>2 DEF RequestRecord
  <2>7. /\ call' \in [Calls -> CallRecord]
        /\ call'[p].pc = "audit"
        /\ call'[p].target = call[p].target
        /\ \A d \in Calls : d # p => call'[d] = call[d]
    BY ZenonT(60), <1>1, <2>1, <2>3 DEF CallRecord, Pcs
  <2> QED
    BY <2>4, <2>5, <2>6, <2>7
<1>4. TypeOK'
  BY <1>1, <1>2, <1>3 DEF TypeOK, CallRecord, Pcs, RequestRecord, Calls, Ended
<1>5. CreatedFirst'
  BY <1>1, <1>2, <1>3 DEF CreatedFirst, Calls, Screens
<1>6. PatchesHaveTargets'
  BY <1>1, <1>2, <1>3 DEF PatchesHaveTargets, CreatedFirst, Calls, Screens
<1>7. UploadsProgress' /\ DocumentBehindReceipt' /\ BellsAreEarned'
  <2>1. \A u \in Uploads : call'[u] = call[u]
    BY <1>2, <1>3 DEF Calls
  <2>2. \A r \in Requests :
          /\ request'[r].document = request[r].document
          /\ request'[r].status = "received" => request[r].status = "received"
    BY <1>1, <1>2, <1>3
  <2> QED
    BY <1>2, <1>3, <2>1, <2>2, DocumentsStay
<1>8. OpenHasNone'
  BY <1>1, <1>2, <1>3 DEF OpenHasNone, Calls, CreatedFirst
<1> QED
  BY <1>4, <1>5, <1>6, <1>7, <1>8

\* Only an open request is flipped, and it has no document yet.
LEMMA FlipReceivedKeeps ==
  ASSUME ChecklistInv, NEW u \in Uploads, FlipReceived(u)
  PROVE  ChecklistInv'
<1> USE ChecklistAssumption DEF ChecklistInv
<1>1. /\ call \in [Calls -> CallRecord] /\ u \in Calls
      /\ request \in [Requests -> RequestRecord]
  BY DEF TypeOK, CallRecord, RequestRecord, Pcs, Calls
<1>2. /\ call' \in [Calls -> CallRecord]
      /\ call[u].pc = "flip" /\ u \in stored /\ u \in documents
      /\ call'[u].pc \in {"audit", "refused"}
      /\ call'[u].target = call[u].target
      /\ call'[u].before = call[u].before
      /\ call'[u].after = call[u].after
      /\ \A d \in Calls : d # u => call'[d] = call[d]
  BY <1>1, PcMoves DEF FlipReceived, UploadsProgress, Pcs, Ended
<1>3. PICK q \in Requests : q = call[u].target
  BY <1>2 DEF UploadsProgress
<1>4. UNCHANGED <<stored, documents, audit, events, bells, screen, faults>>
  BY DEF FlipReceived
<1>5. CASE request[q].status = "requested"
  <2>1. /\ request' \in [Requests -> RequestRecord]
        /\ request'[q].status = "received" /\ request'[q].document = u
        /\ \A r \in Requests : r # q => request'[r] = request[r]
    <3>1. request' = [request EXCEPT ![q].status = "received", ![q].document = u]
      BY <1>3, <1>5 DEF FlipReceived, Received
    <3> QED
      BY ZenonT(60), <1>1, <3>1 DEF RequestRecord, Status
  <2>2. request[q].document = NoOne
    BY <1>5 DEF OpenHasNone
  <2>3. TypeOK'
    BY <1>1, <1>2, <1>4, <2>1 DEF TypeOK, CallRecord, Pcs, RequestRecord, Ended
  <2>4. CreatedFirst'
    BY <1>2, <1>3, <1>4, <1>5, <2>1 DEF CreatedFirst, Calls, Screens
  <2>5. PatchesHaveTargets'
    BY <1>2, <1>3, <1>4 DEF PatchesHaveTargets, Calls
  <2>6. UploadsProgress'
    <3>1. \A v \in Uploads : v # u /\ call[v].pc \in {"audit", "emit", "bell"} =>
            call[v].target # q
      BY <2>2 DEF UploadsProgress
    <3> SUFFICES ASSUME NEW v \in Uploads
                 PROVE  UploadsProgress!(v)'
      BY DEF UploadsProgress
    <3>2. CASE v = u
      <4>1. call'[u].pc = "audit"
        BY <1>1, <1>3, <1>5, PcMoves DEF FlipReceived, Pcs, Ended
      <4> QED
        BY <1>2, <1>3, <1>4, <2>1, <3>2, <4>1 DEF UploadsProgress
    <3>3. CASE v # u
      BY <1>2, <1>3, <1>4, <2>1, <3>1, <3>3 DEF UploadsProgress, Receipt, Calls
    <3> QED
      BY <3>2, <3>3
  <2>7. OpenHasNone'
    BY <2>1 DEF OpenHasNone
  <2>8. DocumentBehindReceipt'
    BY <1>1, <1>2, <1>3, <1>4, <2>1 DEF DocumentBehindReceipt, RequestRecord, Calls
  <2>9. BellsAreEarned'
    <3>1. q \notin bells
      BY <2>2, <1>1 DEF BellsAreEarned, TypeOK, Calls
    <3>2. bells \subseteq Requests
      BY DEF TypeOK
    <3> QED
      BY <1>4, <2>1, <3>1, <3>2 DEF BellsAreEarned
  <2> QED
    BY <2>3, <2>4, <2>5, <2>6, <2>7, <2>8, <2>9
<1>6. CASE request[q].status # "requested"
  <2>1. request' = request
    BY <1>3, <1>6 DEF FlipReceived
  <2>2. TypeOK'
    BY <1>1, <1>2, <1>4, <2>1 DEF TypeOK, CallRecord, Pcs, RequestRecord, Ended
  <2>3. CreatedFirst'
    BY <1>2, <1>4, <2>1 DEF CreatedFirst, Calls, Screens
  <2>4. PatchesHaveTargets'
    BY <1>2, <1>4 DEF PatchesHaveTargets, Calls
  <2>5. UploadsProgress'
    <3>1. call'[u].pc = "refused"
      BY <1>1, <1>3, <1>6, PcMoves DEF FlipReceived, Pcs, Ended
    <3> QED
      BY ZenonT(60), <1>2, <1>3, <1>4, <2>1, <3>1 DEF UploadsProgress, Receipt, Calls
  <2>6. OpenHasNone'
    BY <2>1 DEF OpenHasNone
  <2>7. DocumentBehindReceipt'
    BY <1>1, <1>2, <1>4, <2>1 DEF DocumentBehindReceipt, RequestRecord, Calls
  <2>8. BellsAreEarned'
    BY <1>4, <2>1 DEF BellsAreEarned
  <2> QED
    BY <2>2, <2>3, <2>4, <2>5, <2>6, <2>7, <2>8
<1> QED
  BY <1>5, <1>6

\* Opening or polling a screen shows it only what was created.
LEMMA LoadKeeps ==
  ASSUME ChecklistInv, NEW s \in Screens, Load(s)
  PROVE  ChecklistInv'
<1> USE ChecklistAssumption DEF ChecklistInv
<1>1. /\ UNCHANGED <<request, stored, documents, audit, events, bells, call,
                     faults>>
      /\ screen' = [screen EXCEPT ![s] = Shows]
  BY DEF Load, dataVars
<1>2. Shows \in [Requests -> Status]
  BY DEF TypeOK, Shows
<1>3. TypeOK'
  BY <1>1, <1>2 DEF TypeOK
<1>4. CreatedFirst'
  BY <1>1 DEF CreatedFirst, Shows, TypeOK
<1>5. PatchesHaveTargets' /\ OpenHasNone'
  BY <1>1 DEF PatchesHaveTargets, OpenHasNone
<1>6. UploadsProgress' /\ DocumentBehindReceipt' /\ BellsAreEarned'
  BY <1>1, DocumentsStay
<1> QED
  BY <1>3, <1>4, <1>5, <1>6

\* An empty checklist satisfies the invariant.
LEMMA ChecklistInit ==
  Init => ChecklistInv
<1> SUFFICES ASSUME Init PROVE ChecklistInv
  OBVIOUS
<1> USE ChecklistAssumption DEF Init
<1>1. TypeOK
  BY DEF TypeOK, Status, Calls, Changes, Ended, Screens
<1>2. CreatedFirst /\ PatchesHaveTargets
  BY DEF CreatedFirst, PatchesHaveTargets, Calls, Screens
<1>3. UploadsProgress
  BY DEF UploadsProgress, Calls
<1>4. OpenHasNone /\ DocumentBehindReceipt /\ BellsAreEarned
  BY DEF OpenHasNone, DocumentBehindReceipt, BellsAreEarned
<1> QED
  BY <1>1, <1>2, <1>3, <1>4 DEF ChecklistInv

\* Every step of every call keeps the invariant.
LEMMA ChecklistStep ==
  ChecklistInv /\ [Next]_vars => ChecklistInv'
<1> SUFFICES ASSUME ChecklistInv, [Next]_vars PROVE ChecklistInv'
  OBVIOUS
<1>1. ASSUME NEW q \in Requests, Create(q) PROVE ChecklistInv'
  BY <1>1, CreateKeeps
<1>2. ASSUME NEW p \in Patches, BeginPatch(p) PROVE ChecklistInv'
  BY <1>2, BeginPatchKeeps
<1>3. ASSUME NEW u \in Uploads, BeginUpload(u) PROVE ChecklistInv'
  BY <1>3, BeginUploadKeeps
<1>4. ASSUME NEW c \in Calls, Continue(c) PROVE ChecklistInv'
  <2>1. CASE c \in Patches /\ ApplyPatch(c)
    BY <2>1, ApplyPatchKeeps
  <2>2. CASE c \in Uploads /\ StoreBlob(c)
    BY <2>2, StoreBlobKeeps
  <2>3. CASE c \in Uploads /\ InsertDocument(c)
    BY <2>3, InsertDocumentKeeps
  <2>4. CASE c \in Uploads /\ FlipReceived(c)
    BY <2>4, FlipReceivedKeeps
  <2>5. CASE c \in Uploads /\ RingBell(c)
    BY <2>5, RingBellKeeps
  <2>6. CASE AppendAudit(c)
    BY <2>6, AppendAuditKeeps
  <2>7. CASE EmitEvent(c)
    BY <2>7, EmitEventKeeps
  <2>8. CASE Reply(c)
    BY <2>8, ReplyKeeps
  <2> QED
    BY <1>4, <2>1, <2>2, <2>3, <2>4, <2>5, <2>6, <2>7, <2>8 DEF Continue
<1>5. ASSUME NEW c \in Calls, Die(c) PROVE ChecklistInv'
  BY <1>5, DieKeeps
<1>6. ASSUME NEW s \in Screens, Load(s) PROVE ChecklistInv'
  BY <1>6, LoadKeeps
<1>7. CASE UNCHANGED vars
  <2>1. UNCHANGED <<request, stored, documents, audit, events, bells, call,
                    screen, faults>>
    BY <1>7 DEF vars, dataVars
  <2> QED
    BY <2>1 DEF ChecklistInv, TypeOK, CreatedFirst, PatchesHaveTargets,
                UploadsProgress, OpenHasNone, DocumentBehindReceipt,
                BellsAreEarned
<1> QED
  BY <1>1, <1>2, <1>3, <1>4, <1>5, <1>6, <1>7 DEF Next

\* The invariant behind all of the following holds in every reachable state.
THEOREM ChecklistInvHolds ==
  Spec => []ChecklistInv
<1> QED
  BY ChecklistInit, ChecklistStep, PTL DEF Spec

\* Every variable keeps its type.
THEOREM ChecklistTypes ==
  Spec => []TypeOK
<1>1. ChecklistInv => TypeOK
  BY DEF ChecklistInv
<1> QED
  BY <1>1, ChecklistInvHolds, PTL

\* A request that says received names a document whose row and file are there
\* (portal_uploads.py stores and inserts before it flips).
THEOREM DocumentBehindReceiptHolds ==
  Spec => []DocumentBehindReceipt
<1>1. ChecklistInv => DocumentBehindReceipt
  BY DEF ChecklistInv
<1> QED
  BY <1>1, ChecklistInvHolds, PTL

\* A received bell rings only after the receipt was audited and emitted
\* (_notify_requesting_adjuster comes last).
THEOREM BellsAreEarnedHolds ==
  Spec => []BellsAreEarned
<1>1. ChecklistInv => BellsAreEarned
  BY DEF ChecklistInv
<1> QED
  BY <1>1, ChecklistInvHolds, PTL

\* No step but a flip gives a request a document, and no step changes one.
LEMMA OneReceiptStep ==
  ASSUME ChecklistInv, [Next]_vars, NEW q \in Requests,
         request[q].document # NoOne
  PROVE  request'[q].document = request[q].document
<1> USE ChecklistAssumption DEF ChecklistInv
<1>1. request \in [Requests -> RequestRecord]
  BY DEF TypeOK, RequestRecord
<1>2. ASSUME NEW r \in Requests, Create(r)
      PROVE  request'[q].document = request[q].document
  BY <1>1, <1>2 DEF Create, RequestRecord
<1>3. ASSUME NEW p \in Patches, ApplyPatch(p)
      PROVE  request'[q].document = request[q].document
  BY <1>1, <1>3 DEF ApplyPatch, RequestRecord
<1>4. ASSUME NEW u \in Uploads, FlipReceived(u)
      PROVE  request'[q].document = request[q].document
  <2>1. CASE q = call[u].target
    <3>1. request[q].status # "requested"
      BY DEF OpenHasNone
    <3> QED
      BY <1>4, <2>1, <3>1 DEF FlipReceived
  <2>2. CASE q # call[u].target
    BY <1>1, <1>4, <2>2 DEF FlipReceived, Received
  <2> QED
    BY <2>1, <2>2
<1>5. CASE UNCHANGED request
  BY <1>5
<1> QED
  BY <1>2, <1>3, <1>4, <1>5
     DEF Next, Continue, BeginPatch, BeginUpload, StoreBlob, InsertDocument,
         RingBell, AppendAudit, EmitEvent, Reply, Die, Load, vars, dataVars

\* "A second upload can never double-receive" (portal_uploads.py).
THEOREM OneReceiptHolds ==
  Spec => OneReceipt
<1>1. ChecklistInv /\ [Next]_vars =>
        [\A q \in Requests : request[q].document # NoOne =>
           request'[q].document = request[q].document]_vars
  BY OneReceiptStep
<1> QED
  BY <1>1, ChecklistInvHolds, PTL DEF Spec, OneReceipt

\* No step reopens or receives what was waived.
LEMMA WaivedStep ==
  ASSUME ChecklistInv, [Next]_vars, NEW q \in Requests,
         request[q].status = "waived"
  PROVE  request'[q].status = "waived"
<1> USE ChecklistAssumption DEF ChecklistInv
<1>1. request \in [Requests -> RequestRecord]
  BY DEF TypeOK, RequestRecord
<1>2. ASSUME NEW r \in Requests, Create(r)
      PROVE  request'[q].status = "waived"
  <2>1. request[r].status = "absent"
    BY <1>2 DEF Create, CreatedFirst
  <2> QED
    BY <1>1, <1>2, <2>1 DEF Create, RequestRecord
<1>3. ASSUME NEW p \in Patches, ApplyPatch(p)
      PROVE  request'[q].status = "waived"
  BY <1>1, <1>3 DEF ApplyPatch, RequestRecord
<1>4. ASSUME NEW u \in Uploads, FlipReceived(u)
      PROVE  request'[q].status = "waived"
  <2>1. CASE q = call[u].target
    BY <1>4, <2>1 DEF FlipReceived
  <2>2. CASE q # call[u].target
    BY <1>1, <1>4, <2>2 DEF FlipReceived, Received
  <2> QED
    BY <2>1, <2>2
<1>5. CASE UNCHANGED request
  BY <1>5
<1> QED
  BY <1>2, <1>3, <1>4, <1>5
     DEF Next, Continue, BeginPatch, BeginUpload, StoreBlob, InsertDocument,
         RingBell, AppendAudit, EmitEvent, Reply, Die, Load, vars, dataVars

\* A waived request stays waived, whatever calls were under way.
THEOREM WaivedIsClosedHolds ==
  Spec => WaivedIsClosed
<1>1. ChecklistInv /\ [Next]_vars =>
        [\A q \in Requests :
           request[q].status = "waived" => request'[q].status = "waived"]_vars
  BY WaivedStep
<1> QED
  BY <1>1, ChecklistInvHolds, PTL DEF Spec, WaivedIsClosed

=============================================================================
