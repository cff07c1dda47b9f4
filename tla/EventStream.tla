----------------------------- MODULE EventStream -----------------------------
(***************************************************************************)
(* The durable event stream of a claim, end to end: emit_event and         *)
(* tail_claim_events (backend/app/events.py), the SSE endpoint             *)
(* (backend/server.py), and the browser's usePipelineEvents hook, which    *)
(* feeds the pipeline board of the claim NewClaimPage shows.               *)
(*                                                                         *)
(* An emitter takes the claim's next sequence number and then inserts the  *)
(* event: two database calls.  The tail replays the log above its cursor   *)
(* and follows new writes until it has sent a terminal event.  The hook    *)
(* keeps the last `id:` it parsed as its resume cursor, across reconnects. *)
(*                                                                         *)
(* A frame on the wire is three lines, id, data and a blank one, and is    *)
(* named by its sequence number.  A read of the body may end anywhere; a   *)
(* cut inside a frame matters only at its line ends, since the parser      *)
(* keeps an unfinished line for the next read.  Heartbeats carry nothing.  *)
(***************************************************************************)
EXTENDS Naturals, Sequences, FiniteSets

CONSTANTS
  Claims,             \* claims the user files one after the other
  Emitters,           \* the worker and API requests that emit events
  MaxSeq,             \* bound: events per claim
  BatchSize,          \* TAIL_BATCH_SIZE
  MaxConnectAttempts, \* MAX_CONNECT_ATTEMPTS
  FaultKinds,         \* what goes wrong: "gap", "drop"; "split" is unbounded
  MaxFaults           \* bound: how often it does

ASSUME StreamAssumption ==
  /\ MaxSeq \in Nat /\ MaxFaults \in Nat /\ MaxConnectAttempts \in Nat
  /\ BatchSize \in Nat \ {0}

VARIABLES
  counter,   \* counters["claim_events:<claim>"]
  log,       \* claim_events, in the order of insertion: [seq, kind]
  emitting,  \* the event each emitter has a number for, or Idle
  claim,     \* the claim on the page, NoClaim before the first
  conn,      \* the hook: off, connecting, live, waiting (backoff), offline
  attempt,   \* its count of consecutive failures
  lastId,    \* its resume cursor (lastEventIdRef), 0 for null
  wire,      \* frames sent and not yet read
  partial,   \* what was read of the frame at the head: none, id, data
  tailAt,    \* the server tail's cursor
  batch,     \* what it has fetched and not yielded
  ended,     \* it has yielded a terminal event and returned
  board,     \* board[c]: the events handed to onEvent, in order
  openedAt,  \* history: the cursor the claim on the page was opened with
  torn,      \* history: the frames of that claim a read has ended inside of
  faults     \* faults so far

logVars == <<counter, log, emitting>>
tailVars == <<tailAt, batch, ended>>
history == <<openedAt, torn>>
hookVars == <<claim, conn, attempt, lastId, partial, history>>
vars == <<logVars, tailVars, hookVars, wire, board, faults>>

Seqs == 1..MaxSeq
Kinds == {"progress", "terminal"}   \* in or not in TERMINAL_EVENTS
NoClaim == "none"
Idle == [seq |-> 0]

Entries(c) == {log[c][i] : i \in DOMAIN log[c]}
Logged(c) == {e.seq : e \in Entries(c)}
IsTerminal(c, n) == [seq |-> n, kind |-> "terminal"] \in Entries(c)
Shown(c) == {board[c][i] : i \in DOMAIN board[c]}

\* Event n was inserted after one with a higher number.
Overtaken(c, n) ==
  \E i, j \in DOMAIN log[c] : i < j /\ log[c][j].seq = n /\ log[c][i].seq > n

\* The k smallest members of S (sort on seq, then limit).
SmallestN(S, k) == {n \in S : Cardinality({m \in S : m < n}) < k}

Fault(kind) ==
  /\ kind \in FaultKinds
  /\ faults < MaxFaults
  /\ faults' = faults + 1

TypeOK ==
  /\ counter \in [Claims -> 0..MaxSeq]
  /\ log \in [Claims -> Seq([seq : Seqs, kind : Kinds])]
  /\ emitting \in [Emitters ->
       {Idle} \cup [claim : Claims, seq : Seqs, kind : Kinds]]
  /\ claim \in Claims \cup {NoClaim}
  /\ conn \in {"off", "connecting", "live", "waiting", "offline"}
  /\ attempt \in 0..(MaxConnectAttempts + 1)
  /\ lastId \in 0..MaxSeq
  /\ wire \in Seq(Seqs)
  /\ partial \in {"none", "id", "data"}
  /\ tailAt \in 0..MaxSeq
  /\ batch \subseteq Seqs
  /\ ended \in BOOLEAN
  /\ board \in [Claims -> Seq(Seqs)]
  /\ openedAt \in 0..MaxSeq
  /\ torn \subseteq Seqs
  /\ faults \in 0..MaxFaults

Init ==
  /\ counter = [c \in Claims |-> 0]
  /\ log = [c \in Claims |-> <<>>]
  /\ emitting = [e \in Emitters |-> Idle]
  /\ claim = NoClaim
  /\ conn = "off"
  /\ attempt = 0
  /\ lastId = 0
  /\ wire = <<>>
  /\ partial = "none"
  /\ tailAt = 0
  /\ batch = {}
  /\ ended = FALSE
  /\ board = [c \in Claims |-> <<>>]
  /\ openedAt = 0
  /\ torn = {}
  /\ faults = 0

-----------------------------------------------------------------------------
(* Emitters: emit_event.                                                   *)

notEmitter == <<tailVars, hookVars, wire, board>>

\* next_sequence: one atomic increment.
TakeNumber(e, c) ==
  /\ emitting[e] = Idle
  /\ counter[c] < MaxSeq
  /\ counter' = [counter EXCEPT ![c] = @ + 1]
  /\ \E kind \in Kinds :
       emitting' = [emitting EXCEPT ![e] =
         [claim |-> c, seq |-> counter[c] + 1, kind |-> kind]]
  /\ UNCHANGED <<log, notEmitter, faults>>

InsertEvent(e) ==
  /\ emitting[e] # Idle
  /\ log' = [log EXCEPT ![emitting[e].claim] =
       Append(@, [seq |-> emitting[e].seq, kind |-> emitting[e].kind])]
  /\ emitting' = [emitting EXCEPT ![e] = Idle]
  /\ UNCHANGED <<counter, notEmitter, faults>>

\* The emitter dies, or the insert fails, after the number was taken.
LeaveGap(e) ==
  /\ emitting[e] # Idle
  /\ Fault("gap")
  /\ emitting' = [emitting EXCEPT ![e] = Idle]
  /\ UNCHANGED <<counter, log, notEmitter>>

-----------------------------------------------------------------------------
(* The server: one tail per open response.                                 *)

\* get_claim_events above the cursor, in one query.
FetchBatch ==
  /\ conn = "live" /\ ~ended /\ batch = {}
  /\ LET pending == {n \in Logged(claim) : n > tailAt}
     IN  /\ pending # {}
         /\ batch' = SmallestN(pending, BatchSize)
  /\ UNCHANGED <<logVars, hookVars, tailAt, ended, wire, board, faults>>

\* A tail that returns at the end of a batch.
YieldFrameOfBatch ==
  /\ conn = "live" /\ ~ended
  /\ \E n \in batch :
       /\ \A m \in batch : n <= m
       /\ tailAt' = n
       /\ wire' = Append(wire, n)
       /\ ended' = (batch = {n})
       /\ batch' = batch \ {n}
  /\ UNCHANGED <<logVars, hookVars, board, faults>>

\* Yields the batch in order; returns right after a terminal event.
YieldFrame ==
  /\ conn = "live" /\ ~ended
  /\ \E n \in batch :
       /\ \A m \in batch : n <= m
       /\ tailAt' = n
       /\ wire' = Append(wire, n)
       /\ ended' = IsTerminal(claim, n)
       /\ batch' = IF IsTerminal(claim, n) THEN {} ELSE batch \ {n}
  /\ UNCHANGED <<logVars, hookVars, board, faults>>

-----------------------------------------------------------------------------
(* The browser: NewClaimPage and usePipelineEvents.                        *)

\* Whatever the server and the network held of the old response is gone.
CloseResponse ==
  /\ wire' = <<>> /\ partial' = "none"
  /\ batch' = {} /\ ended' = FALSE

\* A claim was submitted and is shown: the effect runs for its id.  A later
\* claim reuses the hook's refs, the resume cursor with them.
OpenClaim(c) ==
  /\ c # claim /\ board[c] = <<>>
  /\ claim' = c
  /\ conn' = "connecting"
  /\ attempt' = 0
  /\ openedAt' = lastId
  /\ torn' = {}
  /\ CloseResponse
  /\ UNCHANGED <<logVars, tailAt, lastId, board, faults>>

\* A tail that starts from now instead of from Last-Event-ID.
ConnectAtEnd ==
  /\ conn = "connecting"
  /\ conn' = "live"
  /\ attempt' = 0
  /\ tailAt' = counter[claim]
  /\ UNCHANGED <<logVars, batch, ended, claim, lastId, partial, wire, board,
                 history, faults>>

\* The request carries Last-Event-ID; the response is a new tail from there.
Connect ==
  /\ conn = "connecting"
  /\ conn' = "live"
  /\ attempt' = 0
  /\ tailAt' = lastId
  /\ UNCHANGED <<logVars, batch, ended, claim, lastId, partial, wire, board,
                 history, faults>>

\* The resume cursor is kept only for frames dispatched to the page.
ReadChunkKeepingCursor(k, cut) ==
  /\ conn = "live"
  /\ k + (IF cut = "none" THEN 0 ELSE 1) \in 1..Len(wire)
  /\ cut # "none" => "split" \in FaultKinds
  /\ k = 0 => partial = "none" \/ (partial = "id" /\ cut = "data")
  /\ wire' = SubSeq(wire, k + 1, Len(wire))
  /\ partial' = cut
  /\ board' = [board EXCEPT ![claim] = @ \o
       SubSeq(wire, IF partial = "data" THEN 2 ELSE 1, k)]
  /\ torn' = torn \cup (IF cut = "none" THEN {} ELSE {wire[k + 1]})
  /\ UNCHANGED <<logVars, tailVars, claim, conn, attempt, lastId, openedAt,
                 faults>>

\* One read: it completes k frames and may reach the id or the data line of
\* the next.  A frame is dispatched at its blank line, if the data line is in
\* the same read; the cursor is the last id line seen.
ReadChunk(k, cut) ==
  /\ conn = "live"
  /\ k + (IF cut = "none" THEN 0 ELSE 1) \in 1..Len(wire)
  /\ cut # "none" => "split" \in FaultKinds
  /\ k = 0 => partial = "none" \/ (partial = "id" /\ cut = "data")
  /\ wire' = SubSeq(wire, k + 1, Len(wire))
  /\ partial' = cut
  /\ board' = [board EXCEPT ![claim] = @ \o
       SubSeq(wire, IF partial = "data" THEN 2 ELSE 1, k)]
  /\ torn' = torn \cup (IF cut = "none" THEN {} ELSE {wire[k + 1]})
  /\ lastId' = IF cut = "none" THEN wire[k] ELSE wire[k + 1]
  /\ UNCHANGED <<logVars, tailVars, claim, conn, attempt, openedAt, faults>>

\* The body ends: the server closed after a terminal event.
EndOfStream ==
  /\ conn = "live" /\ ended /\ wire = <<>>
  /\ conn' = "offline"
  /\ UNCHANGED <<logVars, tailVars, claim, attempt, lastId, partial, wire,
                 board, history, faults>>

\* A reconnect loop that never counts.
ConnectionFailsUncounted ==
  /\ conn \in {"connecting", "live"}
  /\ Fault("drop")
  /\ attempt' = attempt + 1
  /\ conn' = "waiting"
  /\ CloseResponse
  /\ UNCHANGED <<logVars, tailAt, claim, lastId, board, history>>

\* A connection that is not tried again.
ConnectionFailsForGood ==
  /\ conn \in {"connecting", "live"}
  /\ Fault("drop")
  /\ attempt' = attempt + 1
  /\ conn' = "offline"
  /\ CloseResponse
  /\ UNCHANGED <<logVars, tailAt, claim, lastId, board, history>>

\* fetch or a read throws: back off, or give up after too many in a row.
ConnectionFails ==
  /\ conn \in {"connecting", "live"}
  /\ Fault("drop")
  /\ attempt' = attempt + 1
  /\ conn' = IF attempt + 1 > MaxConnectAttempts THEN "offline" ELSE "waiting"
  /\ CloseResponse
  /\ UNCHANGED <<logVars, tailAt, claim, lastId, board, history>>

BackoffOver ==
  /\ conn = "waiting"
  /\ conn' = "connecting"
  /\ UNCHANGED <<logVars, tailVars, claim, attempt, lastId, partial, wire,
                 board, history, faults>>

EmitterStep(e) ==
  \/ \E c \in Claims : TakeNumber(e, c)
  \/ InsertEvent(e) \/ LeaveGap(e)

StreamStep ==
  \/ FetchBatch \/ YieldFrame
  \/ Connect \/ BackoffOver \/ EndOfStream
  \/ \E k \in 0..Len(wire), cut \in {"none", "id", "data"} : ReadChunk(k, cut)

Next ==
  \/ \E e \in Emitters : EmitterStep(e)
  \/ \E c \in Claims : OpenClaim(c)
  \/ StreamStep
  \/ ConnectionFails

Spec == Init /\ [][Next]_vars

\* The tail polls for ever, the browser reads what arrives, and its backoff
\* timer fires; an event with a number is inserted.
FairSpec ==
  /\ Spec
  /\ WF_vars(StreamStep)
  /\ \A e \in Emitters : WF_vars(InsertEvent(e))

-----------------------------------------------------------------------------
(* Properties.                                                             *)

\* The board is given each event once and in the order of their numbers,
\* through any number of reconnects ("replay exactly what they missed").
BoardInOrder ==
  \A c \in Claims : \A i, j \in DOMAIN board[c] :
    /\ board[c][i] \in Logged(c)
    /\ i < j => board[c][i] < board[c][j]

\* What a client has gone past without being given it was inserted after an
\* event with a higher number, or is at or below the cursor the page brought
\* from its previous claim, or was in a frame that a read ended inside of:
\* nothing else is lost by drops, batches, gaps and reconnects.
OnlyOvertakenSkipped ==
  \A c \in Claims : \A n \in Logged(c) \ Shown(c) :
    c = claim /\ n <= lastId =>
      Overtaken(c, n) \/ n <= openedAt \/ n \in torn

\* The hook calls the stream over, with no failure to blame, only once the
\* board was given a terminal event ("the server closes the stream only
\* after a terminal event"), unless the frame of one was torn.
QuietEndIsTerminal ==
  conn = "offline" /\ attempt = 0 =>
    \E n \in Shown(claim) \cup torn : IsTerminal(claim, n)

\* An event of the claim on the page gets to the board, unless it was
\* overtaken or torn or is below the cursor of the previous claim, an earlier
\* one ends the stream, another claim is opened, or the hook has run out of
\* attempts.
EventsArrive ==
  \A c \in Claims, n \in Seqs :
    claim = c /\ n \in Logged(c) ~>
      \/ n \in Shown(c)
      \/ claim # c
      \/ attempt > MaxConnectAttempts
      \/ Overtaken(c, n) \/ n <= openedAt \/ n \in torn
      \/ \E m \in Shown(c) \cup torn : IsTerminal(c, m)

\* README.md: reconnects send Last-Event-ID and replay exactly what they
\* missed; the hook keeps a partial frame for the next read.  So no client
\* ever goes past an event it was not given, but for one it is reading.
NothingSkipped ==
  \A n \in 1..lastId :
    claim # NoClaim /\ n \in Logged(claim) =>
      n \in Shown(claim) \/ (partial # "none" /\ n = wire[1])

=============================================================================
