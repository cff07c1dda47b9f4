--------------------------- MODULE EventStreamProofs ---------------------------
(***************************************************************************)
(* What EventStream keeps for any number of claims, emitters, events,      *)
(* batch sizes and faults.                                                 *)
(*                                                                         *)
(* BoardInOrder is not inductive: a read hands the board what is on the    *)
(* wire, so the wire must be in order, above the resume cursor and below   *)
(* the tail's, and the board at or below the resume cursor.                *)
(*                                                                         *)
(* OnlyOvertakenSkipped and QuietEndIsTerminal rest on an account of every *)
(* event a tail has passed (Accounted): it is in the batch, on the wire or *)
(* on the board, or it was overtaken, or it is at or below the cursor of   *)
(* the claim shown before, or a read ended inside its frame.               *)
(***************************************************************************)
EXTENDS EventStream, FiniteSetTheorems, SequenceTheorems, TLAPS

Events == [seq : Seqs, kind : Kinds]
Emissions == [claim : Claims, seq : Seqs, kind : Kinds]

\* A number is given once, counts up to the claim's counter, and is in the
\* log only when its emitter has let go of it.
Numbered ==
  /\ \A c \in Claims : Logged(c) \subseteq 1..counter[c]
  /\ \A e \in Emitters : emitting[e] # Idle =>
       /\ emitting[e].seq <= counter[emitting[e].claim]
       /\ emitting[e].seq \notin Logged(emitting[e].claim)
  /\ \A e, f \in Emitters :
       (/\ emitting[e] # Idle /\ emitting[f] # Idle
        /\ emitting[e].claim = emitting[f].claim
        /\ emitting[e].seq = emitting[f].seq) => e = f

\* What the state of the hook says of the open response.
ResponseState ==
  /\ conn # "off" => claim \in Claims
  /\ conn # "live" => wire = <<>> /\ partial = "none" /\ batch = {}
  /\ conn \in {"off", "connecting", "waiting"} => ~ended
  /\ ended => batch = {}
  /\ conn # "offline" => attempt <= MaxConnectAttempts
  /\ conn = "live" => attempt = 0

\* Cursor of the hook, wire, cursor of the tail, batch: in this order.
WireInOrder ==
  /\ conn = "live" =>
       /\ lastId <= tailAt
       /\ \A i \in 1..Len(wire) : wire[i] \in Logged(claim) /\ wire[i] <= tailAt
       /\ \A i, j \in 1..Len(wire) : i < j => wire[i] < wire[j]
       /\ \A n \in batch : n \in Logged(claim) /\ tailAt < n
  /\ IF partial = "none" THEN \A i \in 1..Len(wire) : lastId < wire[i]
     ELSE wire # <<>> /\ wire[1] = lastId

\* The board has nothing beyond the cursor, nor the frame being read.
BoardBehindCursor ==
  claim \in Claims => \A i \in 1..Len(board[claim]) :
    /\ board[claim][i] <= lastId
    /\ partial # "none" => board[claim][i] < lastId

StreamInv ==
  /\ TypeOK
  /\ Numbered
  /\ ResponseState
  /\ WireInOrder
  /\ BoardBehindCursor
  /\ BoardInOrder

LEMMA StreamInit == Init => StreamInv
<1> SUFFICES ASSUME Init PROVE StreamInv
  OBVIOUS
<1> USE StreamAssumption DEF Init
<1>1. \A S : <<>> \in Seq(S) /\ Len(<<>>) = 0 /\ DOMAIN <<>> = {}
  BY EmptySeq, LenProperties
<1>2. TypeOK
  <2>1. /\ log \in [Claims -> Seq([seq : Seqs, kind : Kinds])]
        /\ board \in [Claims -> Seq(Seqs)]
        /\ wire \in Seq(Seqs)
    BY <1>1
  <2>2. /\ 0 \in 0..MaxSeq /\ 0 \in 0..(MaxConnectAttempts + 1)
        /\ 0 \in 0..MaxFaults
    OBVIOUS
  <2> QED
    BY <2>1, <2>2 DEF TypeOK
<1>3. \A c \in Claims : Logged(c) = {}
  BY <1>1 DEF Logged, Entries
<1>4. Numbered
  BY <1>3 DEF Numbered
<1>5. ResponseState /\ WireInOrder /\ BoardBehindCursor /\ BoardInOrder
  BY <1>1 DEF ResponseState, WireInOrder, BoardBehindCursor, BoardInOrder
<1> QED
  BY <1>2, <1>4, <1>5 DEF StreamInv

\* What an emitter holds is an event of one of the claims.
LEMMA Emitting ==
  ASSUME TypeOK, NEW e \in Emitters, emitting[e] # Idle
  PROVE  /\ emitting[e] \in Emissions
         /\ emitting[e].claim \in Claims
         /\ emitting[e].seq \in Seqs
         /\ emitting[e].kind \in Kinds
  BY DEF TypeOK, Emissions

\* Entry r is put at the end of claim c's log.
Appends(c, r) ==
  /\ DOMAIN log[c] = 1..Len(log[c]) /\ Len(log[c]) \in Nat
  /\ DOMAIN log'[c] = 1..(Len(log[c]) + 1)
  /\ \A i \in 1..Len(log[c]) : log'[c][i] = log[c][i]
  /\ log'[c][Len(log[c]) + 1] = r
  /\ \A d \in Claims \ {c} : log'[d] = log[d]

\* An insert puts one entry at the end of one claim's log.
LEMMA LogAppend ==
  ASSUME TypeOK, NEW e \in Emitters, InsertEvent(e), NEW c, NEW r,
         c = emitting[e].claim,
         r = [seq |-> emitting[e].seq, kind |-> emitting[e].kind]
  PROVE  /\ c \in Claims /\ r \in Events
         /\ log' \in [Claims -> Seq(Events)]
         /\ Appends(c, r)
<1>1. c \in Claims /\ r \in Events
  BY Emitting DEF InsertEvent, Events
<1>2. log \in [Claims -> Seq(Events)]
  BY DEF TypeOK, Events
<1>3. log' = [log EXCEPT ![c] = Append(log[c], r)]
  BY <1>1, <1>2 DEF InsertEvent
<1>4. log[c] \in Seq(Events)
  BY <1>1, <1>2
<1>5. /\ Append(log[c], r) \in Seq(Events)
      /\ Len(Append(log[c], r)) = Len(log[c]) + 1
      /\ \A i \in 1..Len(log[c]) : Append(log[c], r)[i] = log[c][i]
      /\ Append(log[c], r)[Len(log[c]) + 1] = r
  BY <1>1, <1>4, AppendProperties
<1>6. /\ DOMAIN log[c] = 1..Len(log[c]) /\ Len(log[c]) \in Nat
      /\ DOMAIN Append(log[c], r) = 1..(Len(log[c]) + 1)
  BY <1>4, <1>5, LenProperties
<1>7. log'[c] = Append(log[c], r) /\ \A d \in Claims \ {c} : log'[d] = log[d]
  BY <1>1, <1>2, <1>3
<1>8. log' \in [Claims -> Seq(Events)]
  BY <1>1, <1>2, <1>3, <1>5
<1>9. Appends(c, r)
  BY <1>5, <1>6, <1>7 DEF Appends
<1> QED
  BY <1>1, <1>8, <1>9

\* The entries after an insert.
LEMMA EntriesAfter ==
  ASSUME TypeOK, NEW e \in Emitters, InsertEvent(e), NEW c, NEW r,
         c = emitting[e].claim,
         r = [seq |-> emitting[e].seq, kind |-> emitting[e].kind]
  PROVE  /\ Entries(c)' = Entries(c) \cup {r}
         /\ \A d \in Claims \ {c} : Entries(d)' = Entries(d)
<1>1. /\ DOMAIN log[c] = 1..Len(log[c]) /\ Len(log[c]) \in Nat
      /\ DOMAIN log'[c] = 1..(Len(log[c]) + 1)
      /\ \A i \in 1..Len(log[c]) : log'[c][i] = log[c][i]
      /\ log'[c][Len(log[c]) + 1] = r
      /\ \A d \in Claims \ {c} : log'[d] = log[d]
  <2>1. Appends(c, r)
    BY LogAppend
  <2> QED
    BY <2>1, Zenon DEF Appends
<1>2. Entries(c)' \subseteq Entries(c) \cup {r}
  <2> SUFFICES ASSUME NEW i \in 1..(Len(log[c]) + 1)
               PROVE  log'[c][i] \in Entries(c) \cup {r}
    BY <1>1 DEF Entries
  <2>1. CASE i = Len(log[c]) + 1
    BY <1>1, <2>1
  <2>2. CASE i # Len(log[c]) + 1
    <3>1. i \in 1..Len(log[c])
      BY <1>1, <2>2
    <3> QED
      BY <1>1, <3>1 DEF Entries
  <2> QED
    BY <2>1, <2>2
<1>3. Entries(c) \subseteq Entries(c)'
  BY <1>1 DEF Entries
<1>4. r \in Entries(c)'
  BY <1>1 DEF Entries
<1>5. \A d \in Claims \ {c} : Entries(d)' = Entries(d)
  BY <1>1 DEF Entries
<1> QED
  BY <1>2, <1>3, <1>4, <1>5

\* The numbers in the log after an insert.
LEMMA LoggedAfter ==
  ASSUME TypeOK, NEW e \in Emitters, InsertEvent(e), NEW c,
         c = emitting[e].claim
  PROVE  /\ Logged(c)' = Logged(c) \cup {emitting[e].seq}
         /\ \A d \in Claims \ {c} : Logged(d)' = Logged(d)
<1>1. PICK r : r = [seq |-> emitting[e].seq, kind |-> emitting[e].kind]
  OBVIOUS
<1>2. /\ Entries(c)' = Entries(c) \cup {r}
      /\ \A d \in Claims \ {c} : Entries(d)' = Entries(d)
  BY <1>1, EntriesAfter
<1>3. r.seq = emitting[e].seq
  BY <1>1
<1>4. Logged(c)' = Logged(c) \cup {r.seq}
  BY <1>2 DEF Logged
<1>5. \A d \in Claims \ {c} : Logged(d)' = Logged(d)
  BY <1>2 DEF Logged
<1> QED
  BY <1>3, <1>4, <1>5

\* The log keeps its entries, in their order.
LEMMA LogGrows ==
  ASSUME TypeOK, NEW e \in Emitters, EmitterStep(e), NEW c \in Claims
  PROVE  /\ Entries(c) \subseteq Entries(c)'
         /\ Logged(c) \subseteq Logged(c)'
         /\ \A n : Overtaken(c, n) => Overtaken(c, n)'
         /\ \A n : IsTerminal(c, n) => IsTerminal(c, n)'
<1>1. CASE UNCHANGED log
  BY <1>1 DEF Entries, Logged, Overtaken, IsTerminal
<1>2. CASE InsertEvent(e)
  <2>1. PICK b : b = emitting[e].claim
    OBVIOUS
  <2>2. PICK r : r = [seq |-> emitting[e].seq, kind |-> emitting[e].kind]
    OBVIOUS
  <2>3. Entries(c) \subseteq Entries(c)'
    BY <1>2, <2>1, <2>2, EntriesAfter
  <2>4. Logged(c) \subseteq Logged(c)'
    BY <2>3 DEF Logged
  <2>5. \A n : IsTerminal(c, n) => IsTerminal(c, n)'
    BY <2>3 DEF IsTerminal
  <2>6. /\ DOMAIN log[b] \subseteq DOMAIN log'[b]
        /\ \A i \in DOMAIN log[b] : log'[b][i] = log[b][i]
        /\ \A d \in Claims \ {b} : log'[d] = log[d]
    <3>1. Appends(b, r)
      BY <1>2, <2>1, <2>2, LogAppend
    <3> QED
      BY <3>1 DEF Appends
  <2>7. /\ DOMAIN log[c] \subseteq DOMAIN log'[c]
        /\ \A i \in DOMAIN log[c] : log'[c][i] = log[c][i]
    BY <2>6
  <2>8. \A n : Overtaken(c, n) => Overtaken(c, n)'
    BY <2>7 DEF Overtaken
  <2> QED
    BY <2>3, <2>4, <2>5, <2>8
<1> QED
  BY <1>1, <1>2 DEF EmitterStep, TakeNumber, LeaveGap

\* What the stream's and the page's steps leave alone.
LEMMA LogStays ==
  ASSUME UNCHANGED logVars
  PROVE  /\ \A c : Entries(c)' = Entries(c)
         /\ \A c : Logged(c)' = Logged(c)
         /\ \A c, n : Overtaken(c, n)' = Overtaken(c, n)
         /\ \A c, n : IsTerminal(c, n)' = IsTerminal(c, n)
         /\ Numbered => Numbered'
  BY DEF logVars, Entries, Logged, Overtaken, IsTerminal, Numbered

-----------------------------------------------------------------------------
(* Each step keeps StreamInv.                                              *)

\* A number that is given is the claim's next.
LEMMA TakeNumberKeepsNumbers ==
  ASSUME StreamInv, NEW e \in Emitters, NEW c \in Claims, TakeNumber(e, c)
  PROVE  /\ counter' \in [Claims -> 0..MaxSeq]
         /\ log' \in [Claims -> Seq(Events)]
         /\ emitting' \in [Emitters -> {Idle} \cup Emissions]
         /\ Numbered'
<1> USE StreamAssumption
<1>1. TypeOK /\ Numbered
  BY DEF StreamInv
<1>2. PICK kind \in Kinds :
        emitting' = [emitting EXCEPT ![e] =
          [claim |-> c, seq |-> counter[c] + 1, kind |-> kind]]
  BY DEF TakeNumber
<1>3. PICK r : r = [claim |-> c, seq |-> counter[c] + 1, kind |-> kind]
  OBVIOUS
<1>4. /\ counter \in [Claims -> 0..MaxSeq]
      /\ emitting \in [Emitters -> {Idle} \cup Emissions]
      /\ counter[c] < MaxSeq
      /\ counter' = [counter EXCEPT ![c] = @ + 1]
      /\ emitting' = [emitting EXCEPT ![e] = r]
      /\ UNCHANGED log
  BY <1>1, <1>2, <1>3 DEF TakeNumber, TypeOK, Emissions
<1>5. counter[c] \in 0..MaxSeq /\ counter[c] + 1 \in Seqs
  BY <1>4 DEF Seqs
<1>6. /\ r \in Emissions
      /\ r.claim = c /\ r.seq = counter[c] + 1 /\ r # Idle
  BY <1>3, <1>5 DEF Emissions, Idle
<1>7. counter' \in [Claims -> 0..MaxSeq]
  BY <1>4, <1>5 DEF Seqs
<1>8. emitting' \in [Emitters -> {Idle} \cup Emissions]
  BY <1>4, <1>6
<1>9. /\ emitting'[e] = r /\ counter'[c] = counter[c] + 1
      /\ \A f \in Emitters \ {e} : emitting'[f] = emitting[f]
      /\ \A d \in Claims \ {c} : counter'[d] = counter[d]
  BY <1>4
<1>10. \A d \in Claims : Logged(d)' = Logged(d) /\ counter[d] <= counter'[d]
  BY <1>4, <1>9 DEF Logged, Entries
<1>11. \A d \in Claims : Logged(d)' \subseteq 1..counter'[d]
  BY <1>1, <1>4, <1>7, <1>10 DEF Numbered
<1>12. \A f \in Emitters : emitting[f] # Idle =>
         emitting[f].claim \in Claims /\ emitting[f].seq \in Seqs
  BY <1>1, Emitting
<1>13. ASSUME NEW f \in Emitters, (emitting[f] # Idle)'
       PROVE  /\ (emitting[f].seq <= counter[emitting[f].claim])'
              /\ (emitting[f].seq \notin Logged(emitting[f].claim))'
  <2>1. PICK d \in Claims, n \in Seqs : d = emitting'[f].claim /\ n = emitting'[f].seq
    BY <1>6, <1>9, <1>12, <1>13 DEF Idle, Emissions
  <2>2. n <= counter'[d] /\ n \notin Logged(d)
    <3>1. CASE f = e
      <4>1. counter[c] + 1 \notin Logged(c)
        BY <1>1, <1>5 DEF Numbered
      <4> QED
        BY <1>5, <1>6, <1>9, <2>1, <3>1, <4>1
    <3>2. CASE f # e
      <4>1. emitting'[f] = emitting[f] /\ emitting[f] # Idle
        BY <1>9, <1>13, <3>2 DEF Idle
      <4>2. n <= counter[d] /\ n \notin Logged(d)
        BY <1>1, <2>1, <4>1 DEF Numbered
      <4> QED
        BY <1>4, <1>7, <1>10, <4>2 DEF Seqs
    <3> QED
      BY <3>1, <3>2
  <2>3. n \notin Logged(d)'
    BY <1>10, <2>2
  <2> QED
    BY <2>1, <2>2, <2>3 DEF Logged, Entries
<1>14. ASSUME NEW f \in Emitters, NEW g \in Emitters,
              emitting'[f] # Idle, emitting'[g] # Idle,
              emitting'[f].claim = emitting'[g].claim,
              emitting'[f].seq = emitting'[g].seq
       PROVE  f = g
  <2>1. \A h \in Emitters \ {e} :
          emitting[h] # Idle /\ emitting[h].claim = c => emitting[h].seq # r.seq
    BY <1>1, <1>5, <1>6, <1>12 DEF Numbered, Seqs
  <2>2. CASE f # e /\ g # e
    BY <1>1, <1>9, <1>14, <2>2 DEF Numbered
  <2> QED
    BY <1>6, <1>9, <1>14, <2>1, <2>2
<1>15. Numbered'
  BY <1>11, <1>13, <1>14 DEF Numbered, Idle
<1>16. log' \in [Claims -> Seq(Events)]
  BY <1>1, <1>4 DEF TypeOK, Events
<1> QED
  BY <1>7, <1>8, <1>15, <1>16

\* An insert, or the end of an emitter, leaves the numbers of the others.
LEMMA LettingGoKeepsNumbers ==
  ASSUME StreamInv, NEW e \in Emitters, InsertEvent(e) \/ LeaveGap(e)
  PROVE  /\ counter' \in [Claims -> 0..MaxSeq]
         /\ log' \in [Claims -> Seq(Events)]
         /\ emitting' \in [Emitters -> {Idle} \cup Emissions]
         /\ Numbered'
<1>1. TypeOK /\ Numbered
  BY DEF StreamInv
<1>2. /\ emitting \in [Emitters -> {Idle} \cup Emissions]
      /\ log \in [Claims -> Seq(Events)]
      /\ emitting[e] # Idle
      /\ emitting' = [emitting EXCEPT ![e] = Idle]
      /\ UNCHANGED counter
  BY <1>1 DEF InsertEvent, LeaveGap, TypeOK, Emissions, Events
<1>3. PICK c \in Claims, n \in Seqs : c = emitting[e].claim /\ n = emitting[e].seq
  BY <1>1, <1>2, Emitting
<1>4. n \in 1..counter[c]
  BY <1>1, <1>2, <1>3 DEF Numbered, TypeOK, Seqs
<1>5. log' \in [Claims -> Seq(Events)]
  <2>1. CASE InsertEvent(e)
    <3>1. PICK r : r = [seq |-> emitting[e].seq, kind |-> emitting[e].kind]
      OBVIOUS
    <3> QED
      BY <1>1, <1>3, <2>1, <3>1, LogAppend
  <2>2. CASE LeaveGap(e)
    BY <1>2, <2>2 DEF LeaveGap
  <2> QED
    BY <2>1, <2>2
<1>6. /\ Logged(c)' \subseteq Logged(c) \cup {n}
      /\ \A d \in Claims \ {c} : Logged(d)' = Logged(d)
  <2>1. CASE InsertEvent(e)
    BY <1>1, <1>3, <2>1, LoggedAfter
  <2>2. CASE LeaveGap(e)
    BY <2>2 DEF LeaveGap, Logged, Entries
  <2> QED
    BY <2>1, <2>2
<1>7. /\ emitting'[e] = Idle
      /\ \A f \in Emitters \ {e} : emitting'[f] = emitting[f]
  BY <1>2
<1>8. \A d \in Claims : Logged(d)' \subseteq 1..counter'[d]
  BY <1>1, <1>2, <1>4, <1>6 DEF Numbered
<1>9. ASSUME NEW f \in Emitters, (emitting[f] # Idle)'
      PROVE  /\ (emitting[f].seq <= counter[emitting[f].claim])'
             /\ (emitting[f].seq \notin Logged(emitting[f].claim))'
  <2>1. f # e /\ emitting'[f] = emitting[f] /\ emitting[f] # Idle
    BY <1>7, <1>9 DEF Idle
  <2>2. PICK d \in Claims : d = emitting[f].claim
    BY <1>1, <2>1, Emitting
  <2>3. emitting[f].seq <= counter[d] /\ emitting[f].seq \notin Logged(d)
    BY <1>1, <2>1, <2>2 DEF Numbered
  <2>4. d = c => emitting[f].seq # n
    BY <1>1, <1>2, <1>3, <2>1, <2>2 DEF Numbered
  <2>5. emitting'[f].seq \notin Logged(d)'
    BY <1>6, <2>1, <2>3, <2>4
  <2>6. d = emitting'[f].claim
    BY <2>1, <2>2
  <2>7. (emitting[f].seq \notin Logged(emitting[f].claim))'
    BY <2>5, <2>6 DEF Logged, Entries
  <2> QED
    BY <1>2, <2>1, <2>2, <2>3, <2>7
<1>10. \A f, g \in Emitters :
         (/\ emitting'[f] # Idle /\ emitting'[g] # Idle
          /\ emitting'[f].claim = emitting'[g].claim
          /\ emitting'[f].seq = emitting'[g].seq) => f = g
  BY <1>1, <1>7 DEF Numbered
<1>11. Numbered'
  BY <1>8, <1>9, <1>10 DEF Numbered, Idle
<1>12. emitting' \in [Emitters -> {Idle} \cup Emissions]
  BY <1>2
<1>13. counter' \in [Claims -> 0..MaxSeq]
  BY <1>1, <1>2 DEF TypeOK
<1> QED
  BY <1>5, <1>11, <1>12, <1>13

\* Emitters do not touch the page or its response; what is on them stays in
\* the log.
LEMMA EmitterKeeps ==
  ASSUME StreamInv, NEW e \in Emitters, EmitterStep(e)
  PROVE  StreamInv'
<1> USE DEF StreamInv
<1>1. UNCHANGED <<tailAt, batch, ended, claim, conn, attempt, lastId, partial,
                  wire, board, openedAt, torn>>
  BY DEF EmitterStep, TakeNumber, InsertEvent, LeaveGap, notEmitter, tailVars,
         hookVars, history
<1>2. faults' \in 0..MaxFaults
  <2>1. faults' = faults \/ (faults < MaxFaults /\ faults' = faults + 1)
    BY DEF EmitterStep, TakeNumber, InsertEvent, LeaveGap, Fault
  <2>2. faults \in 0..MaxFaults
    BY DEF TypeOK
  <2> QED
    BY <2>1, <2>2, StreamAssumption
<1>3. /\ counter' \in [Claims -> 0..MaxSeq]
      /\ log' \in [Claims -> Seq(Events)]
      /\ emitting' \in [Emitters -> {Idle} \cup Emissions]
      /\ Numbered'
  BY TakeNumberKeepsNumbers, LettingGoKeepsNumbers DEF EmitterStep
<1>4. TypeOK'
  BY <1>1, <1>2, <1>3 DEF TypeOK, Events, Emissions
<1>5. \A c \in Claims : Logged(c) \subseteq Logged(c)'
  BY LogGrows
<1>6. ResponseState' /\ BoardBehindCursor'
  BY <1>1 DEF ResponseState, BoardBehindCursor
<1>7. WireInOrder'
  <2>1. conn = "live" => Logged(claim) \subseteq Logged(claim)'
    <3> HAVE conn = "live"
    <3>1. PICK c \in Claims : c = claim
      BY DEF ResponseState
    <3>2. Logged(c) \subseteq Logged(c)'
      BY <1>5
    <3> QED
      BY <1>1, <3>1, <3>2 DEF Logged, Entries
  <2> QED
    BY <1>1, <2>1 DEF WireInOrder
<1>8. BoardInOrder'
  BY <1>1, <1>5 DEF BoardInOrder
<1> QED
  BY <1>3, <1>4, <1>6, <1>7, <1>8

\* Opening a claim, connecting, failing and backing off empty the wire or
\* leave it empty, and leave the board.
LEMMA ConnectionKeeps ==
  ASSUME StreamInv,
         \/ \E c \in Claims : OpenClaim(c)
         \/ Connect \/ BackoffOver \/ EndOfStream \/ ConnectionFails
  PROVE  StreamInv'
<1> USE StreamAssumption DEF StreamInv
<1>1. UNCHANGED <<counter, log, emitting, lastId, board>>
  BY DEF OpenClaim, Connect, BackoffOver, EndOfStream, ConnectionFails,
         logVars, tailVars
<1>2. \A c : Logged(c)' = Logged(c)
  BY <1>1, LogStays DEF logVars
<1>3. Numbered' /\ BoardInOrder'
  BY <1>1, <1>2, LogStays DEF logVars, BoardInOrder
<1>4. /\ counter' \in [Claims -> 0..MaxSeq]
      /\ log' \in [Claims -> Seq([seq : Seqs, kind : Kinds])]
      /\ emitting' \in [Emitters ->
           {Idle} \cup [claim : Claims, seq : Seqs, kind : Kinds]]
      /\ board' \in [Claims -> Seq(Seqs)]
      /\ lastId' \in 0..MaxSeq
      /\ <<>> \in Seq(Seqs)
      /\ 0 \in 0..(MaxConnectAttempts + 1)
  <2>1. <<>> \in Seq(Seqs) /\ 0 \in 0..(MaxConnectAttempts + 1)
    BY EmptySeq
  <2> QED
    BY <1>1, <2>1 DEF TypeOK
<1>5. CASE \E c \in Claims : OpenClaim(c)
  <2>1. PICK c \in Claims : OpenClaim(c)
    BY <1>5
  <2>2. /\ claim' = c /\ board'[c] = <<>> /\ conn' = "connecting" /\ attempt' = 0
        /\ wire' = <<>> /\ partial' = "none" /\ batch' = {} /\ ended' = FALSE
        /\ tailAt' = tailAt /\ faults' = faults
        /\ openedAt' = lastId /\ torn' = {}
    BY <1>1, <2>1 DEF OpenClaim, CloseResponse
  <2>3. TypeOK'
    BY <1>1, <1>4, <2>2 DEF TypeOK
  <2>4. ResponseState' /\ WireInOrder' /\ BoardBehindCursor'
    BY <2>2, EmptySeq DEF ResponseState, WireInOrder, BoardBehindCursor
  <2> QED
    BY <1>3, <2>3, <2>4
<1>6. CASE Connect
  <2>1. /\ conn = "connecting" /\ conn' = "live" /\ attempt' = 0
        /\ tailAt' = lastId
        /\ UNCHANGED <<batch, ended, claim, partial, wire, openedAt, torn, faults>>
    BY <1>6 DEF Connect, history
  <2>2. TypeOK'
    BY <1>1, <1>4, <2>1 DEF TypeOK
  <2>3. wire = <<>> /\ partial = "none" /\ batch = {} /\ ~ended
    BY <2>1 DEF ResponseState
  <2>4. ResponseState' /\ BoardBehindCursor'
    BY <1>1, <2>1, <2>3 DEF ResponseState, BoardBehindCursor
  <2>5. WireInOrder'
    BY <1>1, <2>1, <2>3, EmptySeq DEF WireInOrder, TypeOK
  <2> QED
    BY <1>3, <2>2, <2>4, <2>5
<1>7. CASE BackoffOver
  <2>1. /\ conn = "waiting" /\ conn' = "connecting"
        /\ UNCHANGED <<tailAt, batch, ended, claim, attempt, partial, wire,
                       openedAt, torn, faults>>
    BY <1>7 DEF BackoffOver, tailVars, history
  <2>2. TypeOK'
    BY <1>4, <2>1 DEF TypeOK
  <2>3. ResponseState' /\ BoardBehindCursor' /\ WireInOrder'
    BY <1>1, <2>1 DEF ResponseState, BoardBehindCursor, WireInOrder
  <2> QED
    BY <1>3, <2>2, <2>3
<1>8. CASE EndOfStream
  <2>1. /\ conn = "live" /\ conn' = "offline" /\ ended /\ wire = <<>>
        /\ UNCHANGED <<tailAt, batch, ended, claim, attempt, partial, wire,
                       openedAt, torn, faults>>
    BY <1>8 DEF EndOfStream, tailVars, history
  <2>2. TypeOK'
    BY <1>4, <2>1 DEF TypeOK
  <2>3. partial = "none" /\ batch = {}
    BY <2>1 DEF ResponseState, WireInOrder
  <2>4. ResponseState' /\ BoardBehindCursor' /\ WireInOrder'
    BY <1>1, <2>1, <2>3 DEF ResponseState, BoardBehindCursor, WireInOrder
  <2> QED
    BY <1>3, <2>2, <2>4
<1>9. CASE ConnectionFails
  <2>1. /\ conn \in {"connecting", "live"}
        /\ conn' = IF attempt + 1 > MaxConnectAttempts THEN "offline" ELSE "waiting"
        /\ attempt' = attempt + 1
        /\ wire' = <<>> /\ partial' = "none" /\ batch' = {} /\ ended' = FALSE
        /\ UNCHANGED <<tailAt, claim, openedAt, torn>>
    BY <1>9 DEF ConnectionFails, CloseResponse, history
  <2>2. faults' \in 0..MaxFaults
    BY <1>9 DEF ConnectionFails, Fault, TypeOK
  <2>3. attempt \in 0..(MaxConnectAttempts + 1) /\ attempt <= MaxConnectAttempts
    BY <2>1 DEF TypeOK, ResponseState
  <2>4. attempt' \in 0..(MaxConnectAttempts + 1)
    BY <2>1, <2>3
  <2>5. TypeOK'
    BY <1>4, <2>1, <2>2, <2>4 DEF TypeOK
  <2>6. ResponseState'
    BY <2>1, <2>3 DEF ResponseState
  <2>7. claim \in Claims =>
          \A i \in 1..Len(board[claim]) : board[claim][i] <= lastId
    BY DEF BoardBehindCursor
  <2>8. BoardBehindCursor' /\ WireInOrder'
    BY <1>1, <2>1, <2>7, EmptySeq DEF BoardBehindCursor, WireInOrder
  <2> QED
    BY <1>3, <2>5, <2>6, <2>8
<1> QED
  BY <1>5, <1>6, <1>7, <1>8, <1>9

\* The k smallest members of a set of numbers: with one, the smaller ones.
LEMMA SmallestFirst ==
  ASSUME NEW S, \A i \in S : i \in Nat, NEW k \in Nat,
         NEW m \in SmallestN(S, k), NEW n \in S, n <= m
  PROVE  n \in SmallestN(S, k)
<1>1. PICK B : B = {i \in S : i < m}
  OBVIOUS
<1>2. PICK C : C = {i \in S : i < n}
  OBVIOUS
<1>3. m \in S /\ Cardinality(B) < k
  BY <1>1 DEF SmallestN
<1>4. m \in Nat /\ \A i \in B : i \in Nat /\ i <= m
  BY <1>1, <1>3
<1>5. IsFiniteSet(B)
  <2>1. B \in SUBSET Nat
    BY <1>4
  <2> QED
    BY <1>4, <2>1, FS_BoundedSetOfNaturals
<1>6. C \in SUBSET B
  BY <1>1, <1>2, <1>3
<1>7. IsFiniteSet(C) /\ Cardinality(C) <= Cardinality(B)
  BY <1>5, <1>6, FS_Subset
<1>8. Cardinality(B) \in Nat /\ Cardinality(C) \in Nat
  BY <1>5, <1>7, FS_CardinalityType
<1>9. Cardinality(C) < k
  BY <1>3, <1>7, <1>8
<1> QED
  BY <1>2, <1>9 DEF SmallestN

\* A batch is what is above the tail's cursor.
LEMMA FetchKeeps ==
  ASSUME StreamInv, FetchBatch
  PROVE  StreamInv'
<1> USE DEF StreamInv
<1>1. /\ UNCHANGED <<counter, log, emitting, claim, conn, attempt, lastId,
                     partial, tailAt, ended, wire, board, openedAt, torn, faults>>
      /\ conn = "live" /\ ~ended
      /\ \A n \in batch' : n \in Logged(claim) /\ n > tailAt
  BY DEF FetchBatch, SmallestN, logVars, hookVars, history
<1>2. \A c : Logged(c)' = Logged(c)
  BY <1>1, LogStays DEF logVars
<1>3. Numbered' /\ BoardInOrder'
  BY <1>1, <1>2, LogStays DEF logVars, BoardInOrder
<1>4. batch' \subseteq Seqs
  <2>1. claim \in Claims
    BY <1>1 DEF ResponseState
  <2>2. Logged(claim) \subseteq 1..counter[claim] /\ counter[claim] \in 0..MaxSeq
    BY <2>1 DEF Numbered, TypeOK
  <2> QED
    BY <1>1, <2>2, StreamAssumption DEF Seqs
<1>5. TypeOK'
  BY <1>1, <1>4 DEF TypeOK
<1>6. ResponseState' /\ BoardBehindCursor'
  BY <1>1 DEF ResponseState, BoardBehindCursor
<1>7. WireInOrder'
  <2>1. Logged(claim') = Logged(claim)
    BY <1>1
  <2>2. Logged(claim)' = Logged(claim)
    BY <1>1 DEF Logged, Entries
  <2> QED
    BY <1>1, <1>4, <2>2 DEF WireInOrder, TypeOK, Seqs
<1> QED
  BY <1>3, <1>5, <1>6, <1>7

\* A frame that is yielded is above everything on the wire and below the
\* rest of the batch.
LEMMA YieldKeeps ==
  ASSUME StreamInv, YieldFrame
  PROVE  StreamInv'
<1> USE DEF StreamInv
<1>1. PICK n \in batch :
        /\ \A m \in batch : n <= m
        /\ tailAt' = n
        /\ wire' = Append(wire, n)
        /\ ended' = IsTerminal(claim, n)
        /\ batch' = IF IsTerminal(claim, n) THEN {} ELSE batch \ {n}
  BY DEF YieldFrame
<1>2. /\ UNCHANGED <<counter, log, emitting, claim, conn, attempt, lastId,
                     partial, board, openedAt, torn, faults>>
      /\ conn = "live" /\ ~ended
  BY DEF YieldFrame, logVars, hookVars, history
<1>3. /\ \A c : Logged(c)' = Logged(c)
      /\ Logged(claim)' = Logged(claim)
  BY <1>2, LogStays DEF logVars, Logged, Entries
<1>4. Numbered' /\ BoardInOrder'
  BY <1>2, <1>3, LogStays DEF logVars, BoardInOrder
<1>5. /\ n \in Seqs /\ n \in Logged(claim) /\ tailAt < n
      /\ wire \in Seq(Seqs) /\ batch \subseteq Seqs
      /\ tailAt \in 0..MaxSeq /\ lastId \in 0..MaxSeq
  BY <1>2 DEF TypeOK, WireInOrder
<1>6. /\ Append(wire, n) \in Seq(Seqs) /\ Len(wire) \in Nat
      /\ Append(wire, n) # <<>>
      /\ Len(Append(wire, n)) = Len(wire) + 1
      /\ \A i \in 1..Len(wire) : Append(wire, n)[i] = wire[i]
      /\ Append(wire, n)[Len(wire) + 1] = n
  BY <1>5, AppendProperties, LenProperties
<1>7. batch' \subseteq batch \ {n} /\ n \in 0..MaxSeq
  BY <1>1, <1>5, StreamAssumption DEF Seqs
<1>8. TypeOK'
  <2>1. ended' \in BOOLEAN
    BY <1>1 DEF IsTerminal
  <2>2. wire' \in Seq(Seqs) /\ tailAt' \in 0..MaxSeq /\ batch' \subseteq Seqs
    BY <1>1, <1>5, <1>6, <1>7
  <2> QED
    BY <1>2, <2>1, <2>2 DEF TypeOK
<1>9. ResponseState' /\ BoardBehindCursor'
  BY <1>1, <1>2 DEF ResponseState, BoardBehindCursor
<1>10. WireInOrder'
  <2>1. \A i \in 1..Len(wire) :
          /\ wire[i] \in Seqs /\ wire[i] \in Logged(claim)
          /\ wire[i] <= tailAt
    BY <1>2, <1>5, ElementOfSeq DEF WireInOrder
  <2>2. \A i \in 1..Len(wire') :
          /\ wire'[i] \in Logged(claim)
          /\ wire'[i] <= n
    <3> SUFFICES ASSUME NEW i \in 1..Len(wire')
                 PROVE  wire'[i] \in Logged(claim) /\ wire'[i] <= n
      OBVIOUS
    <3>1. CASE i = Len(wire) + 1
      BY <1>1, <1>5, <1>6, <3>1 DEF Seqs
    <3>2. CASE i # Len(wire) + 1
      <4>1. i \in 1..Len(wire) /\ wire'[i] = wire[i]
        BY <1>1, <1>6, <3>2
      <4>2. wire[i] \in Logged(claim) /\ wire[i] <= tailAt /\ wire[i] \in Seqs
        BY <2>1, <4>1
      <4> QED
        BY <1>5, <4>1, <4>2 DEF Seqs
    <3> QED
      BY <3>1, <3>2
  <2>3. \A i, j \in 1..Len(wire') : i < j => wire'[i] < wire'[j]
    <3>1. \A i, j \in 1..Len(wire) : i < j => wire[i] < wire[j]
      BY <1>2 DEF WireInOrder
    <3>2. \A i \in 1..Len(wire) : wire'[i] = wire[i] /\ wire'[i] < n
      BY <1>1, <1>5, <1>6, <2>1 DEF Seqs
    <3>3. /\ Len(wire') = Len(wire) + 1 /\ Len(wire) \in Nat
          /\ wire'[Len(wire) + 1] = n
      BY <1>1, <1>6
    <3> SUFFICES ASSUME NEW i \in 1..Len(wire'), NEW j \in 1..Len(wire'), i < j
                 PROVE  wire'[i] < wire'[j]
      OBVIOUS
    <3>4. i \in 1..Len(wire) /\ (j \in 1..Len(wire) \/ j = Len(wire) + 1)
      BY <3>3
    <3>5. wire'[i] = wire[i] /\ wire'[i] < n
      BY <3>2, <3>4
    <3>6. CASE j = Len(wire) + 1
      BY <3>3, <3>5, <3>6
    <3>7. CASE j \in 1..Len(wire)
      BY <3>1, <3>2, <3>4, <3>7
    <3> QED
      BY <3>4, <3>6, <3>7
  <2>4. \A m \in batch' : m \in Logged(claim) /\ n < m
    BY <1>1, <1>2, <1>5, <1>7 DEF WireInOrder, Seqs
  <2>5. lastId <= n
    BY <1>2, <1>5 DEF WireInOrder, Seqs
  <2>6. IF partial = "none" THEN \A i \in 1..Len(wire') : lastId < wire'[i]
        ELSE wire' # <<>> /\ wire'[1] = lastId
    <3>1. CASE partial = "none"
      BY <1>1, <1>2, <1>5, <1>6, <3>1 DEF WireInOrder, Seqs
    <3>2. CASE partial # "none"
      <4>1. wire # <<>> /\ wire[1] = lastId
        BY <3>2 DEF WireInOrder
      <4>2. 1 \in 1..Len(wire)
        BY <1>5, <4>1, EmptySeq
      <4> QED
        BY <1>1, <1>6, <3>2, <4>1, <4>2
    <3> QED
      BY <3>1, <3>2
  <2> QED
    BY <1>1, <1>2, <1>3, <2>2, <2>3, <2>4, <2>5, <2>6 DEF WireInOrder
<1> QED
  BY <1>4, <1>8, <1>9, <1>10

\* A read takes a chunk of the wire, from its first frame or, when that one's
\* data line was read before, its second, and leaves the rest there.
Takes(k, cut, first, chunk) ==
  /\ conn = "live" /\ claim \in Claims
  /\ UNCHANGED <<counter, log, emitting, claim, conn, attempt,
                 tailAt, batch, ended, openedAt, faults>>
  /\ partial' = cut
  /\ torn' = torn \cup (IF cut = "none" THEN {} ELSE {wire[k + 1]})
  /\ cut = "none" => k \in 1..Len(wire)
  /\ cut # "none" => k + 1 \in 1..Len(wire) /\ "split" \in FaultKinds
  /\ lastId' = IF cut = "none" THEN wire[k] ELSE wire[k + 1]
  /\ chunk \in Seq(Seqs) /\ Len(chunk) = k - first + 1
  /\ \A i \in 1..Len(chunk) : chunk[i] = wire[first + i - 1]
  /\ wire' \in Seq(Seqs) /\ Len(wire') = Len(wire) - k
  /\ \A i \in 1..Len(wire') : wire'[i] = wire[k + i]
  /\ board' = [board EXCEPT ![claim] = @ \o chunk]

LEMMA ReadEffect ==
  ASSUME StreamInv, NEW k \in 0..Len(wire), NEW cut \in {"none", "id", "data"},
         ReadChunk(k, cut), NEW first, NEW chunk,
         first = IF partial = "data" THEN 2 ELSE 1,
         chunk = SubSeq(wire, first, k)
  PROVE  Takes(k, cut, first, chunk)
<1>1. /\ conn = "live" /\ claim \in Claims
      /\ UNCHANGED <<counter, log, emitting, claim, conn, attempt,
                     tailAt, batch, ended, openedAt, faults>>
      /\ partial' = cut
      /\ torn' = torn \cup (IF cut = "none" THEN {} ELSE {wire[k + 1]})
      /\ lastId' = IF cut = "none" THEN wire[k] ELSE wire[k + 1]
      /\ board' = [board EXCEPT ![claim] = @ \o chunk]
      /\ wire' = SubSeq(wire, k + 1, Len(wire))
      /\ k + (IF cut = "none" THEN 0 ELSE 1) \in 1..Len(wire)
      /\ cut # "none" => "split" \in FaultKinds
      /\ k = 0 => partial = "none" \/ (partial = "id" /\ cut = "data")
  BY DEF ReadChunk, StreamInv, ResponseState, logVars, tailVars
<1>2. /\ wire \in Seq(Seqs) /\ Len(wire) \in Nat
      /\ \A i \in 1..Len(wire) : wire[i] \in Seqs
  BY LenProperties, ElementOfSeq DEF StreamInv, TypeOK
<1>3. k \in Nat /\ k <= Len(wire) /\ first \in {1, 2} /\ first <= k + 1
  BY <1>1, <1>2
<1>4. /\ chunk \in Seq(Seqs) /\ Len(chunk) = k - first + 1
      /\ \A i \in 1..Len(chunk) : chunk[i] = wire[first + i - 1]
  <2>1. \A i \in first..k : wire[i] \in Seqs
    BY <1>2, <1>3
  <2>2. /\ SubSeq(wire, first, k) \in Seq(Seqs)
        /\ Len(SubSeq(wire, first, k)) = IF first <= k THEN k - first + 1 ELSE 0
        /\ \A i \in 1..(k - first + 1) :
             SubSeq(wire, first, k)[i] = wire[first + i - 1]
    <3>1. first \in Int /\ k \in Int
      BY <1>3
    <3> QED
      BY <2>1, <3>1, SubSeqProperties
  <2>3. (IF first <= k THEN k - first + 1 ELSE 0) = k - first + 1
    BY <1>3
  <2> QED
    BY <2>2, <2>3
<1>5. /\ wire' \in Seq(Seqs) /\ Len(wire') = Len(wire) - k
      /\ \A i \in 1..Len(wire') : wire'[i] = wire[k + i]
  <2>1. \A i \in (k + 1)..Len(wire) : wire[i] \in Seqs
    BY <1>2, <1>3
  <2>2. /\ SubSeq(wire, k + 1, Len(wire)) \in Seq(Seqs)
        /\ Len(SubSeq(wire, k + 1, Len(wire))) =
             IF k + 1 <= Len(wire) THEN Len(wire) - (k + 1) + 1 ELSE 0
        /\ \A i \in 1..(Len(wire) - (k + 1) + 1) :
             SubSeq(wire, k + 1, Len(wire))[i] = wire[(k + 1) + i - 1]
    <3>1. k + 1 \in Int /\ Len(wire) \in Int
      BY <1>2, <1>3
    <3> QED
      BY <2>1, <3>1, SubSeqProperties
  <2>3. (IF k + 1 <= Len(wire) THEN Len(wire) - (k + 1) + 1 ELSE 0)
          = Len(wire) - k
    BY <1>2, <1>3
  <2>4. /\ Len(wire') = Len(wire) - k
        /\ Len(wire) - (k + 1) + 1 = Len(wire) - k
    BY <1>1, <1>2, <1>3, <2>2, <2>3
  <2>5. \A i \in 1..(Len(wire) - k) : (k + 1) + i - 1 = k + i
    BY <1>3
  <2> QED
    BY <1>1, <2>2, <2>4, <2>5
<1>6. /\ cut = "none" => k \in 1..Len(wire)
      /\ cut # "none" => k + 1 \in 1..Len(wire)
  BY <1>1, <1>3
<1> QED
  BY <1>1, <1>4, <1>5, <1>6 DEF Takes

\* A read hands the board frames above what it has, in order, and moves the
\* cursor over them.
LEMMA ReadKeeps ==
  ASSUME StreamInv,
         \E k \in 0..Len(wire), cut \in {"none", "id", "data"} : ReadChunk(k, cut)
  PROVE  StreamInv'
<1>0. PICK k \in 0..Len(wire), cut \in {"none", "id", "data"} : ReadChunk(k, cut)
  OBVIOUS
<1>1. PICK first : first = IF partial = "data" THEN 2 ELSE 1
  OBVIOUS
<1>2. PICK chunk : chunk = SubSeq(wire, first, k)
  OBVIOUS
<1>3. /\ conn = "live" /\ claim \in Claims
      /\ UNCHANGED <<counter, log, emitting, claim, conn, attempt,
                     tailAt, batch, ended, openedAt, faults>>
      /\ partial' = cut
      /\ torn' = torn \cup (IF cut = "none" THEN {} ELSE {wire[k + 1]})
      /\ cut = "none" => k \in 1..Len(wire)
      /\ cut # "none" => k + 1 \in 1..Len(wire) /\ "split" \in FaultKinds
      /\ lastId' = IF cut = "none" THEN wire[k] ELSE wire[k + 1]
      /\ chunk \in Seq(Seqs) /\ Len(chunk) = k - first + 1
      /\ \A i \in 1..Len(chunk) : chunk[i] = wire[first + i - 1]
      /\ wire' \in Seq(Seqs) /\ Len(wire') = Len(wire) - k
      /\ \A i \in 1..Len(wire') : wire'[i] = wire[k + i]
      /\ board' = [board EXCEPT ![claim] = @ \o chunk]
  <2>1. Takes(k, cut, first, chunk)
    BY <1>0, <1>1, <1>2, ReadEffect
  <2> QED
    BY <2>1 DEF Takes
<1>4. PICK old : old = board[claim]
  OBVIOUS
<1>5. PICK new : new = old \o chunk
  OBVIOUS
<1>6. /\ board \in [Claims -> Seq(Seqs)]
      /\ old \in Seq(Seqs) /\ Len(old) \in Nat /\ Len(chunk) \in Nat
      /\ wire \in Seq(Seqs) /\ Len(wire) \in Nat
      /\ \A i \in 1..Len(wire) : wire[i] \in Seqs
      /\ \A i \in 1..Len(old) : old[i] \in Seqs
      /\ lastId \in 0..MaxSeq /\ tailAt \in 0..MaxSeq
  BY <1>3, <1>4, LenProperties, ElementOfSeq DEF StreamInv, TypeOK
<1>7. /\ new \in Seq(Seqs) /\ Len(new) = Len(old) + Len(chunk)
      /\ Len(new) \in Nat
      /\ \A i \in 1..Len(old) : new[i] = old[i]
      /\ \A i \in 1..Len(new) : i > Len(old) => new[i] = chunk[i - Len(old)]
  <2>1. /\ new \in Seq(Seqs) /\ Len(new) = Len(old) + Len(chunk)
        /\ \A i \in 1..(Len(old) + Len(chunk)) :
             new[i] = IF i <= Len(old) THEN old[i] ELSE chunk[i - Len(old)]
    BY <1>3, <1>5, <1>6, ConcatProperties
  <2>2. Len(new) \in Nat
    BY <1>6, <2>1
  <2>3. \A i \in 1..Len(old) : new[i] = old[i]
    <3> SUFFICES ASSUME NEW i \in 1..Len(old) PROVE new[i] = old[i]
      OBVIOUS
    <3>1. i \in 1..(Len(old) + Len(chunk)) /\ i <= Len(old)
      BY <1>6
    <3> QED
      BY <2>1, <3>1
  <2>4. \A i \in 1..Len(new) : i > Len(old) => new[i] = chunk[i - Len(old)]
    <3> SUFFICES ASSUME NEW i \in 1..Len(new), i > Len(old)
                 PROVE  new[i] = chunk[i - Len(old)]
      OBVIOUS
    <3>1. i \in 1..(Len(old) + Len(chunk)) /\ ~(i <= Len(old))
      BY <1>6, <2>1
    <3> QED
      BY <2>1, <3>1
  <2> QED
    BY <2>1, <2>2, <2>3, <2>4
<1>8. /\ board'[claim] = new
      /\ board' \in [Claims -> Seq(Seqs)]
      /\ \A c \in Claims \ {claim} : board'[c] = board[c]
  BY <1>3, <1>4, <1>5, <1>6, <1>7
<1>9. k \in Nat /\ k <= Len(wire) /\ first \in {1, 2}
      /\ (partial # "data" => first = 1)
  BY <1>1, <1>6
<1>10. /\ \A i, j \in 1..Len(wire) : i < j => wire[i] < wire[j]
       /\ \A i \in 1..Len(wire) : wire[i] \in Logged(claim) /\ wire[i] <= tailAt
       /\ partial = "none" => \A i \in 1..Len(wire) : lastId < wire[i]
       /\ partial # "none" => wire[1] = lastId
  BY <1>3 DEF StreamInv, WireInOrder
<1>11. /\ \A i \in 1..Len(old) : old[i] <= lastId /\ old[i] \in Logged(claim)
       /\ \A i, j \in 1..Len(old) : i < j => old[i] < old[j]
       /\ partial # "none" => \A i \in 1..Len(old) : old[i] < lastId
  <2>1. DOMAIN old = 1..Len(old)
    BY <1>6, LenProperties
  <2>2. /\ \A i \in 1..Len(old) : old[i] \in Logged(claim)
        /\ \A i, j \in 1..Len(old) : i < j => old[i] < old[j]
    BY <1>3, <1>4, <2>1 DEF StreamInv, BoardInOrder
  <2>3. /\ \A i \in 1..Len(old) : old[i] <= lastId
        /\ partial # "none" => \A i \in 1..Len(old) : old[i] < lastId
    BY <1>3, <1>4 DEF StreamInv, BoardBehindCursor
  <2> QED
    BY <2>2, <2>3
\* Everything on the board is below what is on the wire...
<1>12. \A i \in 1..Len(old), j \in 1..Len(wire) : old[i] < wire[j]
  <2> SUFFICES ASSUME NEW i \in 1..Len(old), NEW j \in 1..Len(wire)
               PROVE  old[i] < wire[j]
    OBVIOUS
  <2>0. old[i] \in Seqs /\ wire[j] \in Seqs
    BY <1>6
  <2>1. CASE partial = "none"
    <3>1. old[i] <= lastId /\ lastId < wire[j]
      BY <1>10, <1>11, <2>1
    <3> QED
      BY <1>6, <2>0, <3>1 DEF Seqs
  <2>2. CASE partial # "none"
    <3>1. old[i] < lastId /\ wire[1] = lastId /\ wire[1] \in Seqs
      BY <1>6, <1>10, <1>11, <2>2
    <3>2. j = 1 \/ wire[1] < wire[j]
      BY <1>6, <1>10
    <3> QED
      BY <1>6, <2>0, <3>1, <3>2 DEF Seqs
  <2> QED
    BY <2>1, <2>2
\* ...and the chunk is a part of the wire.
<1>13. \A i \in 1..Len(chunk) :
         /\ first + i - 1 \in 1..k /\ first + i - 1 \in 1..Len(wire)
         /\ chunk[i] = wire[first + i - 1]
  <2> SUFFICES ASSUME NEW i \in 1..Len(chunk)
               PROVE  first + i - 1 \in 1..k /\ first + i - 1 \in 1..Len(wire)
    BY <1>3
  <2>1. Len(chunk) = k - first + 1
    BY <1>3
  <2> QED
    BY <1>6, <1>9, <2>1
<1>14. \A i, j \in 1..Len(chunk) : i < j => chunk[i] < chunk[j]
  <2> SUFFICES ASSUME NEW i \in 1..Len(chunk), NEW j \in 1..Len(chunk), i < j
               PROVE  chunk[i] < chunk[j]
    OBVIOUS
  <2>1. first + i - 1 < first + j - 1
    BY <1>6, <1>9
  <2> QED
    BY <1>10, <1>13, <2>1
<1>15. \A i \in 1..Len(chunk) : chunk[i] \in Logged(claim) /\ chunk[i] \in Seqs
  BY <1>6, <1>10, <1>13
<1>16. \A i \in 1..Len(new) :
         \/ i \in 1..Len(old) /\ new[i] = old[i]
         \/ /\ i > Len(old) /\ i - Len(old) \in 1..Len(chunk)
            /\ new[i] = chunk[i - Len(old)]
  <2> SUFFICES ASSUME NEW i \in 1..Len(new), i \notin 1..Len(old)
               PROVE  i > Len(old) /\ i - Len(old) \in 1..Len(chunk)
    BY <1>7
  <2>1. i \in 1..(Len(old) + Len(chunk)) /\ Len(old) \in Nat /\ Len(chunk) \in Nat
    BY <1>6, <1>7
  <2> QED
    BY <2>1
<1>17. \A i \in 1..Len(new) : new[i] \in Logged(claim) /\ new[i] \in Seqs
  BY <1>6, <1>11, <1>15, <1>16
<1>18. \A i, j \in 1..Len(new) : i < j => new[i] < new[j]
  <2> SUFFICES ASSUME NEW i \in 1..Len(new), NEW j \in 1..Len(new), i < j
               PROVE  new[i] < new[j]
    OBVIOUS
  <2>1. CASE j \in 1..Len(old) /\ new[j] = old[j]
    <3>1. i \in 1..Len(old)
      <4>1. i \in Nat /\ i >= 1
        BY <1>7
      <4> QED
        BY <1>6, <2>1, <4>1
    <3>2. new[i] = old[i]
      BY <1>7, <3>1
    <3> QED
      BY <1>11, <2>1, <3>1, <3>2
  <2>2. CASE /\ j > Len(old) /\ j - Len(old) \in 1..Len(chunk)
             /\ new[j] = chunk[j - Len(old)]
    <3>1. CASE i \in 1..Len(old) /\ new[i] = old[i]
      BY <1>12, <1>13, <2>2, <3>1
    <3>2. CASE /\ i > Len(old) /\ i - Len(old) \in 1..Len(chunk)
               /\ new[i] = chunk[i - Len(old)]
      <4>1. i - Len(old) < j - Len(old)
        BY <1>6
      <4> QED
        BY <1>14, <2>2, <3>2, <4>1
    <3> QED
      BY <1>16, <3>1, <3>2
  <2> QED
    BY <1>16, <2>1, <2>2
<1>19. BoardInOrder'
  <2>1. \A c \in Claims : Logged(c)' = Logged(c)
    BY <1>3 DEF Logged, Entries
  <2>2. DOMAIN new = 1..Len(new)
    BY <1>7, LenProperties
  <2>3. ASSUME NEW c \in Claims
        PROVE  \A i, j \in DOMAIN board'[c] :
                 /\ board'[c][i] \in Logged(c)
                 /\ i < j => board'[c][i] < board'[c][j]
    <3>1. CASE c = claim
      BY <1>8, <1>17, <1>18, <2>2, <3>1
    <3>2. CASE c # claim
      BY <1>8, <3>2 DEF StreamInv, BoardInOrder
    <3> QED
      BY <3>1, <3>2
  <2> QED
    BY <2>1, <2>3 DEF BoardInOrder
\* The cursor moves to the last line that was read.
<1>20. PICK at \in 1..Len(wire) :
         /\ lastId' = wire[at]
         /\ at = IF cut = "none" THEN k ELSE k + 1
  BY <1>3
<1>21. lastId' \in Seqs /\ lastId' \in 0..MaxSeq /\ lastId' <= tailAt
  BY <1>6, <1>10, <1>20, StreamAssumption DEF Seqs
<1>22. BoardBehindCursor'
  <2> SUFFICES ASSUME NEW i \in 1..Len(new)
               PROVE  /\ new[i] <= lastId'
                      /\ cut # "none" => new[i] < lastId'
    BY <1>3, <1>8 DEF BoardBehindCursor
  <2>1. CASE i \in 1..Len(old) /\ new[i] = old[i]
    <3>1. new[i] < wire[at]
      BY <1>12, <2>1
    <3>2. new[i] \in Nat /\ wire[at] \in Nat
      BY <1>6, <1>17 DEF Seqs
    <3> QED
      BY <1>20, <3>1, <3>2
  <2>2. CASE /\ i > Len(old) /\ i - Len(old) \in 1..Len(chunk)
             /\ new[i] = chunk[i - Len(old)]
    <3>1. PICK j \in 1..Len(wire) : j \in 1..k /\ new[i] = wire[j]
      BY <1>13, <2>2
    <3>2. j < at \/ (j = at /\ cut = "none")
      BY <1>9, <1>20, <3>1
    <3>3. wire[j] < wire[at] \/ (wire[j] = wire[at] /\ cut = "none")
      <4>1. CASE j < at
        BY <1>10, <3>1, <4>1
      <4>2. CASE j = at /\ cut = "none"
        BY <4>2
      <4> QED
        BY <3>2, <4>1, <4>2
    <3>4. wire[j] \in Nat /\ wire[at] \in Nat
      <4>1. wire[j] \in Seqs /\ wire[at] \in Seqs
        BY <1>6
      <4> QED
        BY <4>1 DEF Seqs
    <3>5. new[i] = wire[j] /\ lastId' = wire[at]
      BY <1>20, <3>1
    <3> QED
      BY <3>3, <3>4, <3>5
  <2> QED
    BY <1>16, <2>1, <2>2
<1>23. WireInOrder'
  <2>1. Logged(claim)' = Logged(claim)
    BY <1>3 DEF Logged, Entries
  <2>2. \A i \in 1..Len(wire') : k + i \in 1..Len(wire) /\ wire'[i] = wire[k + i]
    <3> SUFFICES ASSUME NEW i \in 1..Len(wire') PROVE k + i \in 1..Len(wire)
      BY <1>3
    <3>1. Len(wire') = Len(wire) - k
      BY <1>3
    <3> QED
      BY <1>6, <1>9, <3>1
  <2>3. /\ \A i \in 1..Len(wire') : wire'[i] \in Logged(claim) /\ wire'[i] <= tailAt
        /\ \A n \in batch : n \in Logged(claim) /\ tailAt < n
    BY <1>3, <1>10, <2>2 DEF StreamInv, WireInOrder
  <2>4. \A i, j \in 1..Len(wire') : i < j => wire'[i] < wire'[j]
    <3> SUFFICES ASSUME NEW i \in 1..Len(wire'), NEW j \in 1..Len(wire'), i < j
                 PROVE  wire'[i] < wire'[j]
      OBVIOUS
    <3>1. k + i < k + j
      BY <1>9
    <3> QED
      BY <1>10, <2>2, <3>1
  <2>5. /\ partial' = cut /\ lastId' <= tailAt'
        /\ \A i \in 1..Len(wire') :
             wire'[i] \in Logged(claim)' /\ wire'[i] <= tailAt'
        /\ \A i, j \in 1..Len(wire') : i < j => wire'[i] < wire'[j]
        /\ \A n \in batch' : n \in Logged(claim)' /\ tailAt' < n
    BY <1>3, <1>21, <2>1, <2>3, <2>4
  <2>6. CASE cut = "none"
    <3>1. \A i \in 1..Len(wire') : lastId' < wire'[i]
      <4> SUFFICES ASSUME NEW i \in 1..Len(wire') PROVE lastId' < wire'[i]
        OBVIOUS
      <4>1. at < k + i
        BY <1>9, <1>20, <2>6
      <4> QED
        BY <1>10, <1>20, <2>2, <4>1
    <3> QED
      BY <2>5, <2>6, <3>1 DEF WireInOrder
  <2>7. CASE cut # "none"
    <3>1. Len(wire') >= 1
      BY <1>3, <1>6, <1>9, <2>7
    <3>2. 1 \in 1..Len(wire') /\ wire' # <<>>
      BY <1>3, <1>6, <1>9, <3>1, EmptySeq
    <3>3. wire'[1] = lastId'
      BY <1>20, <2>2, <2>7, <3>2
    <3> QED
      BY <2>5, <2>7, <3>2, <3>3 DEF WireInOrder
  <2> QED
    BY <2>6, <2>7
<1>24. TypeOK'
  <2>1. torn' \subseteq Seqs /\ openedAt' \in 0..MaxSeq
    BY <1>3, <1>6 DEF StreamInv, TypeOK
  <2> QED
    BY <1>3, <1>8, <1>21, <2>1 DEF StreamInv, TypeOK
<1>25. ResponseState'
  BY <1>3 DEF StreamInv, ResponseState
<1>26. Numbered'
  BY <1>3, LogStays DEF StreamInv, logVars
<1> QED
  BY <1>19, <1>22, <1>23, <1>24, <1>25, <1>26 DEF StreamInv

LEMMA StreamNext == StreamInv /\ [Next]_vars => StreamInv'
<1> SUFFICES ASSUME StreamInv, [Next]_vars PROVE StreamInv'
  OBVIOUS
<1>1. ASSUME NEW e \in Emitters, EmitterStep(e) PROVE StreamInv'
  BY <1>1, EmitterKeeps
<1>2. ASSUME NEW c \in Claims, OpenClaim(c) PROVE StreamInv'
  BY <1>2, ConnectionKeeps
<1>3. CASE Connect \/ BackoffOver \/ EndOfStream \/ ConnectionFails
  BY <1>3, ConnectionKeeps
<1>4. CASE FetchBatch
  BY <1>4, FetchKeeps
<1>5. CASE YieldFrame
  BY <1>5, YieldKeeps
<1>6. CASE \E k \in 0..Len(wire), cut \in {"none", "id", "data"} : ReadChunk(k, cut)
  BY <1>6, ReadKeeps
<1>7. CASE UNCHANGED vars
  <2>1. UNCHANGED <<counter, log, emitting, claim, conn, attempt, lastId,
                    partial, tailAt, batch, ended, wire, board, openedAt,
                    torn, faults>>
    BY <1>7 DEF vars, logVars, tailVars, hookVars, history
  <2>2. /\ \A c : Logged(c)' = Logged(c)
        /\ Logged(claim)' = Logged(claim)
        /\ Numbered'
    BY <2>1, LogStays DEF logVars, StreamInv, Logged, Entries
  <2>3. TypeOK' /\ ResponseState' /\ BoardBehindCursor'
    BY <2>1 DEF StreamInv, TypeOK, ResponseState, BoardBehindCursor
  <2>4. WireInOrder' /\ BoardInOrder'
    BY <2>1, <2>2 DEF StreamInv, WireInOrder, BoardInOrder
  <2> QED
    BY <2>2, <2>3, <2>4 DEF StreamInv
<1> QED
  BY <1>1, <1>2, <1>3, <1>4, <1>5, <1>6, <1>7 DEF Next, StreamStep

\* Numbers, wire, cursors and board stay as StreamInv says, for any faults.
THEOREM StreamInvariant == Spec => []StreamInv
  BY StreamInit, StreamNext, PTL DEF Spec

\* The stream's state keeps its types.
THEOREM StreamTypes == Spec => []TypeOK
<1>1. StreamInv => TypeOK
  BY DEF StreamInv
<1> QED
  BY <1>1, StreamInvariant, PTL

\* The board is given each event of a claim once and in the order of the
\* numbers (backend/app/events.py and usePipelineEvents.js), for any number of
\* claims and reconnects, and wherever the reads end.
THEOREM BoardAlwaysInOrder == Spec => []BoardInOrder
<1>1. StreamInv => BoardInOrder
  BY DEF StreamInv
<1> QED
  BY <1>1, StreamInvariant, PTL

-----------------------------------------------------------------------------
(* Delivery to the page.                                                   *)

InWire == {wire[i] : i \in 1..Len(wire)}

\* Event n is at or before the tail's cursor, or one of the batch.
Passed(n) == n <= tailAt \/ \E m \in batch : n <= m

\* Why event n of claim c may never be given to the page that shows c.
Excused(c, n) == Overtaken(c, n) \/ n <= openedAt \/ n \in torn

\* Every event a tail has passed is on the board, on the wire or in the batch,
\* or is excused; the cursors are numbers of this claim's events or the cursor
\* the page brought; a tail that has ended sent a terminal event last.
Accounted ==
  /\ partial # "none" => lastId \in torn
  /\ claim \in Claims => lastId \in Logged(claim) \cup {openedAt}
  /\ conn = "live" =>
       /\ tailAt \in Logged(claim) \cup {openedAt}
       /\ \A n \in Logged(claim) : Passed(n) =>
            n \in Shown(claim) \cup InWire \cup batch \/ Excused(claim, n)
       /\ ended => /\ IsTerminal(claim, tailAt)
                   /\ tailAt \in Shown(claim) \cup InWire \cup torn

DeliveryInv ==
  /\ StreamInv
  /\ Accounted
  /\ OnlyOvertakenSkipped
  /\ QuietEndIsTerminal

LEMMA DeliveryInit == Init => DeliveryInv
<1> SUFFICES ASSUME Init PROVE DeliveryInv
  OBVIOUS
<1>1. StreamInv
  BY StreamInit
<1>2. \A c \in Claims : Logged(c) = {}
  <2>1. DOMAIN <<>> = {}
    BY EmptySeq, LenProperties
  <2> QED
    BY <2>1 DEF Init, Logged, Entries
<1>3. Accounted
  BY DEF Init, Accounted
<1>4. OnlyOvertakenSkipped /\ QuietEndIsTerminal
  BY <1>2 DEF Init, OnlyOvertakenSkipped, QuietEndIsTerminal
<1> QED
  BY <1>1, <1>3, <1>4 DEF DeliveryInv

\* What the page's claim has in its log is numbered from 1.
LEMMA LoggedNumbers ==
  ASSUME StreamInv, claim \in Claims
  PROVE  /\ Logged(claim) \subseteq Seqs
         /\ \A n \in Logged(claim) : n \in Nat /\ n >= 1
         /\ lastId \in Nat /\ tailAt \in Nat
         /\ \A m \in batch : m \in Nat
<1>1. Logged(claim) \subseteq 1..counter[claim] /\ counter[claim] \in 0..MaxSeq
  BY DEF StreamInv, Numbered, TypeOK
<1> QED
  BY <1>1, StreamAssumption DEF StreamInv, TypeOK, Seqs

\* An event that is inserted behind a cursor was overtaken.
LEMMA InsertedBehind ==
  ASSUME StreamInv, NEW e \in Emitters, EmitterStep(e), NEW c \in Claims,
         NEW n, n \in Logged(c)', n \notin Logged(c),
         NEW m, m \in Logged(c), n <= m
  PROVE  Overtaken(c, n)'
<1> USE DEF StreamInv
<1>1. InsertEvent(e)
  <2>1. UNCHANGED log => Logged(c)' = Logged(c)
    BY DEF Logged, Entries
  <2> QED
    BY <2>1 DEF EmitterStep, TakeNumber, LeaveGap
<1>2. PICK b : b = emitting[e].claim
  OBVIOUS
<1>3. PICK r : r = [seq |-> emitting[e].seq, kind |-> emitting[e].kind]
  OBVIOUS
<1>4. b = c /\ n = emitting[e].seq /\ n = r.seq
  <2>1. /\ Logged(b)' = Logged(b) \cup {emitting[e].seq}
        /\ \A d \in Claims \ {b} : Logged(d)' = Logged(d)
    BY <1>1, <1>2, LoggedAfter
  <2>2. b = c
    BY <2>1
  <2>3. n = emitting[e].seq
    BY <2>1, <2>2
  <2> QED
    BY <1>3, <2>2, <2>3
<1>5. /\ DOMAIN log[c] = 1..Len(log[c]) /\ Len(log[c]) \in Nat
      /\ DOMAIN log'[c] = 1..(Len(log[c]) + 1)
      /\ \A i \in 1..Len(log[c]) : log'[c][i] = log[c][i]
      /\ log'[c][Len(log[c]) + 1] = r
  <2>1. Appends(b, r)
    BY <1>1, <1>2, <1>3, LogAppend
  <2> QED
    BY <1>4, <2>1 DEF Appends
<1>6. PICK i \in 1..Len(log[c]) : log[c][i].seq = m
  BY <1>5 DEF Logged, Entries
<1>7. n \in Nat /\ m \in Nat /\ n # m
  <2>1. Logged(c) \subseteq 1..counter[c] /\ counter[c] \in Nat
    BY DEF Numbered, TypeOK
  <2>2. n \in Seqs
    BY <1>1, <1>4, Emitting DEF InsertEvent
  <2> QED
    BY <2>1, <2>2 DEF Seqs
<1>8. /\ i \in DOMAIN log'[c] /\ Len(log[c]) + 1 \in DOMAIN log'[c]
      /\ i < Len(log[c]) + 1
      /\ log'[c][Len(log[c]) + 1].seq = n
      /\ log'[c][i].seq > n
  BY <1>4, <1>5, <1>6, <1>7
<1> QED
  BY <1>8 DEF Overtaken

\* An emitter moves no cursor; what it inserts behind one was overtaken, if the
\* cursor is not the one the page brought.
LEMMA EmitterDelivers ==
  ASSUME DeliveryInv, NEW e \in Emitters, EmitterStep(e)
  PROVE  Accounted' /\ OnlyOvertakenSkipped' /\ QuietEndIsTerminal'
<1> USE DEF DeliveryInv
<1>1. UNCHANGED <<tailAt, batch, ended, claim, conn, attempt, lastId, partial,
                  wire, board, openedAt, torn>>
  BY DEF EmitterStep, TakeNumber, InsertEvent, LeaveGap, notEmitter, tailVars,
         hookVars, history
<1>2. /\ \A c : Shown(c)' = Shown(c)
      /\ InWire' = InWire
      /\ \A n : Passed(n)' <=> Passed(n)
  BY <1>1 DEF Shown, InWire, Passed
<1>3. CASE claim \notin Claims
  <2>1. conn = "off"
    BY <1>3 DEF StreamInv, ResponseState
  <2> QED
    BY <1>1, <1>3, <2>1 DEF Accounted, OnlyOvertakenSkipped, QuietEndIsTerminal
<1>4. CASE claim \in Claims
  <2>1. PICK c \in Claims : c = claim
    BY <1>4
  <2>2. /\ Logged(c) \subseteq Logged(c)'
        /\ \A n : Overtaken(c, n) => Overtaken(c, n)'
        /\ \A n : IsTerminal(c, n) => IsTerminal(c, n)'
    BY LogGrows DEF StreamInv
  <2>3. \A n : Excused(c, n) => Excused(c, n)'
    BY <1>1, <2>2 DEF Excused, Overtaken
  \* A new event behind a number of the log, or behind openedAt, is excused.
  <2>4. ASSUME NEW n, n \in Logged(c)', n \notin Logged(c),
               NEW m, m \in Logged(c) \cup {openedAt}, n <= m
        PROVE  Excused(c, n)'
    <3>1. CASE m \in Logged(c)
      <4>1. Overtaken(c, n)'
        BY <2>4, <3>1, InsertedBehind
      <4> QED
        BY <4>1 DEF Excused
    <3>2. CASE m = openedAt
      BY <1>1, <2>4, <3>2 DEF Excused
    <3> QED
      BY <2>4, <3>1, <3>2
  <2>5. /\ Logged(claim)' = Logged(c)'
        /\ Shown(claim)' = Shown(c)
        /\ \A n : Excused(claim, n)' <=> Excused(c, n)'
        /\ \A n : IsTerminal(claim, n)' <=> IsTerminal(c, n)'
    BY <1>1, <2>1 DEF Logged, Entries, Shown, Overtaken, IsTerminal, Excused
  <2>6. OnlyOvertakenSkipped'
    <3> SUFFICES ASSUME NEW n, n \in Logged(c)', n \notin Shown(c), n <= lastId
                 PROVE  Excused(c, n)'
      BY <1>1, <1>2, <2>1 DEF OnlyOvertakenSkipped, Excused
    <3>1. CASE n \in Logged(c)
      <4>1. Excused(c, n)
        BY <2>1, <3>1 DEF OnlyOvertakenSkipped, Excused
      <4> QED
        BY <2>3, <4>1
    <3>2. CASE n \notin Logged(c)
      <4>1. lastId \in Logged(c) \cup {openedAt}
        BY <2>1 DEF Accounted
      <4> QED
        BY <2>4, <3>2, <4>1
    <3> QED
      BY <3>1, <3>2
  <2>7. QuietEndIsTerminal'
    <3> SUFFICES ASSUME conn = "offline", attempt = 0
                 PROVE  \E n \in Shown(c) \cup torn : IsTerminal(c, n)'
      BY <1>1, <1>2, <2>1, <2>5 DEF QuietEndIsTerminal
    <3>1. PICK n \in Shown(c) \cup torn : IsTerminal(c, n)
      BY <2>1 DEF QuietEndIsTerminal
    <3> QED
      BY <2>2, <3>1
  <2>8. ASSUME conn = "live"
        PROVE  \A n \in Logged(c)' : Passed(n) =>
                 n \in Shown(c) \cup InWire \cup batch \/ Excused(c, n)'
    <3> SUFFICES ASSUME NEW n, n \in Logged(c)', Passed(n)
                 PROVE  n \in Shown(c) \cup InWire \cup batch \/ Excused(c, n)'
      OBVIOUS
    <3>1. CASE n \in Logged(c)
      <4>1. n \in Shown(c) \cup InWire \cup batch \/ Excused(c, n)
        BY <2>1, <2>8, <3>1 DEF Accounted
      <4> QED
        BY <2>3, <4>1
    <3>2. CASE n \notin Logged(c)
      <4>1. tailAt \in Logged(c) \cup {openedAt}
        BY <2>1, <2>8 DEF Accounted
      <4>2. \A m \in batch : m \in Logged(c)
        BY <2>1, <2>8 DEF StreamInv, WireInOrder
      <4>3. \E m \in Logged(c) \cup {openedAt} : n <= m
        BY <4>1, <4>2 DEF Passed
      <4> QED
        BY <2>4, <3>2, <4>3
    <3> QED
      BY <3>1, <3>2
  <2>9. Accounted'
    <3>1. (partial # "none" => lastId \in torn)'
      BY <1>1 DEF Accounted
    <3>2. lastId' \in Logged(claim)' \cup {openedAt'}
      BY <1>1, <2>1, <2>2, <2>5 DEF Accounted
    <3>3. ASSUME conn = "live"
          PROVE  /\ tailAt' \in Logged(claim)' \cup {openedAt'}
                 /\ \A n \in Logged(claim)' : Passed(n)' =>
                      \/ n \in Shown(claim)' \cup InWire' \cup batch'
                      \/ Excused(claim, n)'
                 /\ ended' => /\ IsTerminal(claim, tailAt)'
                              /\ tailAt' \in Shown(claim)' \cup InWire' \cup torn'
      <4>1. tailAt' \in Logged(claim)' \cup {openedAt'}
        BY <1>1, <2>1, <2>2, <2>5, <3>3 DEF Accounted
      <4>2. \A n \in Logged(claim)' : Passed(n)' =>
              \/ n \in Shown(claim)' \cup InWire' \cup batch'
              \/ Excused(claim, n)'
        BY <1>1, <1>2, <2>5, <2>8, <3>3
      <4>3. ended' => IsTerminal(c, tailAt)
        BY <1>1, <2>1, <3>3 DEF Accounted
      <4>4. ended' => IsTerminal(claim, tailAt)'
        <5>1. PICK n : n = tailAt
          OBVIOUS
        <5>2. ended' => IsTerminal(claim, n)'
          BY <2>2, <2>5, <4>3, <5>1
        <5> QED
          BY <1>1, <5>1, <5>2 DEF IsTerminal, Entries
      <4>5. ended' => tailAt' \in Shown(claim)' \cup InWire' \cup torn'
        BY <1>1, <1>2, <2>1, <2>5, <3>3 DEF Accounted
      <4> QED
        BY <4>1, <4>2, <4>4, <4>5
    <3> QED
      BY <1>1, <3>1, <3>2, <3>3 DEF Accounted
  <2> QED
    BY <2>6, <2>7, <2>9
<1> QED
  BY <1>3, <1>4

\* A tail starts where the page's cursor is; a batch takes the next events
\* and skips none.
LEMMA ConnectDelivers ==
  ASSUME DeliveryInv, Connect
  PROVE  Accounted' /\ OnlyOvertakenSkipped' /\ QuietEndIsTerminal'
<1> USE DEF DeliveryInv
<1>1. /\ UNCHANGED <<counter, log, emitting, claim, lastId, board, partial,
                     wire, batch, ended, openedAt, torn>>
      /\ conn = "connecting" /\ conn' = "live" /\ tailAt' = lastId
  BY DEF Connect, logVars, history
<1>2. /\ claim \in Claims
      /\ wire = <<>> /\ partial = "none" /\ batch = {} /\ ~ended
  BY <1>1 DEF StreamInv, ResponseState
<1>3. /\ Logged(claim)' = Logged(claim) /\ Shown(claim)' = Shown(claim)
      /\ \A n : Excused(claim, n)' <=> Excused(claim, n)
  BY <1>1 DEF Logged, Entries, Shown, Overtaken, Excused
<1>4. OnlyOvertakenSkipped'
  BY <1>1, <1>2, <1>3 DEF OnlyOvertakenSkipped, Excused
<1>5. QuietEndIsTerminal'
  BY <1>1 DEF QuietEndIsTerminal
<1>6. \A n \in Logged(claim) : Passed(n)' =>
        n \in Shown(claim) \/ Excused(claim, n)
  BY <1>1, <1>2 DEF Passed, OnlyOvertakenSkipped, Excused
<1>7. Accounted'
  <2>1. tailAt' \in Logged(claim)' \cup {openedAt'} /\ lastId' = tailAt'
    BY <1>1, <1>2, <1>3 DEF Accounted
  <2>2. \A n \in Logged(claim)' : Passed(n)' =>
          n \in Shown(claim)' \/ Excused(claim, n)'
    BY <1>3, <1>6
  <2> QED
    BY <1>1, <1>2, <2>1, <2>2 DEF Accounted
<1> QED
  BY <1>4, <1>5, <1>7

LEMMA FetchDelivers ==
  ASSUME DeliveryInv, FetchBatch
  PROVE  Accounted' /\ OnlyOvertakenSkipped' /\ QuietEndIsTerminal'
<1> USE DEF DeliveryInv
<1>1. PICK pending :
        /\ pending = {n \in Logged(claim) : n > tailAt}
        /\ batch' = SmallestN(pending, BatchSize)
  BY DEF FetchBatch
<1>2. /\ UNCHANGED <<counter, log, emitting, claim, conn, attempt, lastId,
                     partial, tailAt, ended, wire, board, openedAt, torn>>
      /\ conn = "live" /\ ~ended /\ batch = {}
  BY DEF FetchBatch, logVars, hookVars, history
<1>3. /\ Logged(claim)' = Logged(claim) /\ Shown(claim)' = Shown(claim)
      /\ InWire' = InWire
      /\ \A n : Excused(claim, n)' <=> Excused(claim, n)
  BY <1>2 DEF Logged, Entries, Shown, Overtaken, InWire, Excused
<1>4. claim \in Claims
  BY <1>2 DEF StreamInv, ResponseState
<1>5. /\ \A n \in Logged(claim) : n \in Nat
      /\ tailAt \in Nat /\ batch' \subseteq pending
  BY <1>1, <1>4, LoggedNumbers DEF SmallestN
<1>6. \A n \in Logged(claim) : Passed(n)' =>
        n \in Shown(claim) \cup InWire \cup batch' \/ Excused(claim, n)
  <2> SUFFICES ASSUME NEW n \in Logged(claim), Passed(n)'
               PROVE  n \in Shown(claim) \cup InWire \cup batch'
                      \/ Excused(claim, n)
    OBVIOUS
  <2>1. CASE n <= tailAt
    <3>1. Passed(n)
      BY <2>1 DEF Passed
    <3> QED
      BY <1>2, <3>1 DEF Accounted
  <2>2. CASE ~(n <= tailAt)
    <3>1. PICK m \in batch' : n <= m
      BY <1>2, <2>2 DEF Passed
    <3>2. n \in pending /\ \A i \in pending : i \in Nat
      BY <1>1, <1>5, <2>2
    <3>3. n \in SmallestN(pending, BatchSize)
      BY <1>1, <3>1, <3>2, StreamAssumption, SmallestFirst
    <3> QED
      BY <1>1, <3>3
  <2> QED
    BY <2>1, <2>2
<1>7. Accounted'
  <2>1. \A n \in Logged(claim)' : Passed(n)' =>
          \/ n \in Shown(claim)' \cup InWire' \cup batch'
          \/ Excused(claim, n)'
    BY <1>3, <1>6
  <2>2. /\ ~ended' /\ (partial' # "none" => lastId' \in torn')
        /\ lastId' \in Logged(claim)' \cup {openedAt'}
        /\ tailAt' \in Logged(claim)' \cup {openedAt'}
    BY <1>2, <1>3, <1>4 DEF Accounted
  <2> QED
    BY <2>1, <2>2 DEF Accounted
<1>8. OnlyOvertakenSkipped'
  BY <1>2, <1>3 DEF OnlyOvertakenSkipped, Excused
<1>9. QuietEndIsTerminal'
  BY <1>2 DEF QuietEndIsTerminal
<1> QED
  BY <1>7, <1>8, <1>9

\* The frame that is yielded leaves the batch for the wire; after a terminal
\* event what is left of the batch is dropped, and none of it was passed.
LEMMA YieldDelivers ==
  ASSUME DeliveryInv, YieldFrame
  PROVE  Accounted' /\ OnlyOvertakenSkipped' /\ QuietEndIsTerminal'
<1> USE DEF DeliveryInv
<1>1. PICK n \in batch :
        /\ \A m \in batch : n <= m
        /\ tailAt' = n
        /\ wire' = Append(wire, n)
        /\ ended' = IsTerminal(claim, n)
        /\ batch' = IF IsTerminal(claim, n) THEN {} ELSE batch \ {n}
  BY DEF YieldFrame
<1>2. /\ UNCHANGED <<counter, log, emitting, claim, conn, attempt, lastId,
                     partial, board, openedAt, torn>>
      /\ conn = "live" /\ ~ended
  BY DEF YieldFrame, logVars, hookVars, history
<1>3. /\ Logged(claim)' = Logged(claim) /\ Shown(claim)' = Shown(claim)
      /\ \A m : Excused(claim, m)' <=> Excused(claim, m)
      /\ \A m : IsTerminal(claim, m)' <=> IsTerminal(claim, m)
  BY <1>2 DEF Logged, Entries, Shown, Overtaken, IsTerminal, Excused
<1>4. claim \in Claims
  BY <1>2 DEF StreamInv, ResponseState
<1>5. /\ n \in Seqs /\ n \in Logged(claim) /\ tailAt < n
      /\ \A m \in batch : m \in Nat
      /\ tailAt \in Nat /\ \A m \in Logged(claim) : m \in Nat
  BY <1>2, <1>4, LoggedNumbers DEF StreamInv, TypeOK, WireInOrder
<1>6. InWire' = InWire \cup {n}
  <2>1. wire \in Seq(Seqs)
    BY DEF StreamInv, TypeOK
  <2>2. /\ Len(wire) \in Nat /\ Len(wire') = Len(wire) + 1
        /\ \A i \in 1..Len(wire) : wire'[i] = wire[i]
        /\ wire'[Len(wire) + 1] = n
    BY <1>1, <1>5, <2>1, AppendProperties, LenProperties
  <2>3. 1..Len(wire') = 1..Len(wire) \cup {Len(wire) + 1}
    BY <2>2
  <2> QED
    BY <2>2, <2>3 DEF InWire
<1>7. \A m \in Logged(claim) : Passed(m)' =>
        \/ m \in Shown(claim) \cup InWire \cup {n} \cup batch'
        \/ Excused(claim, m)
  <2> SUFFICES ASSUME NEW m \in Logged(claim), Passed(m)'
               PROVE  \/ m \in Shown(claim) \cup InWire \cup {n} \cup batch'
                      \/ Excused(claim, m)
    OBVIOUS
  <2>1. m <= n \/ \E i \in batch' : m <= i
    BY <1>1 DEF Passed
  <2>2. batch' \subseteq batch /\ m \in Nat
    BY <1>1, <1>5
  <2>3. Passed(m)
    BY <2>1, <2>2 DEF Passed
  <2>4. CASE m \in batch
    <3>1. CASE IsTerminal(claim, n)
      <4>1. m <= n /\ n <= m
        BY <1>1, <2>1, <2>4, <3>1
      <4>2. m = n
        BY <1>5, <2>2, <4>1
      <4> QED
        BY <4>2
    <3>2. CASE ~IsTerminal(claim, n)
      BY <1>1, <2>4, <3>2
    <3> QED
      BY <3>1, <3>2
  <2>5. CASE m \notin batch
    BY <1>2, <2>3, <2>5 DEF Accounted
  <2> QED
    BY <2>4, <2>5
<1>8. Accounted'
  <2>1. \A m \in Logged(claim)' : Passed(m)' =>
          \/ m \in Shown(claim)' \cup InWire' \cup batch'
          \/ Excused(claim, m)'
    BY <1>3, <1>6, <1>7
  <2>2. /\ partial' # "none" => lastId' \in torn'
        /\ lastId' \in Logged(claim)' \cup {openedAt'}
        /\ tailAt' \in Logged(claim)' \cup {openedAt'}
    BY <1>1, <1>2, <1>3, <1>4, <1>5 DEF Accounted
  <2>3. ended' => /\ IsTerminal(claim, tailAt)'
                  /\ tailAt' \in Shown(claim)' \cup InWire' \cup torn'
    BY <1>1, <1>2, <1>6 DEF IsTerminal, Entries
  <2> QED
    BY <2>1, <2>2, <2>3 DEF Accounted
<1>9. OnlyOvertakenSkipped'
  BY <1>2, <1>3 DEF OnlyOvertakenSkipped, Excused
<1>10. QuietEndIsTerminal'
  BY <1>2 DEF QuietEndIsTerminal
<1> QED
  BY <1>8, <1>9, <1>10

\* A read moves the frames it completes from the wire to the board, but for
\* one whose data line was read before, and the cursor over them; the frame it
\* ends inside of is torn.
LEMMA ReadDelivers ==
  ASSUME DeliveryInv,
         \E k \in 0..Len(wire), cut \in {"none", "id", "data"} : ReadChunk(k, cut)
  PROVE  Accounted' /\ OnlyOvertakenSkipped' /\ QuietEndIsTerminal'
<1> USE DEF DeliveryInv
<1>1. PICK k \in 0..Len(wire), cut \in {"none", "id", "data"} : ReadChunk(k, cut)
  OBVIOUS
<1>2. PICK first : first = IF partial = "data" THEN 2 ELSE 1
  OBVIOUS
<1>3. PICK chunk : chunk = SubSeq(wire, first, k)
  OBVIOUS
<1>4. /\ conn = "live" /\ claim \in Claims
      /\ UNCHANGED <<counter, log, emitting, claim, conn, tailAt, batch, ended,
                     openedAt>>
      /\ partial' = cut
      /\ torn' = torn \cup (IF cut = "none" THEN {} ELSE {wire[k + 1]})
      /\ cut = "none" => k \in 1..Len(wire)
      /\ cut # "none" => k + 1 \in 1..Len(wire)
      /\ lastId' = IF cut = "none" THEN wire[k] ELSE wire[k + 1]
      /\ chunk \in Seq(Seqs) /\ Len(chunk) = k - first + 1
      /\ \A i \in 1..Len(chunk) : chunk[i] = wire[first + i - 1]
      /\ wire' \in Seq(Seqs) /\ Len(wire') = Len(wire) - k
      /\ \A i \in 1..Len(wire') : wire'[i] = wire[k + i]
      /\ board' = [board EXCEPT ![claim] = @ \o chunk]
  <2>1. Takes(k, cut, first, chunk)
    BY <1>1, <1>2, <1>3, ReadEffect
  <2> QED
    BY <2>1 DEF Takes
<1>5. /\ wire \in Seq(Seqs) /\ Len(wire) \in Nat
      /\ \A i \in 1..Len(wire) : wire[i] \in Seqs
      /\ board \in [Claims -> Seq(Seqs)]
  <2>1. wire \in Seq(Seqs) /\ board \in [Claims -> Seq(Seqs)]
    BY DEF StreamInv, TypeOK
  <2> QED
    BY <2>1, LenProperties, ElementOfSeq
<1>6. k \in Nat /\ k <= Len(wire) /\ first \in {1, 2} /\ Len(chunk) \in Nat
  BY <1>2, <1>4, <1>5, LenProperties
<1>7. /\ \A i, j \in 1..Len(wire) : i < j => wire[i] < wire[j]
      /\ \A i \in 1..Len(wire) : wire[i] \in Logged(claim) /\ wire[i] <= tailAt
      /\ \A m \in batch : tailAt < m
      /\ partial # "none" => wire[1] = lastId /\ lastId \in torn
  BY <1>4 DEF StreamInv, WireInOrder, Accounted
\* The board gains the chunk.
<1>8. /\ Shown(claim) \subseteq Shown(claim)'
      /\ \A i \in 1..Len(chunk) : chunk[i] \in Shown(claim)'
  <2>1. PICK old : old = board[claim]
    OBVIOUS
  <2>2. PICK new : new = old \o chunk
    OBVIOUS
  <2>3. old \in Seq(Seqs) /\ Len(old) \in Nat
    <3>1. old \in Seq(Seqs)
      BY <1>4, <1>5, <2>1
    <3> QED
      BY <3>1, LenProperties
  <2>4. /\ new \in Seq(Seqs) /\ Len(new) = Len(old) + Len(chunk)
        /\ \A i \in 1..(Len(old) + Len(chunk)) :
             new[i] = IF i <= Len(old) THEN old[i] ELSE chunk[i - Len(old)]
    BY <1>4, <2>2, <2>3, ConcatProperties
  <2>5. DOMAIN old = 1..Len(old) /\ DOMAIN new = 1..(Len(old) + Len(chunk))
    BY <2>3, <2>4, LenProperties
  <2>6. board'[claim'] = new
    BY <1>4, <1>5, <2>1, <2>2
  <2>7. /\ Shown(claim) = {old[i] : i \in DOMAIN old}
        /\ Shown(claim)' = {new[i] : i \in DOMAIN new}
    BY <2>1, <2>6 DEF Shown
  <2>8. \A i \in DOMAIN old : i \in DOMAIN new /\ new[i] = old[i]
    BY <1>6, <2>3, <2>4, <2>5
  <2>9. \A i \in 1..Len(chunk) :
          Len(old) + i \in DOMAIN new /\ new[Len(old) + i] = chunk[i]
    <3> SUFFICES ASSUME NEW i \in 1..Len(chunk)
                 PROVE  /\ Len(old) + i \in DOMAIN new
                        /\ new[Len(old) + i] = chunk[i]
      OBVIOUS
    <3>1. /\ Len(old) + i \in 1..(Len(old) + Len(chunk))
          /\ ~(Len(old) + i <= Len(old)) /\ (Len(old) + i) - Len(old) = i
      BY <1>6, <2>3
    <3> QED
      BY <2>4, <2>5, <3>1
  <2> QED
    BY <2>7, <2>8, <2>9
\* A completed frame is in the chunk, or a read has ended inside of it before.
<1>9. \A j \in 1..Len(wire) : j <= k => wire[j] \in Shown(claim)' \cup torn
  <2> SUFFICES ASSUME NEW j \in 1..Len(wire), j <= k
               PROVE  wire[j] \in Shown(claim)' \cup torn
    OBVIOUS
  <2>1. CASE first <= j
    <3>1. PICK i : i = j - first + 1
      OBVIOUS
    <3>2. i \in 1..Len(chunk) /\ first + i - 1 = j
      BY <1>4, <1>5, <1>6, <2>1, <3>1
    <3> QED
      BY <1>4, <1>8, <3>2
  <2>2. CASE ~(first <= j)
    <3>1. j = 1 /\ partial # "none"
      BY <1>2, <1>5, <1>6, <2>2
    <3> QED
      BY <1>7, <3>1
  <2> QED
    BY <2>1, <2>2
<1>10. \A n \in InWire : n \in Shown(claim)' \cup InWire' \cup torn
  <2> SUFFICES ASSUME NEW j \in 1..Len(wire)
               PROVE  wire[j] \in Shown(claim)' \cup InWire' \cup torn
    BY DEF InWire
  <2>1. CASE j <= k
    BY <1>9, <2>1
  <2>2. CASE ~(j <= k)
    <3>1. j - k \in 1..Len(wire') /\ k + (j - k) = j
      BY <1>4, <1>5, <1>6, <2>2
    <3> QED
      BY <1>4, <3>1 DEF InWire
  <2> QED
    BY <2>1, <2>2
<1>11. /\ Logged(claim)' = Logged(claim)
       /\ torn \subseteq torn'
       /\ \A n : Excused(claim, n) => Excused(claim, n)'
       /\ \A n \in torn' : Excused(claim, n)'
       /\ \A n : Passed(n)' <=> Passed(n)
  BY <1>4 DEF Logged, Entries, Overtaken, Passed, Excused
\* The cursor moves to the last line that was read.
<1>12. PICK at \in 1..Len(wire) :
         /\ lastId' = wire[at]
         /\ at = IF cut = "none" THEN k ELSE k + 1
  BY <1>4
<1>13. cut # "none" => wire[at] \in torn'
  BY <1>4, <1>12
<1>14. Accounted'
  <2>1. \A n \in Logged(claim)' : Passed(n)' =>
          \/ n \in Shown(claim)' \cup InWire' \cup batch'
          \/ Excused(claim, n)'
    <3> SUFFICES ASSUME NEW n \in Logged(claim), Passed(n)
                 PROVE  \/ n \in Shown(claim)' \cup InWire' \cup batch'
                        \/ Excused(claim, n)'
      BY <1>11
    <3>1. n \in Shown(claim) \cup InWire \cup batch \/ Excused(claim, n)
      BY <1>4 DEF Accounted
    <3> QED
      BY <1>4, <1>8, <1>10, <1>11, <3>1
  <2>2. /\ partial' # "none" => lastId' \in torn'
        /\ lastId' \in Logged(claim)'
        /\ tailAt' \in Logged(claim)' \cup {openedAt'}
    BY <1>4, <1>7, <1>11, <1>12, <1>13 DEF Accounted
  <2>3. ended' => /\ IsTerminal(claim, tailAt)'
                  /\ tailAt' \in Shown(claim)' \cup InWire' \cup torn'
    <3>1. ended => /\ IsTerminal(claim, tailAt)
                   /\ tailAt \in Shown(claim) \cup InWire \cup torn
      BY <1>4 DEF Accounted
    <3>2. IsTerminal(claim, tailAt)' <=> IsTerminal(claim, tailAt)
      BY <1>4 DEF IsTerminal, Entries
    <3> QED
      BY <1>4, <1>8, <1>10, <1>11, <3>1, <3>2
  <2> QED
    BY <2>1, <2>2, <2>3 DEF Accounted
<1>15. OnlyOvertakenSkipped'
  <2> SUFFICES ASSUME NEW n \in Logged(claim), n \notin Shown(claim)', n <= wire[at]
               PROVE  Excused(claim, n)'
    BY <1>4, <1>11, <1>12 DEF OnlyOvertakenSkipped, Excused
  <2>1. n \in Nat /\ tailAt \in Nat /\ \A m \in batch : m \in Nat
    BY <1>4, LoggedNumbers
  <2>2. wire[at] \in Nat /\ wire[at] <= tailAt
    BY <1>5, <1>7, <1>12 DEF Seqs
  <2>3. Passed(n) /\ n \notin batch
    BY <1>7, <2>1, <2>2 DEF Passed
  <2>4. CASE n \in InWire
    <3>1. PICK j \in 1..Len(wire) : n = wire[j]
      BY <2>4 DEF InWire
    <3>2. j <= at
      <4> SUFFICES ASSUME at < j PROVE FALSE
        BY <1>5, <1>12
      <4>1. wire[at] < wire[j]
        BY <1>7, <1>12
      <4> QED
        BY <2>1, <2>2, <3>1, <4>1
    <3>3. j <= k \/ (cut # "none" /\ j = at)
      BY <1>5, <1>6, <1>12, <3>2
    <3>4. n \in torn'
      BY <1>9, <1>11, <1>13, <3>1, <3>3
    <3> QED
      BY <1>11, <3>4
  <2>5. CASE n \notin InWire
    <3>1. Excused(claim, n)
      BY <1>4, <1>8, <2>3, <2>5 DEF Accounted
    <3> QED
      BY <1>11, <3>1
  <2> QED
    BY <2>4, <2>5
<1>16. QuietEndIsTerminal'
  BY <1>4 DEF QuietEndIsTerminal
<1> QED
  BY <1>14, <1>15, <1>16

\* A claim is opened with the cursor the page has; a response that ends or
\* fails leaves the cursor where it was.
LEMMA PageDelivers ==
  ASSUME DeliveryInv,
         \/ \E c \in Claims : OpenClaim(c)
         \/ BackoffOver \/ EndOfStream \/ ConnectionFails
  PROVE  Accounted' /\ OnlyOvertakenSkipped' /\ QuietEndIsTerminal'
<1> USE DEF DeliveryInv
<1>1. UNCHANGED <<counter, log, emitting, lastId, board>>
  BY DEF OpenClaim, BackoffOver, EndOfStream, ConnectionFails, logVars
<1>2. \A c : Logged(c)' = Logged(c) /\ Shown(c)' = Shown(c)
  BY <1>1 DEF Logged, Entries, Shown
<1>3. CASE \E c \in Claims : OpenClaim(c)
  <2>1. PICK c \in Claims : OpenClaim(c)
    BY <1>3
  <2>2. /\ claim' = c /\ conn' = "connecting" /\ partial' = "none"
        /\ openedAt' = lastId
    BY <2>1 DEF OpenClaim, CloseResponse
  <2>3. Accounted' /\ QuietEndIsTerminal'
    BY <1>1, <2>2 DEF Accounted, QuietEndIsTerminal
  <2>4. OnlyOvertakenSkipped'
    BY <1>1, <2>2 DEF OnlyOvertakenSkipped
  <2> QED
    BY <2>3, <2>4
<1>4. CASE BackoffOver \/ EndOfStream \/ ConnectionFails
  <2>1. /\ UNCHANGED <<claim, openedAt, torn>>
        /\ partial' = "none" \/ partial' = partial
        /\ conn' \in {"connecting", "waiting", "offline"}
    BY <1>4 DEF BackoffOver, EndOfStream, ConnectionFails, CloseResponse, history
  <2>2. Logged(claim)' = Logged(claim)
    BY <1>1, <2>1 DEF Logged, Entries
  <2>3. Accounted'
    BY <1>1, <2>1, <2>2 DEF Accounted
  <2>4. OnlyOvertakenSkipped'
    BY <1>1, <1>2, <2>1 DEF OnlyOvertakenSkipped, Overtaken
  <2>5. QuietEndIsTerminal'
    <3>1. CASE BackoffOver
      BY <3>1 DEF BackoffOver, QuietEndIsTerminal
    <3>2. CASE ConnectionFails
      <4>1. attempt' # 0
        BY <3>2 DEF ConnectionFails, StreamInv, TypeOK
      <4> QED
        BY <4>1 DEF QuietEndIsTerminal
    <3>3. CASE EndOfStream
      <4>1. conn = "live" /\ ended /\ wire = <<>>
        BY <3>3 DEF EndOfStream
      <4>2. InWire = {}
        BY <4>1, EmptySeq DEF InWire
      <4>3. tailAt \in Shown(claim) \cup torn /\ IsTerminal(claim, tailAt)
        BY <4>1, <4>2 DEF Accounted
      <4>4. /\ Shown(claim)' = Shown(claim) /\ torn' = torn
            /\ \A n : IsTerminal(claim, n)' <=> IsTerminal(claim, n)
        BY <1>1, <2>1 DEF Shown, IsTerminal, Entries
      <4> QED
        BY <4>3, <4>4 DEF QuietEndIsTerminal
    <3> QED
      BY <1>4, <3>1, <3>2, <3>3
  <2> QED
    BY <2>3, <2>4, <2>5
<1> QED
  BY <1>3, <1>4

LEMMA DeliveryNext == DeliveryInv /\ [Next]_vars => DeliveryInv'
<1> SUFFICES ASSUME DeliveryInv, [Next]_vars PROVE DeliveryInv'
  OBVIOUS
<1>1. StreamInv'
  BY StreamNext DEF DeliveryInv
<1>2. SUFFICES Accounted' /\ OnlyOvertakenSkipped' /\ QuietEndIsTerminal'
  BY <1>1 DEF DeliveryInv
<1>3. CASE \E e \in Emitters : EmitterStep(e)
  BY <1>3, EmitterDelivers
<1>4. CASE \E c \in Claims : OpenClaim(c)
  BY <1>4, PageDelivers
<1>5. CASE BackoffOver \/ EndOfStream \/ ConnectionFails
  BY <1>5, PageDelivers
<1>6. CASE Connect
  BY <1>6, ConnectDelivers
<1>7. CASE FetchBatch
  BY <1>7, FetchDelivers
<1>8. CASE YieldFrame
  BY <1>8, YieldDelivers
<1>9. CASE \E k \in 0..Len(wire), cut \in {"none", "id", "data"} : ReadChunk(k, cut)
  BY <1>9, ReadDelivers
<1>10. CASE UNCHANGED vars
  <2>1. UNCHANGED <<counter, log, emitting, claim, conn, attempt, lastId,
                    partial, tailAt, batch, ended, wire, board, openedAt, torn>>
    BY <1>10 DEF vars, logVars, tailVars, hookVars, history
  <2>2. /\ Logged(claim)' = Logged(claim) /\ Shown(claim)' = Shown(claim)
        /\ InWire' = InWire
        /\ \A n : Excused(claim, n)' <=> Excused(claim, n)
        /\ \A n : IsTerminal(claim, n)' <=> IsTerminal(claim, n)
        /\ \A n : Passed(n)' <=> Passed(n)
    BY <2>1 DEF Logged, Entries, Shown, InWire, Overtaken, Excused, IsTerminal,
                Passed
  <2>3. Accounted'
    BY <2>1, <2>2 DEF Accounted, IsTerminal, Entries, DeliveryInv
  <2>4. OnlyOvertakenSkipped' /\ QuietEndIsTerminal'
    BY <2>1, <2>2 DEF OnlyOvertakenSkipped, QuietEndIsTerminal, DeliveryInv, Excused
  <2> QED
    BY <2>3, <2>4
<1> QED
  BY <1>3, <1>4, <1>5, <1>6, <1>7, <1>8, <1>9, <1>10 DEF Next, StreamStep

\* Every event a tail has passed is accounted for, for any number of claims
\* shown on the page and wherever the reads end.
THEOREM DeliveryInvariant == Spec => []DeliveryInv
  BY DeliveryInit, DeliveryNext, PTL DEF Spec

\* A client goes past no event of its claim but one that was inserted after a
\* higher number (emit_event takes the number and inserts in two calls), one at
\* or below the cursor the hook kept from the claim shown before, or one whose
\* frame a read ended inside of, whatever connections drop, emitters die and
\* batches split (tail_claim_events and usePipelineEvents.js).
THEOREM OnlyOvertakenEverSkipped == Spec => []OnlyOvertakenSkipped
<1>1. DeliveryInv => OnlyOvertakenSkipped
  BY DEF DeliveryInv
<1> QED
  BY <1>1, DeliveryInvariant, PTL

\* The hook calls the stream over, with no failure to blame, only after the
\* board was given a terminal event of this claim, or a read ended inside the
\* frame of one (usePipelineEvents.js).
THEOREM QuietEndAlwaysTerminal == Spec => []QuietEndIsTerminal
<1>1. DeliveryInv => QuietEndIsTerminal
  BY DEF DeliveryInv
<1> QED
  BY <1>1, DeliveryInvariant, PTL
================================================================================
