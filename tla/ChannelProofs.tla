---------------------------- MODULE ChannelProofs ----------------------------
(***************************************************************************)
(* Theorems about ChannelDelivery, for any events, messages and bounds:    *)
(* the types; an event is in one pair of hands at a time; the bookkeeping  *)
(* keeps the promise of DeliveryPromise; dead letters have really failed.  *)
(***************************************************************************)
EXTENDS ChannelDelivery, SequenceTheorems, FiniteSetTheorems, TLAPS

TurnRec == [msg : Messages, keyed : BOOLEAN, replied : BOOLEAN,
            posted : [1..Segments -> Nat], excused : [1..Segments -> Nat]]

RowRec == [proc : ProcStatuses, deliv : DelivStatuses, payload : BOOLEAN,
           message : Nat, reply : Nat, segs : 0..Segments,
           procTries : 0..MaxAttempts, delivTries : 0..MaxAttempts, old : BOOLEAN]

RowTable == [Events -> RowRec]

\* A worker before its turn has returned.
Pre == {"start", "turn", "command", "replied", "returned"}

WorkerRec == [at : Pre \cup {"idle", "marking", "deliver", "sent"},
              ev : Events \cup {None}, user : Nat, reply : Nat,
              dedup : BOOLEAN, fresh : BOOLEAN, seg : 0..Segments]

-----------------------------------------------------------------------------
(* The inductive invariant, in parts.                                      *)

TypeInv ==
    /\ source \in Sources
    /\ turns \in Seq(TurnRec)
    /\ row \in RowTable
    /\ handler \in [Events -> {"none", "recorded", "stored"}]
    /\ queue \in Seq(Events)
    /\ worker \in [Workers -> WorkerRec]
    /\ batch \in [proc : SUBSET Events, deliv : SUBSET Events,
                  segs : [Events -> 0..Segments]]
    /\ lock \in {"free", "other"} \cup Workers
    /\ recovery \subseteq {"orphaned", "stranded"}
    /\ failures \in [Events -> Nat]

\* Message ids name rows of the conversation; a segment being sent exists.
BoundInv ==
    /\ \A e \in Events : row[e].message <= Len(turns) /\ row[e].reply <= Len(turns)
    /\ \A w \in Workers : /\ worker[w].user <= Len(turns) /\ worker[w].reply <= Len(turns)
                          /\ worker[w].at = "sent" => worker[w].seg < Segments

\* What a row says while the HTTP handler or the sweep's lists have the event.
RowInv ==
    \A e \in Events :
        /\ row[e].proc # "processed" => row[e].deliv = "pending" /\ row[e].segs = 0
        /\ row[e].proc \in {"absent", "pending", "failed"} => row[e].procTries < MaxAttempts
        /\ row[e].deliv \in {"pending", "failed"} => row[e].delivTries < MaxAttempts
        /\ row[e].proc = "absent" => ~row[e].old
        /\ handler[e] # "none" => row[e].proc = "pending" /\ ~row[e].old
        /\ e \in batch.proc => row[e].proc = "failed"
        /\ e \in batch.deliv => row[e].proc = "processed" /\ row[e].deliv = "failed"

\* The admission queue holds each event once, and no handler has it any more.
QueueInv ==
    /\ \A k \in DOMAIN queue : /\ handler[queue[k]] = "none"
                               /\ row[queue[k]].proc = "pending" /\ ~row[queue[k]].old
    /\ \A j, k \in DOMAIN queue : queue[j] = queue[k] => j = k

\* The live flight works on an event of this boot that nobody else has.
LiveInv ==
    LET v == worker["live"] IN
    v.at # "idle" =>
        /\ v.ev \in Events /\ ~row[v.ev].old
        /\ v.at \in Pre \cup {"marking"} => /\ row[v.ev].proc = "pending"
                                            /\ handler[v.ev] = "none"
                                            /\ \A k \in DOMAIN queue : queue[k] # v.ev
        /\ v.at \in {"deliver", "sent"} => /\ row[v.ev].proc = "processed"
                                           /\ row[v.ev].deliv = "pending"

\* The sweep works on an event it has taken off its lists.
SweepInv ==
    LET v == worker["sweep"] IN
    v.at # "idle" =>
        /\ v.ev \in Events /\ v.ev \notin batch.proc /\ v.ev \notin batch.deliv
        /\ v.at \in Pre => row[v.ev].proc = "failed"
        /\ v.at \in {"marking", "deliver", "sent"} =>
              row[v.ev].proc = "processed" /\ row[v.ev].deliv \in {"pending", "failed"}

\* The workers keep apart: in their events, in their bookkeeping, and in the
\* conversation's processing flag.
ApartInv ==
    /\ worker["live"].at # "idle" /\ worker["sweep"].at # "idle" =>
          worker["live"].ev # worker["sweep"].ev
    /\ ~(worker["live"].at = "marking" /\ worker["sweep"].at = "marking")
    /\ \A w \in Workers : worker[w].at \in {"turn", "replied"} <=> lock = w

PhaseInv == RowInv /\ QueueInv /\ LiveInv /\ SweepInv /\ ApartInv

-----------------------------------------------------------------------------
(* Tables.                                                                 *)

LEMMA FunctionIsSeq ==
    ASSUME NEW S, NEW n \in Nat, NEW f \in [1..n -> S]
    PROVE  f \in Seq(S) /\ Len(f) = n
  BY SeqDef

LEMMA RowWrite ==
    ASSUME NEW r \in RowTable, NEW e \in Events, NEW new \in RowRec
    PROVE  /\ [r EXCEPT ![e] = new] \in RowTable
           /\ [r EXCEPT ![e] = new][e] = new
           /\ \A d \in Events : d # e => [r EXCEPT ![e] = new][d] = r[d]
  BY DEF RowTable

LEMMA WorkerWrite ==
    ASSUME TypeInv, NEW w \in Workers, NEW v \in WorkerRec, worker' = [worker EXCEPT ![w] = v]
    PROVE  /\ worker' \in [Workers -> WorkerRec]
           /\ worker'[w] = v
           /\ \A x \in Workers : x # w => worker'[x] = worker[x]
  BY DEF TypeInv

LEMMA RowFields ==
    ASSUME NEW r \in RowRec
    PROVE  /\ r.proc \in ProcStatuses /\ r.deliv \in DelivStatuses
           /\ r.message \in Nat /\ r.reply \in Nat /\ r.segs \in 0..Segments
           /\ r.procTries \in 0..MaxAttempts /\ r.delivTries \in 0..MaxAttempts
           /\ \A p \in ProcStatuses : /\ [r EXCEPT !.proc = p] \in RowRec
           /\ \A p \in DelivStatuses : [r EXCEPT !.deliv = p] \in RowRec
           /\ \A n \in Nat : [r EXCEPT !.message = n] \in RowRec
           /\ \A n \in Nat : [r EXCEPT !.reply = n] \in RowRec
           /\ \A n \in 0..Segments : [r EXCEPT !.segs = n] \in RowRec
           /\ \A n \in 0..MaxAttempts : [r EXCEPT !.procTries = n] \in RowRec
           /\ \A n \in 0..MaxAttempts : [r EXCEPT !.delivTries = n] \in RowRec
           /\ [r EXCEPT !.payload = TRUE] \in RowRec
           /\ [r EXCEPT !.payload = FALSE] \in RowRec
           /\ [r EXCEPT !.old = TRUE] \in RowRec
           /\ [r EXCEPT !.old = FALSE] \in RowRec
  BY DEF RowRec

\* A statement writes one row.
Only(r, new, e) == new \in RowTable /\ \A d \in Events : d # e => new[d] = r[d]

LEMMA WriteOne ==
    ASSUME NEW r \in RowTable, NEW e \in Events, NEW new \in RowRec
    PROVE  Only(r, [r EXCEPT ![e] = new], e) /\ [r EXCEPT ![e] = new][e] = new
  BY RowWrite DEF Only

LEMMA MarkProcessedFacts ==
    ASSUME NEW r \in RowTable, NEW e \in Events
    PROVE  /\ Only(r, MarkProcessed(r, e), e)
           /\ MarkProcessed(r, e)[e] = [r[e] EXCEPT !.proc = "processed"]
  <1> DEFINE new == [r[e] EXCEPT !.proc = "processed"]
  <1>1. r[e] \in RowRec /\ "processed" \in ProcStatuses
    BY DEF RowTable, ProcStatuses
  <1>2. new \in RowRec
    BY <1>1, RowFields
  <1>3. MarkProcessed(r, e) = [r EXCEPT ![e] = new]
    BY DEF MarkProcessed
  <1> HIDE DEF new
  <1>4. Only(r, [r EXCEPT ![e] = new], e) /\ [r EXCEPT ![e] = new][e] = new
    BY <1>2, WriteOne
  <1>5. QED BY <1>3, <1>4 DEF new

LEMMA MarkDeliveryDeliveredFacts ==
    ASSUME NEW r \in RowTable, NEW e \in Events
    PROVE  /\ Only(r, MarkDeliveryDelivered(r, e), e)
           /\ MarkDeliveryDelivered(r, e)[e] = [r[e] EXCEPT !.deliv = "delivered"]
  <1> DEFINE new == [r[e] EXCEPT !.deliv = "delivered"]
  <1>1. r[e] \in RowRec /\ "delivered" \in DelivStatuses
    BY DEF RowTable, DelivStatuses
  <1>2. new \in RowRec
    BY <1>1, RowFields
  <1>3. MarkDeliveryDelivered(r, e) = [r EXCEPT ![e] = new]
    BY DEF MarkDeliveryDelivered
  <1> HIDE DEF new
  <1>4. Only(r, [r EXCEPT ![e] = new], e) /\ [r EXCEPT ![e] = new][e] = new
    BY <1>2, WriteOne
  <1>5. QED BY <1>3, <1>4 DEF new

LEMMA LinkMessageFacts ==
    ASSUME NEW r \in RowTable, NEW e \in Events, NEW id \in Nat
    PROVE  /\ Only(r, LinkMessage(r, e, id), e)
           /\ LinkMessage(r, e, id)[e] = [r[e] EXCEPT !.message = id]
  <1> DEFINE new == [r[e] EXCEPT !.message = id]
  <1>1. r[e] \in RowRec
    BY DEF RowTable
  <1>2. new \in RowRec
    BY <1>1, RowFields
  <1>3. LinkMessage(r, e, id) = [r EXCEPT ![e] = new]
    BY DEF LinkMessage
  <1> HIDE DEF new
  <1>4. Only(r, [r EXCEPT ![e] = new], e) /\ [r EXCEPT ![e] = new][e] = new
    BY <1>2, WriteOne
  <1>5. QED BY <1>3, <1>4 DEF new

LEMMA StoreReplyFacts ==
    ASSUME NEW r \in RowTable, NEW e \in Events, NEW id \in Nat
    PROVE  /\ Only(r, StoreReplyMessageId(r, e, id), e)
           /\ StoreReplyMessageId(r, e, id)[e] =
                 [r[e] EXCEPT !.reply = IF id = None THEN r[e].reply ELSE id]
  <1>1. r[e] \in RowRec
    BY DEF RowTable
  <1>2. [r[e] EXCEPT !.reply = id] \in RowRec
    BY <1>1, RowFields
  <1>3. CASE id = None
    <2>1. r[e] = [r[e] EXCEPT !.reply = r[e].reply]
      BY <1>1 DEF RowRec
    <2>2. QED BY <1>3, <2>1 DEF StoreReplyMessageId, Only
  <1>4. CASE id # None
    <2> DEFINE new == [r[e] EXCEPT !.reply = id]
    <2>1. StoreReplyMessageId(r, e, id) = [r EXCEPT ![e] = new]
      BY <1>4 DEF StoreReplyMessageId
    <2> HIDE DEF new
    <2>2. Only(r, [r EXCEPT ![e] = new], e) /\ [r EXCEPT ![e] = new][e] = new
      BY <1>2, WriteOne DEF new
    <2>3. QED BY <1>4, <2>1, <2>2 DEF new
  <1>5. QED BY <1>3, <1>4

LEMMA ProcessingFailureFacts ==
    ASSUME NEW r \in RowTable, NEW e \in Events, NEW fatal \in BOOLEAN,
           r[e].procTries < MaxAttempts
    PROVE  /\ Only(r, RecordProcessingFailure(r, e, fatal), e)
           /\ \E p \in {"failed", "dead_letter"} :
                 /\ RecordProcessingFailure(r, e, fatal)[e] =
                       [r[e] EXCEPT !.procTries = r[e].procTries + 1, !.proc = p]
                 /\ p = "failed" => ~fatal /\ r[e].procTries + 1 < MaxAttempts
                 /\ p = "dead_letter" => fatal \/ r[e].procTries + 1 >= MaxAttempts
  <1> DEFINE n == r[e].procTries + 1
             p == IF fatal \/ n >= MaxAttempts THEN "dead_letter" ELSE "failed"
             new == [r[e] EXCEPT !.procTries = n, !.proc = p]
  <1>1. r[e] \in RowRec /\ r[e].procTries \in 0..MaxAttempts /\ MaxAttempts \in Nat
    BY RowFields, ChannelConstants DEF RowTable
  <1>2. n \in 0..MaxAttempts
    BY <1>1
  <1>3. p \in ProcStatuses /\ p \in {"failed", "dead_letter"}
    BY DEF ProcStatuses
  <1>4. p = "failed" => ~fatal /\ n < MaxAttempts
    BY <1>1
  <1>5. p = "dead_letter" => fatal \/ n >= MaxAttempts
    OBVIOUS
  <1>6. RecordProcessingFailure(r, e, fatal) = [r EXCEPT ![e] = new]
    BY DEF RecordProcessingFailure
  <1> HIDE DEF n, p
  <1>7. new \in RowRec
    BY <1>1, <1>2, <1>3 DEF RowRec
  <1> HIDE DEF new
  <1>8. Only(r, [r EXCEPT ![e] = new], e) /\ [r EXCEPT ![e] = new][e] = new
    BY <1>7, RowWrite DEF Only
  <1>9. QED BY <1>3, <1>4, <1>5, <1>6, <1>8 DEF new, n

LEMMA DeliveryFailureFacts ==
    ASSUME NEW r \in RowTable, NEW e \in Events, NEW fatal \in BOOLEAN,
           r[e].delivTries < MaxAttempts
    PROVE  /\ Only(r, RecordDeliveryFailure(r, e, fatal), e)
           /\ \E p \in {"failed", "dead_letter"} :
                 /\ RecordDeliveryFailure(r, e, fatal)[e] =
                       [r[e] EXCEPT !.delivTries = r[e].delivTries + 1, !.deliv = p]
                 /\ p = "failed" => ~fatal /\ r[e].delivTries + 1 < MaxAttempts
  <1> DEFINE n == r[e].delivTries + 1
             p == IF fatal \/ n >= MaxAttempts THEN "dead_letter" ELSE "failed"
             new == [r[e] EXCEPT !.delivTries = n, !.deliv = p]
  <1>1. r[e] \in RowRec /\ r[e].delivTries \in 0..MaxAttempts /\ MaxAttempts \in Nat
    BY RowFields, ChannelConstants DEF RowTable
  <1>2. n \in 0..MaxAttempts
    BY <1>1
  <1>3. p \in DelivStatuses /\ p \in {"failed", "dead_letter"}
    BY DEF DelivStatuses
  <1>4. p = "failed" => ~fatal /\ n < MaxAttempts
    BY <1>1
  <1>5. RecordDeliveryFailure(r, e, fatal) = [r EXCEPT ![e] = new]
    BY DEF RecordDeliveryFailure
  <1> HIDE DEF n, p
  <1>6. new \in RowRec
    BY <1>1, <1>2, <1>3 DEF RowRec
  <1> HIDE DEF new
  <1>7. Only(r, [r EXCEPT ![e] = new], e) /\ [r EXCEPT ![e] = new][e] = new
    BY <1>6, RowWrite DEF Only
  <1>8. QED BY <1>3, <1>4, <1>5, <1>7 DEF new, n

LEMMA DeferFacts ==
    ASSUME NEW r \in RowTable, NEW e \in Events
    PROVE  /\ Only(r, DeferRetryUntilIdle(r, e), e)
           /\ DeferRetryUntilIdle(r, e)[e] = [r[e] EXCEPT !.proc = "failed"]
  <1> DEFINE new == [r[e] EXCEPT !.proc = "failed"]
  <1>1. r[e] \in RowRec /\ "failed" \in ProcStatuses
    BY DEF RowTable, ProcStatuses
  <1>2. new \in RowRec
    BY <1>1, RowFields
  <1>3. DeferRetryUntilIdle(r, e) = [r EXCEPT ![e] = new]
    BY DEF DeferRetryUntilIdle
  <1> HIDE DEF new
  <1>4. Only(r, [r EXCEPT ![e] = new], e) /\ [r EXCEPT ![e] = new][e] = new
    BY <1>2, WriteOne
  <1>5. QED BY <1>3, <1>4 DEF new

-----------------------------------------------------------------------------
(* What the actions do, row by row and worker by worker.                   *)

Writes(e, new) == Only(row, row', e) /\ row'[e] = new

Moves(w, v) == /\ worker' \in [Workers -> WorkerRec]
               /\ worker'[w] = v
               /\ \A x \in Workers : x # w => worker'[x] = worker[x]

LEMMA RowBecomes ==
    ASSUME TypeInv, NEW e \in Events, NEW new \in RowRec, row' = [row EXCEPT ![e] = new]
    PROVE  Writes(e, new)
  <1>1. Only(row, [row EXCEPT ![e] = new], e) /\ [row EXCEPT ![e] = new][e] = new
    BY WriteOne DEF TypeInv
  <1>2. QED BY <1>1 DEF Writes

LEMMA MovesTo ==
    ASSUME TypeInv, NEW w \in Workers, NEW v \in WorkerRec
    PROVE  worker' = [worker EXCEPT ![w] = v] => Moves(w, v)
  BY WorkerWrite DEF Moves

LEMMA RestingFacts ==
    /\ Resting \in WorkerRec /\ Resting.at = "idle"
    /\ Resting.user = None /\ Resting.reply = None
    /\ \A e \in Events : /\ [Resting EXCEPT !.at = "start", !.ev = e] \in WorkerRec
                         /\ [Resting EXCEPT !.at = "start", !.ev = e].at = "start"
                         /\ [Resting EXCEPT !.at = "start", !.ev = e].ev = e
  <1>1. /\ Resting.at = "idle" /\ Resting.user = None /\ Resting.reply = None
    BY DEF Resting
  <1>2. None \in Nat /\ 0 \in 0..Segments
    BY ChannelConstants DEF None
  <1>3. Resting \in WorkerRec
    BY <1>2 DEF Resting, WorkerRec
  <1>4. \A e \in Events : /\ [Resting EXCEPT !.at = "start", !.ev = e] \in WorkerRec
                         /\ [Resting EXCEPT !.at = "start", !.ev = e].at = "start"
                         /\ [Resting EXCEPT !.at = "start", !.ev = e].ev = e
    BY <1>3 DEF WorkerRec, Pre
  <1>5. QED BY <1>1, <1>3, <1>4

LEMMA RestingZero == Resting.user = 0 /\ Resting.reply = 0 /\ Resting.at = "idle"
  BY DEF Resting, None

LEMMA RestFacts ==
    ASSUME TypeInv, NEW w \in Workers, Rest(w)
    PROVE  Moves(w, Resting)
  BY MovesTo, RestingFacts DEF Rest

\* A busy worker has an event, and what its row says.
LEMMA Busy ==
    ASSUME TypeInv, PhaseInv, NEW w \in Workers, worker[w].at # "idle"
    PROVE  LET e == worker[w].ev IN
           /\ worker[w] \in WorkerRec /\ e \in Events /\ row[e] \in RowRec
           /\ worker[w].at \in Pre => /\ row[e].proc \in {"pending", "failed"}
                                      /\ row[e].procTries < MaxAttempts
           /\ worker[w].at \in {"deliver", "sent"} =>
                 /\ row[e].proc = "processed" /\ row[e].deliv \in {"pending", "failed"}
                 /\ row[e].delivTries < MaxAttempts
  <1>1. worker[w] \in WorkerRec
    BY DEF TypeInv
  <1>2. CASE w = "live"
    BY <1>1, <1>2 DEF PhaseInv, LiveInv, RowInv, TypeInv, RowTable
  <1>3. CASE w = "sweep"
    BY <1>1, <1>3 DEF PhaseInv, SweepInv, RowInv, TypeInv, RowTable
  <1>4. QED
    BY <1>2, <1>3 DEF Workers

LEMMA WorkerFields ==
    ASSUME NEW v \in WorkerRec
    PROVE  /\ v.user \in Nat /\ v.reply \in Nat /\ v.seg \in 0..Segments
           /\ v.at \in Pre \cup {"idle", "marking", "deliver", "sent"}
           /\ v.dedup \in BOOLEAN /\ v.fresh \in BOOLEAN
           /\ \A at \in Pre \cup {"idle", "marking", "deliver", "sent"} :
                 /\ [v EXCEPT !.at = at] \in WorkerRec
                 /\ \A n \in Nat : /\ [v EXCEPT !.at = at, !.user = n] \in WorkerRec
                                   /\ [v EXCEPT !.at = at, !.reply = n] \in WorkerRec
                                   /\ [v EXCEPT !.at = at, !.user = n, !.dedup = TRUE] \in WorkerRec
                 /\ \A n \in 0..Segments : [v EXCEPT !.at = at, !.seg = n] \in WorkerRec
           /\ [v EXCEPT !.fresh = TRUE] \in WorkerRec
  BY DEF WorkerRec

LEMMA HitBusyFacts ==
    ASSUME TypeInv, PhaseInv, NEW w \in Workers, HitBusy(w)
    PROVE  LET e == worker[w].ev IN
           Writes(e, [row[e] EXCEPT !.proc = "failed"]) /\ Moves(w, Resting)
  <1>1. worker[w].ev \in Events /\ row \in RowTable
    BY Busy DEF HitBusy, TypeInv
  <1>2. QED
    BY <1>1, DeferFacts, RestFacts DEF HitBusy, Writes

LEMMA FailsFacts ==
    ASSUME TypeInv, PhaseInv, NEW w \in Workers, NEW fatal \in BOOLEAN,
           worker[w].at \in Pre, Fails(w, fatal)
    PROVE  LET e == worker[w].ev IN
           /\ \E p \in {"failed", "dead_letter"} :
                 /\ Writes(e, [row[e] EXCEPT !.procTries = row[e].procTries + 1, !.proc = p])
                 /\ p = "failed" => ~fatal /\ row[e].procTries + 1 < MaxAttempts
                 /\ p = "dead_letter" => fatal \/ row[e].procTries + 1 >= MaxAttempts
           /\ Moves(w, Resting)
           /\ failures' = [failures EXCEPT ![e] = IF fatal THEN MaxAttempts ELSE failures[e] + 1]
  <1>1. /\ worker[w].ev \in Events /\ row \in RowTable
        /\ row[worker[w].ev].procTries < MaxAttempts
    BY Busy DEF TypeInv, Pre
  <1>2. Moves(w, Resting)
    BY RestFacts DEF Fails
  <1>3. row' = RecordProcessingFailure(row, worker[w].ev, fatal)
    BY DEF Fails
  <1>4. failures' = [failures EXCEPT ![worker[w].ev] = IF fatal THEN MaxAttempts
                                                     ELSE failures[worker[w].ev] + 1]
    BY DEF Fails
  <1>5. /\ Only(row, row', worker[w].ev)
        /\ \E p \in {"failed", "dead_letter"} :
              /\ row'[worker[w].ev] = [row[worker[w].ev] EXCEPT
                     !.procTries = row[worker[w].ev].procTries + 1, !.proc = p]
              /\ p = "failed" => ~fatal /\ row[worker[w].ev].procTries + 1 < MaxAttempts
              /\ p = "dead_letter" => fatal \/ row[worker[w].ev].procTries + 1 >= MaxAttempts
    BY <1>1, <1>3, ProcessingFailureFacts
  <1>6. QED
    BY <1>2, <1>4, <1>5 DEF Writes

LEMMA DeduplicateFacts ==
    ASSUME TypeInv, PhaseInv, NEW w \in Workers, Deduplicate(w)
    PROVE  /\ lock = "free" /\ worker[w].at = "start" /\ ~worker[w].fresh
           /\ \E id \in KeyedRow(source[worker[w].ev]) :
                 \/ MustRerun(w, id) /\ Moves(w, [worker[w] EXCEPT !.fresh = TRUE])
                 \/ /\ ~MustRerun(w, id)
                    /\ Moves(w, [worker[w] EXCEPT !.at = "returned", !.user = id, !.dedup = TRUE])
  <1>1. worker[w] \in WorkerRec
    BY DEF TypeInv
  <1>2. PICK id \in KeyedRow(source[worker[w].ev]) :
           worker' = [worker EXCEPT ![w] =
                        IF MustRerun(w, id)
                        THEN [worker[w] EXCEPT !.fresh = TRUE]
                        ELSE [worker[w] EXCEPT !.at = "returned", !.user = id, !.dedup = TRUE]]
    BY DEF Deduplicate
  <1>3. id \in Nat
    BY DEF KeyedRow, Rows
  <1> DEFINE again == [worker[w] EXCEPT !.fresh = TRUE]
             found == [worker[w] EXCEPT !.at = "returned", !.user = id, !.dedup = TRUE]
  <1>4. again \in WorkerRec /\ found \in WorkerRec
    BY <1>1, <1>3, WorkerFields DEF Pre
  <1>5. \/ MustRerun(w, id) /\ worker' = [worker EXCEPT ![w] = again]
        \/ ~MustRerun(w, id) /\ worker' = [worker EXCEPT ![w] = found]
    BY <1>2
  <1> HIDE DEF again, found
  <1>6. \/ MustRerun(w, id) /\ Moves(w, again)
        \/ ~MustRerun(w, id) /\ Moves(w, found)
    <2>1. CASE MustRerun(w, id)
      BY <1>4, <1>5, <2>1, MovesTo
    <2>2. CASE ~MustRerun(w, id)
      BY <1>4, <1>5, <2>2, MovesTo
    <2>3. QED BY <2>1, <2>2
  <1>7. QED
    BY <1>6 DEF Deduplicate, again, found

\* A user row is written, and the worker goes on to its turn or command.
Begins(w, key, at) ==
    /\ turns' = Append(turns, UserRow(source[worker[w].ev], key))
    /\ worker' = [worker EXCEPT ![w].at = at, ![w].user = Len(turns) + 1]

LEMMA BeginFacts ==
    ASSUME TypeInv, NEW w \in Workers, worker[w].ev \in Events, NEW key \in BOOLEAN,
           NEW at \in {"turn", "command"}, Begins(w, key, at)
    PROVE  /\ turns' \in Seq(TurnRec) /\ Len(turns') = Len(turns) + 1
           /\ \A i \in Rows : turns'[i] = turns[i]
           /\ turns'[Len(turns) + 1] = UserRow(source[worker[w].ev], key)
           /\ Moves(w, [worker[w] EXCEPT !.at = at, !.user = Len(turns) + 1])
  <1> DEFINE new == UserRow(source[worker[w].ev], key)
             v == [worker[w] EXCEPT !.at = at, !.user = Len(turns) + 1]
  <1>1. worker[w] \in WorkerRec /\ turns \in Seq(TurnRec) /\ turns' = Append(turns, new)
    BY DEF TypeInv, Begins
  <1>2. new \in TurnRec
    <2>1. source[worker[w].ev] \in Messages
      BY ChannelConstants DEF TypeInv
    <2>2. [s \in 1..Segments |-> 0] \in [1..Segments -> Nat]
      OBVIOUS
    <2>3. QED BY <2>1, <2>2 DEF TurnRec, UserRow
  <1>3. v \in WorkerRec
    <2>1. Len(turns) + 1 \in Nat /\ at \in Pre
      BY <1>1 DEF Pre
    <2>2. QED BY <1>1, <2>1, WorkerFields
  <1>4. worker' = [worker EXCEPT ![w] = v]
    BY DEF Begins
  <1> HIDE DEF new, v
  <1>5. Moves(w, v)
    BY <1>3, <1>4, MovesTo
  <1>6. /\ turns' \in Seq(TurnRec) /\ Len(turns') = Len(turns) + 1
        /\ \A i \in Rows : turns'[i] = turns[i]
        /\ turns'[Len(turns) + 1] = new
    BY <1>1, <1>2 DEF Rows
  <1>7. QED BY <1>5, <1>6 DEF new, v

LEMMA StartTurnFacts ==
    ASSUME TypeInv, PhaseInv, NEW w \in Workers, StartTurn(w)
    PROVE  /\ turns' \in Seq(TurnRec) /\ Len(turns') = Len(turns) + 1
           /\ \A i \in Rows : turns'[i] = turns[i]
           /\ turns'[Len(turns) + 1] = UserRow(source[worker[w].ev], CarriesKey(w))
           /\ Moves(w, [worker[w] EXCEPT !.at = "turn", !.user = Len(turns) + 1])
  <1>1. worker[w].ev \in Events
    BY Busy DEF StartTurn
  <1>2. CarriesKey(w) \in BOOLEAN
    BY DEF CarriesKey
  <1>3. Begins(w, CarriesKey(w), "turn")
    BY DEF Begins, StartTurn
  <1>4. QED BY <1>1, <1>2, <1>3, BeginFacts

LEMMA StartCommandFacts ==
    ASSUME TypeInv, PhaseInv, NEW w \in Workers, StartCommand(w)
    PROVE  /\ turns' \in Seq(TurnRec) /\ Len(turns') = Len(turns) + 1
           /\ \A i \in Rows : turns'[i] = turns[i]
           /\ turns'[Len(turns) + 1] = UserRow(source[worker[w].ev], FALSE)
           /\ Moves(w, [worker[w] EXCEPT !.at = "command", !.user = Len(turns) + 1])
  <1>1. worker[w].ev \in Events
    BY Busy DEF StartCommand
  <1>2. Begins(w, FALSE, "command")
    BY DEF Begins, StartCommand
  <1>3. QED BY <1>1, <1>2, BeginFacts

\* The reply of the user row is written.
Answers(w, at) ==
    /\ turns' = [turns EXCEPT ![worker[w].user].replied = TRUE]
    /\ worker' = [worker EXCEPT ![w].at = at, ![w].reply = worker[w].user]

LEMMA AnswerFacts ==
    ASSUME TypeInv, BoundInv, NEW w \in Workers, NEW at \in {"replied", "returned"},
           Answers(w, at)
    PROVE  /\ turns' \in Seq(TurnRec) /\ Len(turns') = Len(turns)
           /\ \A i \in Rows : turns'[i] = IF i = worker[w].user
                                          THEN [turns[i] EXCEPT !.replied = TRUE] ELSE turns[i]
           /\ Moves(w, [worker[w] EXCEPT !.at = at, !.reply = worker[w].user])
  <1>1. worker[w] \in WorkerRec /\ worker[w].user \in Nat
    BY WorkerFields DEF TypeInv
  <1> DEFINE v == [worker[w] EXCEPT !.at = at, !.reply = worker[w].user]
  <1>2. v \in WorkerRec
    BY <1>1, WorkerFields DEF Pre
  <1>3. worker' = [worker EXCEPT ![w] = v]
    BY DEF Answers
  <1> HIDE DEF v
  <1>4. Moves(w, v)
    BY <1>2, <1>3, MovesTo
  <1>5. turns \in Seq(TurnRec) /\ turns' = [turns EXCEPT ![worker[w].user].replied = TRUE]
    BY DEF TypeInv, Answers
  <1>6. \A i \in Rows : turns[i] \in TurnRec /\ [turns[i] EXCEPT !.replied = TRUE] \in TurnRec
    <2>1. \A i \in Rows : turns[i] \in TurnRec
      BY <1>5 DEF Rows
    <2>2. QED BY <2>1 DEF TurnRec
  <1>7. \A i \in Rows : turns'[i] = IF i = worker[w].user
                                    THEN [turns[i] EXCEPT !.replied = TRUE] ELSE turns[i]
    <2>1. DOMAIN turns = Rows
      BY <1>5 DEF Rows
    <2>2. QED BY <1>5, <2>1
  <1>8. turns' \in Seq(TurnRec) /\ Len(turns') = Len(turns)
    <2>1. DOMAIN turns' = 1..Len(turns) /\ Len(turns) \in Nat
      BY <1>5
    <2>2. turns' \in [1..Len(turns) -> TurnRec]
      BY <1>5, <1>6, <1>7, <2>1 DEF Rows
    <2>3. QED BY <2>1, <2>2, SeqDef
  <1>9. QED BY <1>4, <1>7, <1>8 DEF v

LEMMA PersistReplyFacts ==
    ASSUME TypeInv, BoundInv, PhaseInv, NEW w \in Workers, PersistReply(w)
    PROVE  /\ turns' \in Seq(TurnRec) /\ Len(turns') = Len(turns)
           /\ \A i \in Rows : turns'[i] = IF i = worker[w].user
                                          THEN [turns[i] EXCEPT !.replied = TRUE] ELSE turns[i]
           /\ Moves(w, [worker[w] EXCEPT !.at = "replied", !.reply = worker[w].user])
  BY AnswerFacts DEF PersistReply, Answers

LEMMA AnswerCommandFacts ==
    ASSUME TypeInv, BoundInv, PhaseInv, NEW w \in Workers, AnswerCommand(w)
    PROVE  /\ turns' \in Seq(TurnRec) /\ Len(turns') = Len(turns)
           /\ \A i \in Rows : turns'[i] = IF i = worker[w].user
                                          THEN [turns[i] EXCEPT !.replied = TRUE] ELSE turns[i]
           /\ Moves(w, [worker[w] EXCEPT !.at = "returned", !.reply = worker[w].user])
  BY AnswerFacts DEF AnswerCommand, Answers

LEMMA EndTurnFacts ==
    ASSUME TypeInv, NEW w \in Workers, EndTurn(w)
    PROVE  Moves(w, [worker[w] EXCEPT !.at = "returned"])
  <1> DEFINE v == [worker[w] EXCEPT !.at = "returned"]
  <1>1. v \in WorkerRec
    BY WorkerFields DEF TypeInv, Pre
  <1>2. worker' = [worker EXCEPT ![w] = v]
    BY DEF EndTurn
  <1> HIDE DEF v
  <1>3. QED BY <1>1, <1>2, MovesTo DEF v

LEMMA LinkFacts ==
    ASSUME TypeInv, PhaseInv, NEW w \in Workers, Link(w)
    PROVE  LET e == worker[w].ev IN
           /\ Only(row, row', e)
           /\ row'[e] = IF w = "live"
                 THEN [row[e] EXCEPT !.message = worker[w].user,
                                     !.reply = IF worker[w].reply = None THEN row[e].reply
                                                                         ELSE worker[w].reply]
                 ELSE [row[e] EXCEPT !.message = worker[w].user, !.proc = "processed"]
           /\ Moves(w, [worker[w] EXCEPT !.at = "marking"])
  <1>1. /\ worker[w] \in WorkerRec /\ worker[w].ev \in Events
        /\ worker[w].user \in Nat /\ worker[w].reply \in Nat
    BY Busy, WorkerFields DEF Link
  <1>2. row \in RowTable
    BY DEF TypeInv
  <1> DEFINE e == worker[w].ev
             r == LinkMessage(row, e, worker[w].user)
             v == [worker[w] EXCEPT !.at = "marking"]
  <1>3. Only(row, r, e) /\ r[e] = [row[e] EXCEPT !.message = worker[w].user]
    BY <1>1, <1>2, LinkMessageFacts
  <1>4. r \in RowTable
    BY <1>3 DEF Only
  <1>5. row' = FirstWrite(w, r, e, worker[w].reply)
    BY DEF Link
  <1>6. v \in WorkerRec
    BY <1>1, WorkerFields
  <1>7. worker' = [worker EXCEPT ![w] = v]
    BY DEF Link
  <1> HIDE DEF r, v
  <1>8. Moves(w, v)
    BY <1>6, <1>7, MovesTo
  <1>9. row[e] \in RowRec
    BY <1>1, <1>2 DEF RowTable
  <1>10. CASE w = "live"
    <2>1. Only(r, row', e)
      BY <1>1, <1>4, <1>5, <1>10, StoreReplyFacts DEF FirstWrite
    <2>2. row'[e] = [r[e] EXCEPT !.reply = IF worker[w].reply = None THEN r[e].reply
                                                                  ELSE worker[w].reply]
      BY <1>1, <1>4, <1>5, <1>10, StoreReplyFacts DEF FirstWrite
    <2>3. row'[e] = [row[e] EXCEPT !.message = worker[w].user,
                                   !.reply = IF worker[w].reply = None THEN row[e].reply
                                                                      ELSE worker[w].reply]
      BY <1>3, <1>9, <2>2 DEF RowRec
    <2>4. Only(row, row', e)
      BY <1>3, <2>1 DEF Only
    <2>5. QED BY <1>8, <1>10, <2>3, <2>4 DEF v
  <1>11. CASE w = "sweep"
    <2>1. Only(r, row', e) /\ row'[e] = [r[e] EXCEPT !.proc = "processed"]
      BY <1>1, <1>4, <1>5, <1>11, MarkProcessedFacts DEF FirstWrite
    <2>2. row'[e] = [row[e] EXCEPT !.message = worker[w].user, !.proc = "processed"]
      BY <1>3, <1>9, <2>1 DEF RowRec
    <2>3. Only(row, row', e)
      BY <1>3, <2>1 DEF Only
    <2>4. QED BY <1>8, <1>11, <2>2, <2>3 DEF v
  <1>12. QED BY <1>10, <1>11 DEF Workers

LEMMA ConcludeFacts ==
    ASSUME TypeInv, PhaseInv, NEW w \in Workers, Conclude(w)
    PROVE  LET e == worker[w].ev IN
           /\ worker[w].at = "marking" /\ e \in Events
           /\ Only(row, row', e)
           /\ row'[e].proc = "processed"
           /\ row'[e].reply = IF w = "sweep" /\ worker[w].reply # None THEN worker[w].reply
                                                                   ELSE row[e].reply
           /\ row'[e].message = row[e].message
           /\ row'[e].payload = row[e].payload /\ row'[e].old = row[e].old
           /\ row'[e].procTries = row[e].procTries /\ row'[e].delivTries = row[e].delivTries
           /\ \/ /\ worker[w].dedup /\ OwnedBySibling(row, worker[w].user, e)
                 /\ row'[e].deliv = "delivered" /\ row'[e].segs = row[e].segs
                 /\ Moves(w, Resting)
              \/ /\ row'[e].deliv = row[e].deliv /\ row'[e].segs = 0
                 /\ Moves(w, [worker[w] EXCEPT !.at = "deliver", !.seg = 0])
  <1>1. /\ worker[w] \in WorkerRec /\ worker[w].ev \in Events
        /\ worker[w].user \in Nat /\ worker[w].reply \in Nat
    BY Busy, WorkerFields DEF Conclude
  <1>2. row \in RowTable /\ row[worker[w].ev] \in RowRec
    BY <1>1 DEF TypeInv, RowTable
  <1> DEFINE e == worker[w].ev
             r == SecondWrite(w, row, e, worker[w].reply)
             v == [worker[w] EXCEPT !.at = "deliver", !.seg = 0]
  <1>3. /\ Only(row, r, e)
        /\ r[e].proc = IF w = "live" THEN "processed" ELSE row[e].proc
        /\ r[e].reply = IF w = "sweep" /\ worker[w].reply # None THEN worker[w].reply
                                                                 ELSE row[e].reply
        /\ r[e].message = row[e].message /\ r[e].segs = row[e].segs
        /\ r[e].payload = row[e].payload /\ r[e].old = row[e].old
        /\ r[e].procTries = row[e].procTries /\ r[e].delivTries = row[e].delivTries
        /\ r[e].deliv = row[e].deliv
    <2>1. CASE w = "live"
      <3>1. Only(row, r, e) /\ r[e] = [row[e] EXCEPT !.proc = "processed"]
        BY <1>1, <1>2, <2>1, MarkProcessedFacts DEF SecondWrite
      <3> HIDE DEF r
      <3>2. QED BY <1>2, <2>1, <3>1 DEF RowRec
    <2>2. CASE w = "sweep"
      <3>1. /\ Only(row, r, e)
            /\ r[e] = [row[e] EXCEPT !.reply = IF worker[w].reply = None THEN row[e].reply
                                                                         ELSE worker[w].reply]
        BY <1>1, <1>2, <2>2, StoreReplyFacts DEF SecondWrite
      <3> HIDE DEF r
      <3>2. QED BY <1>2, <2>2, <3>1 DEF RowRec
    <2>3. QED BY <2>1, <2>2 DEF Workers
  <1>4. r \in RowTable /\ r[e] \in RowRec
    BY <1>1, <1>3 DEF Only, RowTable
  <1>5. r[e].proc = "processed"
    BY <1>1, <1>3 DEF PhaseInv, SweepInv, Conclude, Workers
  <1>6. /\ worker[w].at = "marking"
        /\ \/ /\ worker[w].dedup /\ OwnedBySibling(row, worker[w].user, e)
              /\ row' = MarkDeliveryDelivered(r, e) /\ Rest(w)
           \/ /\ row' = [r EXCEPT ![e].segs = 0]
              /\ worker' = [worker EXCEPT ![w] = v]
    BY DEF Conclude
  <1>7. 0 \in 0..Segments
    BY ChannelConstants
  <1>8. v \in WorkerRec
    BY <1>1, <1>7, WorkerFields
  <1> HIDE DEF r, v
  <1>9. CASE /\ worker[w].dedup /\ OwnedBySibling(row, worker[w].user, e)
             /\ row' = MarkDeliveryDelivered(r, e) /\ Rest(w)
    <2>1. Only(r, row', e) /\ row'[e] = [r[e] EXCEPT !.deliv = "delivered"]
      BY <1>1, <1>4, <1>9, MarkDeliveryDeliveredFacts
    <2>2. Only(row, row', e)
      BY <1>3, <2>1 DEF Only
    <2>3. Moves(w, Resting)
      BY <1>9, RestFacts
    <2>4. QED BY <1>1, <1>3, <1>4, <1>5, <1>6, <1>9, <2>1, <2>2, <2>3 DEF RowRec
  <1>10. CASE row' = [r EXCEPT ![e].segs = 0] /\ worker' = [worker EXCEPT ![w] = v]
    <2> DEFINE new == [r[e] EXCEPT !.segs = 0]
    <2>1. new \in RowRec /\ row' = [r EXCEPT ![e] = new]
      BY <1>4, <1>7, <1>10, RowFields
    <2> HIDE DEF new
    <2>2. Only(r, row', e) /\ row'[e] = new
      <3>1. Only(r, [r EXCEPT ![e] = new], e) /\ [r EXCEPT ![e] = new][e] = new
        <4>1. e \in Events /\ r \in RowTable /\ new \in RowRec
          BY <1>1, <1>4, <2>1
        <4> HIDE DEF e
        <4>2. QED BY <4>1, WriteOne
      <3>2. QED BY <2>1, <3>1
    <2>3. Only(row, row', e)
      BY <1>3, <2>2 DEF Only
    <2>4. Moves(w, v)
      BY <1>8, <1>10, MovesTo
    <2>5. QED BY <1>1, <1>3, <1>4, <1>5, <1>6, <2>2, <2>3, <2>4 DEF RowRec, new, v
  <1>11. QED BY <1>6, <1>9, <1>10

LEMMA CountSegmentFacts ==
    ASSUME TypeInv, PhaseInv, NEW w \in Workers, CountSegment(w), worker[w].seg < Segments
    PROVE  LET e == worker[w].ev IN
           /\ Writes(e, [row[e] EXCEPT !.segs = worker[w].seg + 1])
           /\ Moves(w, [worker[w] EXCEPT !.at = "deliver", !.seg = worker[w].seg + 1])
  <1>1. /\ worker[w] \in WorkerRec /\ worker[w].ev \in Events
        /\ worker[w].seg \in 0..Segments
    BY Busy, WorkerFields DEF CountSegment
  <1> DEFINE e == worker[w].ev
             new == [row[e] EXCEPT !.segs = worker[w].seg + 1]
             v == [worker[w] EXCEPT !.at = "deliver", !.seg = worker[w].seg + 1]
  <1>2. worker[w].seg + 1 \in 0..Segments
    BY <1>1, ChannelConstants
  <1>3. row \in RowTable /\ new \in RowRec
    BY <1>1, <1>2, RowFields DEF TypeInv, RowTable
  <1>4. v \in WorkerRec
    BY <1>1, <1>2, WorkerFields
  <1>5. row' = [row EXCEPT ![e] = new] /\ worker' = [worker EXCEPT ![w] = v]
    BY DEF CountSegment
  <1> HIDE DEF new, v
  <1>6. Writes(e, new)
    BY <1>1, <1>3, <1>5, RowBecomes
  <1>7. Moves(w, v)
    BY <1>4, <1>5, MovesTo
  <1>8. QED BY <1>6, <1>7 DEF new, v

LEMMA FinishDeliveryFacts ==
    ASSUME TypeInv, PhaseInv, NEW w \in Workers, FinishDelivery(w)
    PROVE  LET e == worker[w].ev IN
           Writes(e, [row[e] EXCEPT !.deliv = "delivered"]) /\ Moves(w, Resting)
  <1>1. worker[w].ev \in Events /\ row \in RowTable
    BY Busy DEF FinishDelivery, TypeInv
  <1>2. QED
    BY <1>1, MarkDeliveryDeliveredFacts, RestFacts DEF FinishDelivery, Writes

\* Which turn a delivery posts.
LEMMA ReplyingFacts ==
    ASSUME TypeInv, BoundInv, NEW w \in Workers, Replying(worker[w]) # None
    PROVE  Replying(worker[w]) \in Rows
  <1>1. worker[w] \in WorkerRec /\ worker[w].user \in Nat /\ worker[w].reply \in Nat
    BY WorkerFields DEF TypeInv
  <1>2. worker[w].user <= Len(turns) /\ worker[w].reply <= Len(turns)
    BY DEF BoundInv
  <1>3. Replying(worker[w]) \in {worker[w].user, worker[w].reply}
    BY DEF Replying
  <1>4. Len(turns) \in Nat
    BY DEF TypeInv
  <1>5. QED BY <1>1, <1>2, <1>3, <1>4 DEF Rows, None

\* A change of one turn.
LEMMA TurnWrite ==
    ASSUME TypeInv, NEW i \in Rows, NEW t \in TurnRec, turns' = [turns EXCEPT ![i] = t]
    PROVE  /\ turns' \in Seq(TurnRec) /\ Len(turns') = Len(turns)
           /\ \A j \in Rows : turns'[j] = IF j = i THEN t ELSE turns[j]
  <1>1. turns \in Seq(TurnRec)
    BY DEF TypeInv
  <1>2. DOMAIN turns = Rows /\ Len(turns) \in Nat
    BY <1>1 DEF Rows
  <1>3. \A j \in Rows : turns[j] \in TurnRec
    BY <1>1, <1>2
  <1>4. \A j \in Rows : turns'[j] = IF j = i THEN t ELSE turns[j]
    BY <1>2
  <1>5. turns' \in [1..Len(turns) -> TurnRec]
    BY <1>2, <1>3, <1>4 DEF Rows
  <1>6. turns' \in Seq(TurnRec) /\ Len(turns') = Len(turns)
    <2>1. Len(turns) \in Nat
      BY <1>2
    <2>2. QED BY <2>1, <1>5, FunctionIsSeq
  <1>7. QED BY <1>4, <1>6

Posted(t, s) == [t EXCEPT !.posted[s] = @ + 1]
Excused(t, s) == [t EXCEPT !.posted[s] = @ + 1, !.excused[s] = @ + 1]

LEMMA Bump ==
    ASSUME NEW S, NEW f \in [S -> Nat], NEW s \in S
    PROVE  [f EXCEPT ![s] = @ + 1] \in [S -> Nat]
  OBVIOUS

LEMMA PostedFacts ==
    ASSUME NEW t \in TurnRec, NEW s \in 1..Segments
    PROVE  /\ Posted(t, s) \in TurnRec /\ Excused(t, s) \in TurnRec
           /\ Posted(t, s).msg = t.msg /\ Posted(t, s).keyed = t.keyed
           /\ Posted(t, s).replied = t.replied /\ Posted(t, s).excused = t.excused
           /\ Posted(t, s).posted = [t.posted EXCEPT ![s] = @ + 1]
           /\ Excused(t, s).msg = t.msg /\ Excused(t, s).keyed = t.keyed
           /\ Excused(t, s).replied = t.replied
           /\ Excused(t, s).posted = [t.posted EXCEPT ![s] = @ + 1]
           /\ Excused(t, s).excused = [t.excused EXCEPT ![s] = @ + 1]
  <1>1. t.posted \in [1..Segments -> Nat] /\ t.excused \in [1..Segments -> Nat]
    BY DEF TurnRec
  <1>2. /\ [t.posted EXCEPT ![s] = @ + 1] \in [1..Segments -> Nat]
        /\ [t.excused EXCEPT ![s] = @ + 1] \in [1..Segments -> Nat]
    BY <1>1, Bump
  <1>3. QED BY <1>2 DEF TurnRec, Posted, Excused

LEMMA SendSegmentFacts ==
    ASSUME TypeInv, BoundInv, NEW w \in Workers, SendSegment(w)
    PROVE  LET i == Replying(worker[w]) IN
           /\ worker[w].at = "deliver" /\ i \in Rows /\ worker[w].seg \in 0..Segments - 1
           /\ turns' \in Seq(TurnRec) /\ Len(turns') = Len(turns)
           /\ \A j \in Rows : turns'[j] = IF j = i THEN Posted(turns[i], worker[w].seg + 1)
                                                   ELSE turns[j]
           /\ Moves(w, [worker[w] EXCEPT !.at = "sent"])
  <1> DEFINE i == Replying(worker[w])
             s == worker[w].seg + 1
             v == [worker[w] EXCEPT !.at = "sent"]
  <1>1. worker[w] \in WorkerRec /\ worker[w].seg \in 0..Segments /\ worker[w].at = "deliver"
    BY WorkerFields DEF TypeInv, SendSegment, ToSend
  <1>2. i \in Rows /\ worker[w].seg < Segments
    BY ReplyingFacts DEF SendSegment, ToSend
  <1>3. s \in 1..Segments /\ worker[w].seg \in 0..Segments - 1
    BY <1>1, <1>2, ChannelConstants
  <1>4. turns[i] \in TurnRec
    BY <1>2 DEF TypeInv, Rows
  <1>5. Posted(turns[i], s) \in TurnRec
    BY <1>3, <1>4, PostedFacts
  <1>6. turns' = [turns EXCEPT ![i] = Posted(turns[i], s)]
    BY DEF SendSegment, Posting, Posted
  <1>7. v \in WorkerRec
    BY <1>1, WorkerFields
  <1>8. worker' = [worker EXCEPT ![w] = v]
    BY DEF SendSegment
  <1> HIDE DEF i, v
  <1>9. Moves(w, v)
    BY <1>7, <1>8, MovesTo
  <1>10. /\ turns' \in Seq(TurnRec) /\ Len(turns') = Len(turns)
         /\ \A j \in Rows : turns'[j] = IF j = i THEN Posted(turns[i], s) ELSE turns[j]
    BY <1>2, <1>5, <1>6, TurnWrite
  <1>11. QED BY <1>1, <1>2, <1>3, <1>9, <1>10 DEF i, v

LEMMA SendFailsFacts ==
    ASSUME TypeInv, BoundInv, PhaseInv, NEW w \in Workers, NEW fatal \in BOOLEAN,
           NEW posted \in BOOLEAN, SendFails(w, fatal, posted)
    PROVE  LET i == Replying(worker[w])
               e == worker[w].ev IN
           /\ worker[w].at = "deliver" /\ e \in Events /\ i \in Rows
           /\ worker[w].seg \in 0..Segments - 1
           /\ turns' \in Seq(TurnRec) /\ Len(turns') = Len(turns)
           /\ \/ turns' = turns
              \/ \A j \in Rows : turns'[j] = IF j = i THEN Excused(turns[i], worker[w].seg + 1)
                                                      ELSE turns[j]
           /\ \E p \in {"failed", "dead_letter"} :
                 /\ Writes(e, [row[e] EXCEPT !.delivTries = row[e].delivTries + 1, !.deliv = p])
                 /\ p = "failed" => row[e].delivTries + 1 < MaxAttempts
           /\ Moves(w, Resting)
  <1> DEFINE i == Replying(worker[w])
             s == worker[w].seg + 1
             e == worker[w].ev
  <1>1. worker[w] \in WorkerRec /\ worker[w].seg \in 0..Segments /\ worker[w].at = "deliver"
    BY WorkerFields DEF TypeInv, SendFails, ToSend
  <1>2. i \in Rows /\ worker[w].seg < Segments
    BY ReplyingFacts DEF SendFails, ToSend
  <1>3. s \in 1..Segments /\ worker[w].seg \in 0..Segments - 1
    BY <1>1, <1>2, ChannelConstants
  <1>4. turns[i] \in TurnRec
    BY <1>2 DEF TypeInv, Rows
  <1>5. Excused(turns[i], s) \in TurnRec
    BY <1>3, <1>4, PostedFacts
  <1>6. e \in Events /\ row \in RowTable /\ row[e].delivTries < MaxAttempts
    BY <1>1, Busy DEF TypeInv
  <1>7. turns' = turns \/ turns' = [turns EXCEPT ![i] = Excused(turns[i], s)]
    <2>1. CASE ~posted
      BY <2>1 DEF SendFails
    <2>2. CASE posted
      <3>1. turns' = [Posting(worker[w]) EXCEPT ![i].excused[s] = @ + 1]
        BY <2>2 DEF SendFails
      <3>2. DOMAIN turns = Rows /\ turns \in Seq(TurnRec)
        BY DEF TypeInv, Rows
      <3>3. Posting(worker[w]) = [turns EXCEPT ![i] = Posted(turns[i], s)]
        BY DEF Posting, Posted
      <3>4. [Posted(turns[i], s) EXCEPT !.excused[s] = @ + 1] = Excused(turns[i], s)
        BY <1>4 DEF TurnRec, Posted, Excused
      <3> HIDE DEF i
      <3>5. QED BY <1>2, <3>1, <3>2, <3>3, <3>4
    <2>3. QED BY <2>1, <2>2
  <1>8. Moves(w, Resting)
    BY RestFacts DEF SendFails
  <1>9. row' = RecordDeliveryFailure(row, e, fatal)
    BY DEF SendFails
  <1>10. \E p \in {"failed", "dead_letter"} :
            /\ Writes(e, [row[e] EXCEPT !.delivTries = row[e].delivTries + 1, !.deliv = p])
            /\ p = "failed" => row[e].delivTries + 1 < MaxAttempts
    <2>1. /\ Only(row, row', e)
          /\ \E p \in {"failed", "dead_letter"} :
                /\ row'[e] = [row[e] EXCEPT !.delivTries = row[e].delivTries + 1, !.deliv = p]
                /\ p = "failed" => ~fatal /\ row[e].delivTries + 1 < MaxAttempts
      <3> HIDE DEF e
      <3>1. QED BY <1>6, <1>9, DeliveryFailureFacts
    <2>2. QED BY <2>1 DEF Writes
  <1> HIDE DEF i, s
  <1>11. /\ turns' \in Seq(TurnRec) /\ Len(turns') = Len(turns)
         /\ \/ turns' = turns
            \/ \A j \in Rows : turns'[j] = IF j = i THEN Excused(turns[i], s) ELSE turns[j]
    BY <1>2, <1>5, <1>7, TurnWrite DEF TypeInv
  <1>12. QED BY <1>1, <1>2, <1>3, <1>6, <1>8, <1>10, <1>11 DEF i, s

LEMMA BatchFields ==
    ASSUME TypeInv
    PROVE  /\ batch.proc \subseteq Events /\ batch.deliv \subseteq Events
           /\ batch.segs \in [Events -> 0..Segments]
  BY DEF TypeInv

LEMMA NextReplayFacts ==
    ASSUME TypeInv, PhaseInv, NEW e \in Events, NextReplay(e)
    PROVE  /\ worker["sweep"].at = "idle" /\ e \in batch.proc /\ row[e].proc = "failed"
           /\ batch'.proc = batch.proc \ {e} /\ batch'.deliv = batch.deliv
           /\ batch'.segs = batch.segs
           /\ batch' \in [proc : SUBSET Events, deliv : SUBSET Events,
                          segs : [Events -> 0..Segments]]
  <1>1. /\ worker["sweep"].at = "idle" /\ e \in batch.proc
        /\ batch' = [batch EXCEPT !.proc = batch.proc \ {e}]
    BY DEF NextReplay
  <1>2. row[e].proc = "failed"
    BY <1>1 DEF PhaseInv, RowInv
  <1>3. batch.proc \ {e} \in SUBSET Events
    BY BatchFields
  <1>4. QED BY <1>1, <1>2, <1>3 DEF TypeInv

LEMMA SweepBlockedFacts ==
    ASSUME TypeInv, PhaseInv, NEW e \in Events, SweepBlocked(e)
    PROVE  Writes(e, [row[e] EXCEPT !.payload = FALSE, !.proc = "processed"])
  <1> DEFINE bare == [row[e] EXCEPT !.payload = FALSE]
             r == [row EXCEPT ![e] = bare]
  <1>1. row \in RowTable /\ row[e] \in RowRec
    BY DEF TypeInv, RowTable
  <1>2. bare \in RowRec
    BY <1>1, RowFields
  <1>3. Only(row, r, e) /\ r[e] = bare
    <2> HIDE DEF bare
    <2>1. QED BY <1>1, <1>2, WriteOne
  <1>4. row' = MarkProcessed(r, e)
    BY DEF SweepBlocked
  <1>5. r \in RowTable
    BY <1>3 DEF Only
  <1> HIDE DEF r
  <1>6. Only(r, row', e) /\ row'[e] = [r[e] EXCEPT !.proc = "processed"]
    BY <1>4, <1>5, MarkProcessedFacts
  <1>7. row'[e] = [row[e] EXCEPT !.payload = FALSE, !.proc = "processed"]
    BY <1>1, <1>3, <1>6 DEF RowRec
  <1>8. Only(row, row', e)
    BY <1>3, <1>6 DEF Only
  <1>9. QED BY <1>7, <1>8 DEF Writes

LEMMA IngressBlockedFacts ==
    ASSUME TypeInv, PhaseInv, NEW e \in Events, IngressBlocked(e)
    PROVE  Writes(e, [row[e] EXCEPT !.payload = FALSE, !.proc = "processed"])
  <1> DEFINE bare == [row[e] EXCEPT !.payload = FALSE]
             r == [row EXCEPT ![e] = bare]
  <1>1. row \in RowTable /\ row[e] \in RowRec
    BY DEF TypeInv, RowTable
  <1>2. bare \in RowRec
    BY <1>1, RowFields
  <1>3. Only(row, r, e) /\ r[e] = bare
    <2> HIDE DEF bare
    <2>1. QED BY <1>1, <1>2, WriteOne
  <1>4. row' = MarkProcessed(r, e)
    BY DEF IngressBlocked
  <1>5. r \in RowTable
    BY <1>3 DEF Only
  <1> HIDE DEF r
  <1>6. Only(r, row', e) /\ row'[e] = [r[e] EXCEPT !.proc = "processed"]
    BY <1>4, <1>5, MarkProcessedFacts
  <1>7. row'[e] = [row[e] EXCEPT !.payload = FALSE, !.proc = "processed"]
    BY <1>1, <1>3, <1>6 DEF RowRec
  <1>8. Only(row, row', e)
    BY <1>3, <1>6 DEF Only
  <1>9. QED BY <1>7, <1>8 DEF Writes

\* The row whose delivery the sweep retries: who writes which reply.
LEMMA SweepDeliversFacts ==
    ASSUME TypeInv, BoundInv, PhaseInv, NEW e \in Events, SweepDelivers(e)
    PROVE  /\ worker["sweep"].at = "idle" /\ batch.proc = {} /\ e \in batch.deliv
           /\ batch'.proc = {} /\ batch'.deliv = batch.deliv \ {e}
           /\ batch'.segs = [batch.segs EXCEPT ![e] = 0]
           /\ batch' \in [proc : SUBSET Events, deliv : SUBSET Events,
                          segs : [Events -> 0..Segments]]
           /\ \/ /\ Writes(e, [row[e] EXCEPT !.delivTries = row[e].delivTries + 1,
                                             !.deliv = "dead_letter"])
                 /\ worker' = worker
              \/ \E i \in Rows :
                    /\ i = IF row[e].reply # None THEN row[e].reply ELSE row[e].message
                    /\ row[e].reply = None => turns[i].replied
                    /\ Writes(e, [row[e] EXCEPT !.reply = i])
                    /\ Moves("sweep", [Resting EXCEPT !.at = "deliver", !.ev = e,
                                         !.user = row[e].message, !.reply = i,
                                         !.seg = batch.segs[e]])
  <1> DEFINE v == [Resting EXCEPT !.at = "deliver", !.ev = e, !.user = row[e].message,
                                  !.reply = row[e].reply, !.seg = batch.segs[e]]
             i == IF row[e].reply # None THEN row[e].reply ELSE row[e].message
             u == [Resting EXCEPT !.at = "deliver", !.ev = e, !.user = row[e].message,
                                  !.reply = i, !.seg = batch.segs[e]]
  <1>1. /\ worker["sweep"].at = "idle" /\ batch.proc = {} /\ e \in batch.deliv
        /\ batch' = [batch EXCEPT !.deliv = @ \ {e}, !.segs[e] = 0]
    BY DEF SweepDelivers
  <1>2. /\ row \in RowTable /\ row[e] \in RowRec
        /\ row[e].deliv = "failed" /\ row[e].delivTries < MaxAttempts
    BY <1>1 DEF PhaseInv, RowInv, TypeInv, RowTable
  <1>3. /\ row[e].message \in Nat /\ row[e].reply \in Nat /\ batch.segs[e] \in 0..Segments
        /\ row[e].message <= Len(turns) /\ row[e].reply <= Len(turns) /\ Len(turns) \in Nat
    <2>1. row[e].message \in Nat /\ row[e].reply \in Nat
      BY <1>2, RowFields
    <2>2. batch.segs[e] \in 0..Segments
      BY BatchFields
    <2>3. Len(turns) \in Nat
      BY DEF TypeInv
    <2>4. row[e].message <= Len(turns) /\ row[e].reply <= Len(turns)
      BY DEF BoundInv
    <2>5. QED BY <2>1, <2>2, <2>3, <2>4
  <1>4. /\ batch'.proc = {} /\ batch'.deliv = batch.deliv \ {e}
        /\ batch'.segs = [batch.segs EXCEPT ![e] = 0]
        /\ batch' \in [proc : SUBSET Events, deliv : SUBSET Events,
                       segs : [Events -> 0..Segments]]
    <2>1. batch.deliv \ {e} \in SUBSET Events
      BY BatchFields
    <2>2. [batch.segs EXCEPT ![e] = 0] \in [Events -> 0..Segments]
      BY BatchFields, ChannelConstants
    <2>3. batch' = [batch EXCEPT !.deliv = batch.deliv \ {e},
                                 !.segs = [batch.segs EXCEPT ![e] = 0]]
      BY <1>1
    <2>4. QED BY <1>1, <2>1, <2>2, <2>3 DEF TypeInv
  <1>5. v.user = row[e].message /\ v.reply = row[e].reply
    BY DEF Resting
  <1>6. \/ /\ Replying(v) = None /\ row' = RecordDeliveryFailure(row, e, TRUE)
           /\ worker' = worker
        \/ /\ Replying(v) # None
           /\ row' = StoreReplyMessageId(row, e, Replying(v))
           /\ worker' = [worker EXCEPT !["sweep"] = [v EXCEPT !.reply = Replying(v)]]
    BY DEF SweepDelivers, ResumeAt
  <1>7. CASE Replying(v) = None /\ row' = RecordDeliveryFailure(row, e, TRUE) /\ worker' = worker
    <2>1. /\ Only(row, row', e)
          /\ row'[e] = [row[e] EXCEPT !.delivTries = row[e].delivTries + 1,
                                      !.deliv = "dead_letter"]
      <3>1. TRUE \in BOOLEAN
        OBVIOUS
      <3>2. Only(row, row', e)
        BY <1>2, <1>7, <3>1, DeliveryFailureFacts
      <3>3. \E p \in {"failed", "dead_letter"} :
               /\ row'[e] = [row[e] EXCEPT !.delivTries = row[e].delivTries + 1, !.deliv = p]
               /\ p # "failed"
        BY <1>2, <1>7, <3>1, DeliveryFailureFacts
      <3>4. QED BY <3>2, <3>3
    <2>2. QED BY <1>1, <1>4, <1>7, <2>1 DEF Writes
  <1>8. CASE /\ Replying(v) # None
             /\ row' = StoreReplyMessageId(row, e, Replying(v))
             /\ worker' = [worker EXCEPT !["sweep"] = [v EXCEPT !.reply = Replying(v)]]
    <2>1. Replying(v) = i /\ (row[e].reply = None => turns[i].replied)
      BY <1>5, <1>8 DEF Replying
    <2>2. i \in Rows /\ i \in Nat /\ i # None
      BY <1>3, <1>8, <2>1 DEF Rows, None
    <2>3. u = [v EXCEPT !.reply = i]
      BY DEF Resting
    <2>4. u \in WorkerRec
      BY <1>3, <2>2, RestingFacts DEF WorkerRec
    <2>5. "sweep" \in Workers
      BY DEF Workers
    <2>6. /\ row' = StoreReplyMessageId(row, e, i)
          /\ worker' = [worker EXCEPT !["sweep"] = u]
      BY <1>8, <2>1, <2>3
    <2> HIDE DEF u, v, i
    <2>7. Moves("sweep", u)
      BY <2>4, <2>5, <2>6, MovesTo
    <2>8. Only(row, row', e) /\ row'[e] = [row[e] EXCEPT !.reply = i]
      BY <1>2, <2>2, <2>6, StoreReplyFacts
    <2>9. QED BY <1>1, <1>4, <2>1, <2>2, <2>7, <2>8 DEF Writes, i, u
  <1>9. QED BY <1>6, <1>7, <1>8

LEMMA ReplayFacts ==
    ASSUME TypeInv, NEW e \in Events, ReplayDeadLetter(e)
    PROVE  \/ /\ row[e].proc = "dead_letter"
              /\ Writes(e, [row[e] EXCEPT !.proc = "failed", !.procTries = 0])
              /\ failures' = [failures EXCEPT ![e] = 0]
           \/ /\ row[e].proc = "processed" /\ row[e].deliv = "dead_letter"
              /\ Writes(e, [row[e] EXCEPT !.deliv = "failed", !.delivTries = 0])
              /\ failures' = failures
  <1>1. row[e] \in RowRec /\ 0 \in 0..MaxAttempts
    BY ChannelConstants DEF TypeInv, RowTable
  <1> DEFINE again == [row[e] EXCEPT !.proc = "failed", !.procTries = 0]
             retry == [row[e] EXCEPT !.deliv = "failed", !.delivTries = 0]
  <1>2. again \in RowRec /\ retry \in RowRec
    BY <1>1 DEF RowRec, ProcStatuses, DelivStatuses
  <1>3. \/ /\ row[e].proc = "dead_letter" /\ row' = [row EXCEPT ![e] = again]
           /\ failures' = [failures EXCEPT ![e] = 0]
        \/ /\ row[e].proc = "processed" /\ row[e].deliv = "dead_letter"
           /\ row' = [row EXCEPT ![e] = retry] /\ failures' = failures
    BY DEF ReplayDeadLetter
  <1> HIDE DEF again, retry
  <1>4. QED BY <1>2, <1>3, RowBecomes DEF again, retry

\* What a crash leaves: the rows, now from an earlier boot, and the turns.
LEMMA CrashFacts ==
    ASSUME TypeInv, Crash
    PROVE  /\ row' \in RowTable
           /\ \A e \in Events : /\ row'[e] = [row[e] EXCEPT !.old = row'[e].old]
                                /\ row'[e].old <=> row[e].proc # "absent"
           /\ turns' \in Seq(TurnRec) /\ Len(turns') = Len(turns)
           /\ \A i \in Rows :
                 /\ turns'[i].msg = turns[i].msg /\ turns'[i].keyed = turns[i].keyed
                 /\ turns'[i].replied = turns[i].replied /\ turns'[i].posted = turns[i].posted
                 /\ \A s \in 1..Segments : turns'[i].excused[s] =
                       turns[i].excused[s] + Cardinality(LostCounts(i, s))
           /\ \A i \in Rows, s \in 1..Segments :
                 IsFiniteSet(LostCounts(i, s)) /\ Cardinality(LostCounts(i, s)) \in Nat
           /\ worker' \in [Workers -> WorkerRec] /\ \A w \in Workers : worker'[w] = Resting
           /\ batch' \in [proc : SUBSET Events, deliv : SUBSET Events,
                          segs : [Events -> 0..Segments]]
           /\ batch'.proc = {} /\ batch'.deliv = {}
  <1>1. row \in RowTable /\ \A e \in Events : row[e] \in RowRec
    BY DEF TypeInv, RowTable
  <1>2. ASSUME NEW e \in Events
        PROVE  /\ row'[e] \in RowRec
               /\ row'[e] = [row[e] EXCEPT !.old = row'[e].old]
               /\ row'[e].old <=> row[e].proc # "absent"
    <2>1. row'[e] = [row[e] EXCEPT !.old = row[e].proc # "absent"]
      BY DEF Crash
    <2>2. CASE row[e].proc # "absent"
      <3>1. row'[e] = [row[e] EXCEPT !.old = TRUE]
        BY <2>1, <2>2
      <3>2. row'[e].old = TRUE
        BY <1>1, <3>1 DEF RowRec
      <3>3. QED BY <1>1, <2>2, <3>1, <3>2, RowFields
    <2>3. CASE row[e].proc = "absent"
      <3>1. row'[e] = [row[e] EXCEPT !.old = FALSE]
        BY <2>1, <2>3
      <3>2. row'[e].old = FALSE
        BY <1>1, <3>1 DEF RowRec
      <3>3. QED BY <1>1, <2>3, <3>1, <3>2, RowFields
    <2>4. QED BY <2>2, <2>3
  <1>3. row' \in RowTable
    <2>1. DOMAIN row' = Events /\ row' = [e \in Events |-> row'[e]]
      BY DEF Crash
    <2>2. QED BY <1>2, <2>1 DEF RowTable
  <1>4. ASSUME NEW i \in Rows, NEW s \in 1..Segments
        PROVE  IsFiniteSet(LostCounts(i, s)) /\ Cardinality(LostCounts(i, s)) \in Nat
    <2>1. IsFiniteSet(Workers)
      <3>1. IsFiniteSet({"live"}) /\ IsFiniteSet({"sweep"})
        BY FS_Singleton
      <3>2. Workers = {"live"} \cup {"sweep"}
        BY DEF Workers
      <3>3. QED BY <3>1, <3>2, FS_Union
    <2>2. LostCounts(i, s) \subseteq Workers
      BY DEF LostCounts
    <2>3. QED BY <2>1, <2>2, FS_Subset, FS_CardinalityType
  <1>5. turns \in Seq(TurnRec) /\ Len(turns) \in Nat /\ \A i \in Rows : turns[i] \in TurnRec
    BY DEF TypeInv, Rows
  <1>6. ASSUME NEW i \in Rows
        PROVE  /\ turns'[i] \in TurnRec
               /\ turns'[i].msg = turns[i].msg /\ turns'[i].keyed = turns[i].keyed
               /\ turns'[i].replied = turns[i].replied /\ turns'[i].posted = turns[i].posted
               /\ \A s \in 1..Segments : turns'[i].excused[s] =
                     turns[i].excused[s] + Cardinality(LostCounts(i, s))
    <2> DEFINE more == [s \in 1..Segments |->
                           turns[i].excused[s] + Cardinality(LostCounts(i, s))]
    <2>1. turns'[i] = [turns[i] EXCEPT !.excused = more]
      BY DEF Crash
    <2>2. turns[i].excused \in [1..Segments -> Nat]
      BY <1>5 DEF TurnRec
    <2>3. more \in [1..Segments -> Nat]
      <3>1. \A s \in 1..Segments :
               turns[i].excused[s] \in Nat /\ Cardinality(LostCounts(i, s)) \in Nat
        BY <1>4, <2>2
      <3>2. QED BY <3>1
    <2>4. \A s \in 1..Segments :
             more[s] = turns[i].excused[s] + Cardinality(LostCounts(i, s))
      OBVIOUS
    <2> HIDE DEF more
    <2>5. QED BY <1>5, <2>1, <2>3, <2>4 DEF TurnRec
  <1>7. turns' \in Seq(TurnRec) /\ Len(turns') = Len(turns)
    <2>1. turns' = [i \in 1..Len(turns) |-> turns'[i]]
      BY DEF Crash, Rows
    <2>2. turns' \in [1..Len(turns) -> TurnRec]
      BY <1>6, <2>1 DEF Rows
    <2>3. QED BY <1>5, <2>2, FunctionIsSeq
  <1>8. worker' \in [Workers -> WorkerRec] /\ \A w \in Workers : worker'[w] = Resting
    BY RestingFacts DEF Crash
  <1>9. /\ batch' \in [proc : SUBSET Events, deliv : SUBSET Events,
                       segs : [Events -> 0..Segments]]
        /\ batch'.proc = {} /\ batch'.deliv = {}
    BY ChannelConstants DEF Crash, NoBatch
  <1>10. QED BY <1>2, <1>3, <1>4, <1>6, <1>7, <1>8, <1>9

LEMMA RecoverOrphansFacts ==
    ASSUME TypeInv, RecoverOrphans
    PROVE  /\ row' \in RowTable
           /\ \A e \in Events :
                 \/ row'[e] = row[e]
                 \/ /\ row[e].proc = "pending" /\ row[e].old
                    /\ row'[e] = [row[e] EXCEPT !.proc = "failed"]
  <1>1. row \in RowTable /\ \A e \in Events : row[e] \in RowRec
    BY DEF TypeInv, RowTable
  <1>2. "failed" \in ProcStatuses
    BY DEF ProcStatuses
  <1>3. ASSUME NEW e \in Events
        PROVE  /\ row'[e] \in RowRec
               /\ \/ row'[e] = row[e]
                  \/ /\ row[e].proc = "pending" /\ row[e].old
                     /\ row'[e] = [row[e] EXCEPT !.proc = "failed"]
    <2>1. row'[e] = IF row[e].proc = "pending" /\ row[e].payload /\ row[e].old
                    THEN [row[e] EXCEPT !.proc = "failed"] ELSE row[e]
      BY DEF RecoverOrphans
    <2>2. [row[e] EXCEPT !.proc = "failed"] \in RowRec
      BY <1>1, <1>2, RowFields
    <2>3. QED BY <1>1, <2>1, <2>2
  <1>4. row' = [e \in Events |-> row'[e]]
    BY DEF RecoverOrphans
  <1>5. QED BY <1>3, <1>4 DEF RowTable

LEMMA RecoverStrandedFacts ==
    ASSUME TypeInv, RecoverStranded
    PROVE  /\ row' \in RowTable
           /\ \A e \in Events :
                 \/ row'[e] = row[e]
                 \/ /\ row[e].proc = "processed" /\ row[e].deliv = "pending" /\ row[e].old
                    /\ row[e].reply # None
                    /\ row'[e] = [row[e] EXCEPT !.deliv = "failed"]
  <1>1. row \in RowTable /\ \A e \in Events : row[e] \in RowRec
    BY DEF TypeInv, RowTable
  <1>2. "failed" \in DelivStatuses
    BY DEF DelivStatuses
  <1>3. ASSUME NEW e \in Events
        PROVE  /\ row'[e] \in RowRec
               /\ \/ row'[e] = row[e]
                  \/ /\ row[e].proc = "processed" /\ row[e].deliv = "pending" /\ row[e].old
                     /\ row[e].reply # None
                     /\ row'[e] = [row[e] EXCEPT !.deliv = "failed"]
    <2>1. row'[e] = IF /\ row[e].proc = "processed" /\ row[e].deliv = "pending"
                       /\ row[e].payload /\ row[e].reply # None /\ row[e].old
                    THEN [row[e] EXCEPT !.deliv = "failed"] ELSE row[e]
      BY DEF RecoverStranded
    <2>2. [row[e] EXCEPT !.deliv = "failed"] \in RowRec
      BY <1>1, <1>2, RowFields
    <2>3. QED BY <1>1, <2>1, <2>2
  <1>4. row' = [e \in Events |-> row'[e]]
    BY DEF RecoverStranded
  <1>5. QED BY <1>3, <1>4 DEF RowTable

-----------------------------------------------------------------------------
(* Types and bounds are kept.                                              *)

LEMMA TypeInit == Init => TypeInv /\ BoundInv
  <1> SUFFICES ASSUME Init PROVE TypeInv /\ BoundInv
    OBVIOUS
  <1>1. NewRow \in RowRec /\ NewRow.message = 0 /\ NewRow.reply = 0
    BY ChannelConstants DEF NewRow, RowRec, ProcStatuses, DelivStatuses, None
  <1>2. row \in RowTable /\ worker \in [Workers -> WorkerRec]
    BY <1>1, RestingFacts DEF Init, RowTable
  <1>3. turns \in Seq(TurnRec) /\ Len(turns) = 0 /\ queue \in Seq(Events)
    BY DEF Init
  <1>4. batch \in [proc : SUBSET Events, deliv : SUBSET Events, segs : [Events -> 0..Segments]]
    BY ChannelConstants DEF Init, NoBatch
  <1>5. TypeInv
    BY <1>2, <1>3, <1>4 DEF Init, TypeInv
  <1>6. BoundInv
    <2>1. \A e \in Events : row[e] = NewRow
      BY DEF Init
    <2>2. \A w \in Workers : worker[w] = Resting
      BY DEF Init
    <2>3. QED BY <1>1, <1>3, <2>1, <2>2, RestingZero DEF BoundInv
  <1>7. QED BY <1>5, <1>6


\* A step of a worker on its event.
LEMMA WorkerKept ==
    ASSUME TypeInv, BoundInv, NEW w \in Workers, NEW v, Moves(w, v),
           NEW e \in Events, Only(row, row', e),
           turns' \in Seq(TurnRec), Len(turns') >= Len(turns),
           row'[e].message <= Len(turns'), row'[e].reply <= Len(turns'),
           v.user <= Len(turns'), v.reply <= Len(turns'),
           v.at = "sent" => v.seg < Segments,
           lock' \in {"free", "other"} \cup Workers,
           failures' \in [Events -> Nat],
           UNCHANGED << source, handler, queue, batch, recovery >>
    PROVE  TypeInv' /\ BoundInv'
  <1>1. TypeInv'
    BY DEF TypeInv, Only, Moves
  <1>2. Len(turns) \in Nat /\ Len(turns') \in Nat
    BY DEF TypeInv
  <1>3. \A d \in Events : row'[d].message <= Len(turns') /\ row'[d].reply <= Len(turns')
    <2>1. \A d \in Events : row[d].message \in Nat /\ row[d].reply \in Nat
      BY RowFields DEF TypeInv, RowTable
    <2>2. \A d \in Events : d # e => row'[d] = row[d]
      BY DEF Only
    <2>3. \A d \in Events : row[d].message <= Len(turns) /\ row[d].reply <= Len(turns)
      BY DEF BoundInv
    <2>4. QED BY <1>2, <2>1, <2>2, <2>3
  <1>4. \A x \in Workers : /\ worker'[x].user <= Len(turns') /\ worker'[x].reply <= Len(turns')
                           /\ worker'[x].at = "sent" => worker'[x].seg < Segments
    <2>1. \A x \in Workers : worker[x].user \in Nat /\ worker[x].reply \in Nat
      BY WorkerFields DEF TypeInv
    <2>2. worker'[w] = v /\ \A x \in Workers : x # w => worker'[x] = worker[x]
      BY DEF Moves
    <2>3. \A x \in Workers : /\ worker[x].user <= Len(turns) /\ worker[x].reply <= Len(turns)
                             /\ worker[x].at = "sent" => worker[x].seg < Segments
      BY DEF BoundInv
    <2>4. QED BY <1>2, <2>1, <2>2, <2>3
  <1>5. QED BY <1>1, <1>3, <1>4 DEF BoundInv

LEMMA TurnTypes ==
    ASSUME TypeInv, BoundInv, PhaseInv, NEW w \in Workers, Turn(w)
    PROVE  TypeInv' /\ BoundInv'
  <1> DEFINE e == worker[w].ev
  <1>1. worker[w].at \in Pre
    BY DEF Turn, HitBusy, Deduplicate, StartTurn, PersistReply, EndTurn, StartCommand,
           AnswerCommand, Throws, FailEarly, BreakTurn, BreakCommand, BoundaryThrows, Pre
  <1>2. /\ Len(turns) \in Nat /\ turns \in Seq(TurnRec) /\ worker[w] \in WorkerRec
        /\ failures \in [Events -> Nat] /\ lock \in {"free", "other"} \cup Workers
        /\ e \in Events /\ row \in RowTable /\ row[e] \in RowRec
    BY <1>1, Busy DEF TypeInv, Pre
  <1>3. /\ row[e].message <= Len(turns) /\ row[e].reply <= Len(turns)
        /\ worker[w].user <= Len(turns) /\ worker[w].reply <= Len(turns)
        /\ worker[w].user \in Nat /\ worker[w].reply \in Nat
        /\ row[e].message \in Nat /\ row[e].reply \in Nat
    BY <1>2, RowFields, WorkerFields DEF BoundInv
  <1>4. Resting.user <= Len(turns) /\ Resting.reply <= Len(turns) /\ Resting.at # "sent"
    BY <1>2, RestingZero
  <1>5. Only(row, row, e)
    BY <1>2 DEF Only
  <1> HIDE DEF e
  <1>6. CASE HitBusy(w)
    <2>1. /\ Only(row, row', e) /\ Moves(w, Resting)
          /\ row'[e].message = row[e].message /\ row'[e].reply = row[e].reply
      BY <1>2, <1>6, HitBusyFacts DEF Writes, e, RowRec
    <2>2. QED
      BY <1>2, <1>3, <1>4, <1>6, <2>1, WorkerKept DEF HitBusy
  <1>7. CASE Deduplicate(w)
    <2>1. PICK id, v : /\ id \in Rows /\ Moves(w, v) /\ v.user \in {id, worker[w].user}
                       /\ v.reply = worker[w].reply /\ v.at # "sent"
      <3>1. PICK id \in KeyedRow(source[worker[w].ev]) :
               \/ Moves(w, [worker[w] EXCEPT !.fresh = TRUE])
               \/ Moves(w, [worker[w] EXCEPT !.at = "returned", !.user = id, !.dedup = TRUE])
        BY <1>7, DeduplicateFacts
      <3> DEFINE again == [worker[w] EXCEPT !.fresh = TRUE]
                 found == [worker[w] EXCEPT !.at = "returned", !.user = id, !.dedup = TRUE]
      <3>2. /\ again.user = worker[w].user /\ again.reply = worker[w].reply
            /\ again.at # "sent"
            /\ found.user = id /\ found.reply = worker[w].reply /\ found.at # "sent"
        BY <1>1, <1>2 DEF WorkerRec, Pre
      <3>3. id \in Rows
        BY DEF KeyedRow
      <3> HIDE DEF again, found
      <3>4. Moves(w, again) \/ Moves(w, found)
        BY <3>1 DEF again, found
      <3>5. QED BY <3>2, <3>3, <3>4
    <2>2. v.user <= Len(turns)
      BY <1>2, <1>3, <2>1 DEF Rows
    <2>3. QED
      BY <1>2, <1>3, <1>5, <1>7, <2>1, <2>2, WorkerKept DEF Deduplicate
  <1>8. CASE StartTurn(w)
    <2> DEFINE v == [worker[w] EXCEPT !.at = "turn", !.user = Len(turns) + 1]
    <2>1. /\ turns' \in Seq(TurnRec) /\ Len(turns') = Len(turns) + 1 /\ Moves(w, v)
      BY <1>8, StartTurnFacts
    <2>2. v.user = Len(turns) + 1 /\ v.reply = worker[w].reply /\ v.at = "turn"
      BY <1>2 DEF WorkerRec
    <2> HIDE DEF v
    <2>3. /\ v.user <= Len(turns') /\ v.reply <= Len(turns') /\ Len(turns') >= Len(turns)
          /\ row[e].message <= Len(turns') /\ row[e].reply <= Len(turns')
      BY <1>2, <1>3, <2>1, <2>2
    <2>4. lock' \in {"free", "other"} \cup Workers
      BY <1>8 DEF StartTurn
    <2>5. UNCHANGED << source, row, handler, queue, batch, recovery, failures >>
      BY <1>8 DEF StartTurn
    <2>6. QED
      BY <1>2, <1>5, <2>1, <2>2, <2>3, <2>4, <2>5, WorkerKept
  <1>9. CASE PersistReply(w)
    <2> DEFINE v == [worker[w] EXCEPT !.at = "replied", !.reply = worker[w].user]
    <2>1. /\ turns' \in Seq(TurnRec) /\ Len(turns') = Len(turns) /\ Moves(w, v)
      BY <1>9, PersistReplyFacts
    <2>2. v.user = worker[w].user /\ v.reply = worker[w].user /\ v.at = "replied"
      BY <1>2 DEF WorkerRec
    <2> HIDE DEF v
    <2>3. UNCHANGED << source, row, handler, queue, batch, recovery, failures, lock >>
      BY <1>9 DEF PersistReply
    <2>4. QED
      BY <1>2, <1>3, <1>5, <2>1, <2>2, <2>3, WorkerKept
  <1>10. CASE EndTurn(w)
    <2> DEFINE v == [worker[w] EXCEPT !.at = "returned"]
    <2>1. Moves(w, v)
      BY <1>10, EndTurnFacts
    <2>2. v.user = worker[w].user /\ v.reply = worker[w].reply /\ v.at = "returned"
      BY <1>2 DEF WorkerRec
    <2> HIDE DEF v
    <2>3. UNCHANGED << source, row, turns, handler, queue, batch, recovery, failures >>
      BY <1>10 DEF EndTurn
    <2>4. lock' \in {"free", "other"} \cup Workers
      BY <1>10 DEF EndTurn
    <2>5. QED
      BY <1>2, <1>3, <1>5, <2>1, <2>2, <2>3, <2>4, WorkerKept
  <1>11. ASSUME NEW fatal \in BOOLEAN, Throws(w, fatal)
         PROVE  TypeInv' /\ BoundInv'
    <2>1. Fails(w, fatal)
      BY <1>11 DEF Throws, FailEarly, BreakTurn, BreakCommand, BoundaryThrows
    <2>2. /\ Only(row, row', e) /\ Moves(w, Resting)
          /\ row'[e].message = row[e].message /\ row'[e].reply = row[e].reply
      <3>1. Moves(w, Resting)
        BY <1>1, <2>1, FailsFacts
      <3>2. \E p \in {"failed", "dead_letter"} :
               Writes(e, [row[e] EXCEPT !.procTries = row[e].procTries + 1, !.proc = p])
        BY <1>1, <2>1, FailsFacts DEF e
      <3>3. QED BY <1>2, <3>1, <3>2 DEF Writes, RowRec
    <2>3. failures' \in [Events -> Nat]
      <3>1. failures' = [failures EXCEPT ![e] = IF fatal THEN MaxAttempts ELSE failures[e] + 1]
        BY <1>1, <2>1, FailsFacts DEF e
      <3>2. failures[e] \in Nat /\ MaxAttempts \in Nat
        BY <1>2, ChannelConstants
      <3>3. QED BY <1>2, <3>1, <3>2
    <2>4. lock' \in {"free", "other"} \cup Workers
      BY <1>2, <1>11 DEF Throws, FailEarly, BreakTurn, BreakCommand, BoundaryThrows
    <2>5. UNCHANGED << source, turns, handler, queue, batch, recovery >>
      BY <1>11 DEF Throws, FailEarly, BreakTurn, BreakCommand, BoundaryThrows
    <2>6. QED
      BY <1>2, <1>3, <1>4, <2>2, <2>3, <2>4, <2>5, WorkerKept
  <1>12. CASE StartCommand(w)
    <2> DEFINE v == [worker[w] EXCEPT !.at = "command", !.user = Len(turns) + 1]
    <2>1. /\ turns' \in Seq(TurnRec) /\ Len(turns') = Len(turns) + 1 /\ Moves(w, v)
      BY <1>12, StartCommandFacts
    <2>2. v.user = Len(turns) + 1 /\ v.reply = worker[w].reply /\ v.at = "command"
      BY <1>2 DEF WorkerRec
    <2> HIDE DEF v
    <2>3. /\ v.user <= Len(turns') /\ v.reply <= Len(turns') /\ Len(turns') >= Len(turns)
          /\ row[e].message <= Len(turns') /\ row[e].reply <= Len(turns')
      BY <1>2, <1>3, <2>1, <2>2
    <2>4. UNCHANGED << source, row, handler, queue, batch, lock, recovery, failures >>
      BY <1>12 DEF StartCommand
    <2>5. QED
      BY <1>2, <1>5, <2>1, <2>2, <2>3, <2>4, WorkerKept
  <1>13. CASE AnswerCommand(w)
    <2> DEFINE v == [worker[w] EXCEPT !.at = "returned", !.reply = worker[w].user]
    <2>1. /\ turns' \in Seq(TurnRec) /\ Len(turns') = Len(turns) /\ Moves(w, v)
      BY <1>13, AnswerCommandFacts
    <2>2. v.user = worker[w].user /\ v.reply = worker[w].user /\ v.at = "returned"
      BY <1>2 DEF WorkerRec
    <2> HIDE DEF v
    <2>3. UNCHANGED << source, row, handler, queue, batch, recovery, failures, lock >>
      BY <1>13 DEF AnswerCommand
    <2>4. QED
      BY <1>2, <1>3, <1>5, <2>1, <2>2, <2>3, WorkerKept
  <1>14. QED
    BY <1>6, <1>7, <1>8, <1>9, <1>10, <1>11, <1>12, <1>13 DEF Turn

LEMMA DeliverTypes ==
    ASSUME TypeInv, BoundInv, PhaseInv, NEW w \in Workers, Deliver(w)
    PROVE  TypeInv' /\ BoundInv'
  <1> DEFINE e == worker[w].ev
  <1>1. worker[w].at # "idle"
    BY DEF Deliver, Link, Conclude, SendSegment, SendFails, ToSend, CountSegment, FinishDelivery
  <1>2. /\ Len(turns) \in Nat /\ turns \in Seq(TurnRec) /\ worker[w] \in WorkerRec
        /\ failures \in [Events -> Nat] /\ lock \in {"free", "other"} \cup Workers
        /\ e \in Events /\ row \in RowTable /\ row[e] \in RowRec
    BY <1>1, Busy DEF TypeInv
  <1>3. /\ row[e].message <= Len(turns) /\ row[e].reply <= Len(turns)
        /\ worker[w].user <= Len(turns) /\ worker[w].reply <= Len(turns)
        /\ worker[w].user \in Nat /\ worker[w].reply \in Nat
        /\ row[e].message \in Nat /\ row[e].reply \in Nat
    BY <1>2, RowFields, WorkerFields DEF BoundInv
  <1>4. Resting.user <= Len(turns) /\ Resting.reply <= Len(turns) /\ Resting.at # "sent"
    BY <1>2, RestingZero
  <1>5. Only(row, row, e)
    BY <1>2 DEF Only
  <1> HIDE DEF e
  <1>6. CASE Link(w)
    <2> DEFINE v == [worker[w] EXCEPT !.at = "marking"]
    <2>1. Only(row, row', e) /\ Moves(w, v)
      BY <1>6, LinkFacts DEF e
    <2>2. row'[e].message = worker[w].user /\ row'[e].reply \in {row[e].reply, worker[w].reply}
      <3>1. row'[e] = IF w = "live"
                THEN [row[e] EXCEPT !.message = worker[w].user,
                                    !.reply = IF worker[w].reply = None THEN row[e].reply
                                                                        ELSE worker[w].reply]
                ELSE [row[e] EXCEPT !.message = worker[w].user, !.proc = "processed"]
        BY <1>6, LinkFacts DEF e
      <3>2. QED BY <1>2, <3>1 DEF RowRec
    <2>3. v.user = worker[w].user /\ v.reply = worker[w].reply /\ v.at = "marking"
      BY <1>2 DEF WorkerRec
    <2> HIDE DEF v
    <2>4. UNCHANGED << source, turns, handler, queue, batch, recovery, failures, lock >>
      BY <1>6 DEF Link
    <2>5. QED
      BY <1>2, <1>3, <2>1, <2>2, <2>3, <2>4, WorkerKept
  <1>7. CASE Conclude(w)
    <2> DEFINE v == [worker[w] EXCEPT !.at = "deliver", !.seg = 0]
    <2>1. /\ Only(row, row', e) /\ row'[e].message = row[e].message
          /\ row'[e].reply \in {row[e].reply, worker[w].reply}
          /\ Moves(w, Resting) \/ Moves(w, v)
      BY <1>7, ConcludeFacts DEF e
    <2>2. v.user = worker[w].user /\ v.reply = worker[w].reply /\ v.at = "deliver"
      BY <1>2 DEF WorkerRec
    <2> HIDE DEF v
    <2>3. UNCHANGED << source, turns, handler, queue, batch, recovery, failures, lock >>
      BY <1>7 DEF Conclude
    <2>4. QED
      BY <1>2, <1>3, <1>4, <2>1, <2>2, <2>3, WorkerKept
  <1>8. CASE SendSegment(w)
    <2> DEFINE v == [worker[w] EXCEPT !.at = "sent"]
    <2>1. turns' \in Seq(TurnRec) /\ Len(turns') = Len(turns) /\ Moves(w, v)
      BY <1>8, SendSegmentFacts
    <2>2. worker[w].seg < Segments
      BY <1>8 DEF SendSegment, ToSend
    <2>3. v.user = worker[w].user /\ v.reply = worker[w].reply /\ v.seg = worker[w].seg
      BY <1>2 DEF WorkerRec
    <2> HIDE DEF v
    <2>4. UNCHANGED << source, row, handler, queue, batch, recovery, failures, lock >>
      BY <1>8 DEF SendSegment
    <2>5. QED
      BY <1>2, <1>3, <1>5, <2>1, <2>2, <2>3, <2>4, WorkerKept
  <1>9. CASE CountSegment(w)
    <2> DEFINE v == [worker[w] EXCEPT !.at = "deliver", !.seg = worker[w].seg + 1]
    <2>1. worker[w].seg < Segments
      BY <1>9 DEF CountSegment, BoundInv
    <2>2. Writes(e, [row[e] EXCEPT !.segs = worker[w].seg + 1]) /\ Moves(w, v)
      BY <1>9, <2>1, CountSegmentFacts DEF e
    <2>3. /\ Only(row, row', e)
          /\ row'[e].message = row[e].message /\ row'[e].reply = row[e].reply
      BY <1>2, <2>2 DEF Writes, RowRec
    <2>4. v.user = worker[w].user /\ v.reply = worker[w].reply /\ v.at = "deliver"
      BY <1>2 DEF WorkerRec
    <2> HIDE DEF v
    <2>5. UNCHANGED << source, turns, handler, queue, batch, recovery, failures, lock >>
      BY <1>9 DEF CountSegment
    <2>6. QED
      BY <1>2, <1>3, <2>2, <2>3, <2>4, <2>5, WorkerKept
  <1>10. CASE FinishDelivery(w)
    <2>1. Writes(e, [row[e] EXCEPT !.deliv = "delivered"]) /\ Moves(w, Resting)
      BY <1>10, FinishDeliveryFacts DEF e
    <2>2. /\ Only(row, row', e)
          /\ row'[e].message = row[e].message /\ row'[e].reply = row[e].reply
      BY <1>2, <2>1 DEF Writes, RowRec
    <2>3. UNCHANGED << source, turns, handler, queue, batch, recovery, failures, lock >>
      BY <1>10 DEF FinishDelivery
    <2>4. QED
      BY <1>2, <1>3, <1>4, <2>1, <2>2, <2>3, WorkerKept
  <1>11. ASSUME NEW fatal \in BOOLEAN, NEW posted \in BOOLEAN, SendFails(w, fatal, posted)
         PROVE  TypeInv' /\ BoundInv'
    <2>1. turns' \in Seq(TurnRec) /\ Len(turns') = Len(turns) /\ Moves(w, Resting)
      BY <1>11, SendFailsFacts
    <2>2. \E p \in {"failed", "dead_letter"} :
             Writes(e, [row[e] EXCEPT !.delivTries = row[e].delivTries + 1, !.deliv = p])
      BY <1>11, SendFailsFacts DEF e
    <2>3. /\ Only(row, row', e)
          /\ row'[e].message = row[e].message /\ row'[e].reply = row[e].reply
      BY <1>2, <2>2 DEF Writes, RowRec
    <2>4. UNCHANGED << source, handler, queue, batch, recovery, failures, lock >>
      BY <1>11 DEF SendFails
    <2>5. QED
      BY <1>2, <1>3, <1>4, <2>1, <2>3, <2>4, WorkerKept
  <1>12. QED
    BY <1>6, <1>7, <1>8, <1>9, <1>10, <1>11 DEF Deliver

\* A step on one row that no worker takes.
LEMMA RowKept ==
    ASSUME TypeInv, BoundInv, NEW e \in Events, NEW new \in RowRec, Writes(e, new),
           new.message = row[e].message, new.reply = row[e].reply,
           handler' \in [Events -> {"none", "recorded", "stored"}],
           batch' \in [proc : SUBSET Events, deliv : SUBSET Events,
                       segs : [Events -> 0..Segments]],
           failures' \in [Events -> Nat],
           UNCHANGED << source, turns, queue, worker, lock, recovery >>
    PROVE  TypeInv' /\ BoundInv'
  <1>1. row' \in RowTable /\ row'[e] = new /\ \A d \in Events : d # e => row'[d] = row[d]
    BY DEF Writes, Only
  <1>2. TypeInv'
    BY <1>1 DEF TypeInv
  <1>3. QED BY <1>1, <1>2 DEF BoundInv

\* A row, and its ids, as they are while only a status is written.
LEMMA EventTypes ==
    ASSUME TypeInv, BoundInv, PhaseInv, NEW e \in Events,
           RecordInbound(e) \/ Handle(e) \/ Sweep(e) \/ ReplayDeadLetter(e)
    PROVE  TypeInv' /\ BoundInv'
  <1>1. /\ row \in RowTable /\ row[e] \in RowRec /\ failures \in [Events -> Nat]
        /\ handler \in [Events -> {"none", "recorded", "stored"}]
        /\ batch \in [proc : SUBSET Events, deliv : SUBSET Events,
                      segs : [Events -> 0..Segments]]
        /\ Len(turns) \in Nat
    BY DEF TypeInv, RowTable
  <1>2. CASE RecordInbound(e)
    <2> DEFINE new == [row[e] EXCEPT !.proc = "pending"]
    <2>1. new \in RowRec /\ new.message = row[e].message /\ new.reply = row[e].reply
      BY <1>1 DEF RowRec, ProcStatuses
    <2>2. row' = [row EXCEPT ![e] = new] /\ handler' = [handler EXCEPT ![e] = "recorded"]
      BY <1>2 DEF RecordInbound
    <2> HIDE DEF new
    <2>3. Writes(e, new)
      BY <2>1, <2>2, RowBecomes
    <2>4. QED BY <1>1, <1>2, <2>1, <2>2, <2>3, RowKept DEF RecordInbound
  <1>3. CASE StorePayload(e)
    <2> DEFINE new == [row[e] EXCEPT !.payload = TRUE]
    <2>1. new \in RowRec /\ new.message = row[e].message /\ new.reply = row[e].reply
      BY <1>1 DEF RowRec
    <2>2. row' = [row EXCEPT ![e] = new] /\ handler' = [handler EXCEPT ![e] = "stored"]
      BY <1>3 DEF StorePayload
    <2> HIDE DEF new
    <2>3. Writes(e, new)
      BY <2>1, <2>2, RowBecomes
    <2>4. QED BY <1>1, <1>3, <2>1, <2>2, <2>3, RowKept DEF StorePayload
  <1>4. CASE IngressBlocked(e)
    <2> DEFINE new == [row[e] EXCEPT !.payload = FALSE, !.proc = "processed"]
    <2>1. new \in RowRec /\ new.message = row[e].message /\ new.reply = row[e].reply
      BY <1>1 DEF RowRec, ProcStatuses
    <2>2. Writes(e, new) /\ handler' = [handler EXCEPT ![e] = "none"]
      BY <1>4, IngressBlockedFacts DEF IngressBlocked
    <2> HIDE DEF new
    <2>3. QED BY <1>1, <1>4, <2>1, <2>2, RowKept DEF IngressBlocked
  <1>5. CASE Dispatch(e)
    BY <1>5 DEF Dispatch, TypeInv, BoundInv
  <1>6. CASE SweepBlocked(e)
    <2> DEFINE new == [row[e] EXCEPT !.payload = FALSE, !.proc = "processed"]
    <2>1. new \in RowRec /\ new.message = row[e].message /\ new.reply = row[e].reply
      BY <1>1 DEF RowRec, ProcStatuses
    <2>2. Writes(e, new) /\ NextReplay(e)
      BY <1>6, SweepBlockedFacts DEF SweepBlocked
    <2> HIDE DEF new
    <2>3. QED BY <1>1, <1>6, <2>1, <2>2, RowKept, NextReplayFacts DEF SweepBlocked
  <1>7. CASE SweepDefers(e)
    <2> DEFINE new == [row[e] EXCEPT !.proc = "failed"]
    <2>1. new \in RowRec /\ new.message = row[e].message /\ new.reply = row[e].reply
      BY <1>1 DEF RowRec, ProcStatuses
    <2>2. Writes(e, new) /\ NextReplay(e)
      BY <1>1, <1>7, DeferFacts DEF SweepDefers, Writes
    <2> HIDE DEF new
    <2>3. QED BY <1>1, <1>7, <2>1, <2>2, RowKept, NextReplayFacts DEF SweepDefers
  <1>8. CASE SweepReplays(e)
    <2> DEFINE v == [Resting EXCEPT !.at = "start", !.ev = e]
    <2>1. v \in WorkerRec /\ v.user = 0 /\ v.reply = 0 /\ v.at = "start"
      BY RestingFacts DEF WorkerRec, Resting, None
    <2>2. worker' = [worker EXCEPT !["sweep"] = v] /\ "sweep" \in Workers /\ NextReplay(e)
      BY <1>8 DEF SweepReplays, Workers
    <2> HIDE DEF v
    <2>3. Moves("sweep", v)
      BY <2>1, <2>2, MovesTo
    <2>4. TypeInv'
      BY <1>8, <2>2, <2>3, NextReplayFacts DEF SweepReplays, TypeInv, Moves
    <2>5. /\ \A x \in Workers : worker'[x] = v \/ worker'[x] = worker[x]
          /\ v.user <= Len(turns) /\ v.reply <= Len(turns) /\ v.at # "sent"
      BY <1>1, <2>1, <2>3 DEF Moves
    <2>6. turns' = turns /\ row' = row
      BY <1>8 DEF SweepReplays
    <2>7. QED
      BY <2>4, <2>5, <2>6 DEF BoundInv
  <1>9. CASE SweepDelivers(e)
    <2>1. /\ batch' \in [proc : SUBSET Events, deliv : SUBSET Events,
                         segs : [Events -> 0..Segments]]
          /\ UNCHANGED << source, turns, handler, queue, lock, recovery, failures >>
      BY <1>9, SweepDeliversFacts DEF SweepDelivers
    <2>2. CASE /\ Writes(e, [row[e] EXCEPT !.delivTries = row[e].delivTries + 1,
                                           !.deliv = "dead_letter"])
               /\ worker' = worker
      <3> DEFINE new == [row[e] EXCEPT !.delivTries = row[e].delivTries + 1,
                                       !.deliv = "dead_letter"]
      <3>1. new.message = row[e].message /\ new.reply = row[e].reply
        BY <1>1 DEF RowRec
      <3>2. Writes(e, new)
        BY <2>2
      <3> HIDE DEF new
      <3>3. new \in RowRec
        BY <3>2 DEF Writes, Only, RowTable
      <3>4. QED BY <1>1, <2>1, <2>2, <3>1, <3>2, <3>3, RowKept
    <2>3. ASSUME NEW i \in Rows, Writes(e, [row[e] EXCEPT !.reply = i]),
                 Moves("sweep", [Resting EXCEPT !.at = "deliver", !.ev = e,
                                   !.user = row[e].message, !.reply = i,
                                   !.seg = batch.segs[e]])
          PROVE  TypeInv' /\ BoundInv'
      <3> DEFINE v == [Resting EXCEPT !.at = "deliver", !.ev = e, !.user = row[e].message,
                                      !.reply = i, !.seg = batch.segs[e]]
      <3>1. v.user = row[e].message /\ v.reply = i /\ v.at = "deliver"
        BY DEF Resting
      <3>2. row'[e].message = row[e].message /\ row'[e].reply = i
        BY <1>1, <2>3 DEF Writes, RowRec
      <3>3. Moves("sweep", v)
        BY <2>3
      <3> HIDE DEF v
      <3>4. TypeInv'
        BY <2>1, <2>3, <3>3 DEF TypeInv, Moves, Writes, Only
      <3>5. i <= Len(turns)
        BY DEF Rows
      <3>6. QED
        BY <2>1, <2>3, <3>1, <3>2, <3>3, <3>4, <3>5 DEF BoundInv, Moves, Writes, Only
    <2>4. QED BY <1>9, <2>2, <2>3, SweepDeliversFacts
  <1>10. CASE ReplayDeadLetter(e)
    <2> DEFINE again == [row[e] EXCEPT !.proc = "failed", !.procTries = 0]
               retry == [row[e] EXCEPT !.deliv = "failed", !.delivTries = 0]
    <2>1. /\ again.message = row[e].message /\ again.reply = row[e].reply
          /\ retry.message = row[e].message /\ retry.reply = row[e].reply
      BY <1>1 DEF RowRec
    <2>2. failures' \in [Events -> Nat]
      <3>1. failures' = [failures EXCEPT ![e] = 0] \/ failures' = failures
        BY <1>10 DEF ReplayDeadLetter
      <3>2. QED BY <1>1, <3>1
    <2>3. Writes(e, again) \/ Writes(e, retry)
      BY <1>10, ReplayFacts
    <2> HIDE DEF again, retry
    <2>4. PICK new \in {again, retry} : Writes(e, new)
      BY <2>3
    <2>5. new \in RowRec
      BY <2>4 DEF Writes, Only, RowTable
    <2>6. QED
      BY <1>1, <1>10, <2>1, <2>2, <2>4, <2>5, RowKept DEF ReplayDeadLetter
  <1>11. QED
    BY <1>2, <1>3, <1>4, <1>5, <1>6, <1>7, <1>8, <1>9, <1>10 DEF Handle, Sweep

LEMMA TypeStep ==
    ASSUME TypeInv, BoundInv, PhaseInv, [Next]_vars
    PROVE  TypeInv' /\ BoundInv'
  <1>1. CASE Admit
    <2> DEFINE v == [Resting EXCEPT !.at = "start", !.ev = Head(queue)]
    <2>1. Head(queue) \in Events /\ Tail(queue) \in Seq(Events)
      BY <1>1 DEF Admit, TypeInv
    <2>2. v \in WorkerRec /\ v.user = 0 /\ v.reply = 0 /\ v.at = "start"
      BY <2>1, RestingFacts DEF WorkerRec, Resting, None
    <2>3. worker' = [worker EXCEPT !["live"] = v] /\ "live" \in Workers
      BY <1>1 DEF Admit, Workers
    <2> HIDE DEF v
    <2>4. Moves("live", v)
      BY <2>2, <2>3, MovesTo
    <2>5. TypeInv'
      BY <1>1, <2>1, <2>4 DEF Admit, TypeInv, Moves
    <2>6. Len(turns) \in Nat
      BY DEF TypeInv
    <2>7. /\ \A x \in Workers : worker'[x] = v \/ worker'[x] = worker[x]
          /\ v.user <= Len(turns) /\ v.reply <= Len(turns) /\ v.at # "sent"
      BY <2>2, <2>4, <2>6 DEF Moves
    <2>8. turns' = turns /\ row' = row
      BY <1>1 DEF Admit
    <2>9. QED
      BY <2>5, <2>7, <2>8 DEF BoundInv
  <1>2. CASE StartSweep
    <2>1. PICK p \in SUBSET RetryableEvents, d \in SUBSET RetryableDelivery :
             batch' = [proc |-> p, deliv |-> d, segs |-> [e \in Events |->
                          IF e \in d THEN row[e].segs ELSE 0]]
      BY <1>2 DEF StartSweep
    <2>2. \A e \in Events : row[e].segs \in 0..Segments
      BY RowFields DEF TypeInv, RowTable
    <2>3. [e \in Events |-> IF e \in d THEN row[e].segs ELSE 0] \in [Events -> 0..Segments]
      BY <2>2, ChannelConstants
    <2>4. p \in SUBSET Events /\ d \in SUBSET Events
      BY DEF RetryableEvents, RetryableDelivery
    <2>5. batch' \in [proc : SUBSET Events, deliv : SUBSET Events,
                      segs : [Events -> 0..Segments]]
      BY <2>1, <2>3, <2>4
    <2>6. QED
      BY <1>2, <2>5 DEF StartSweep, TypeInv, BoundInv
  <1>3. CASE OtherTurnStarts \/ OtherTurnEnds
    BY <1>3 DEF OtherTurnStarts, OtherTurnEnds, TypeInv, BoundInv
  <1>4. CASE Crash
    <2>1. TypeInv'
      BY <1>4, CrashFacts DEF Crash, TypeInv
    <2>2. \A e \in Events : row'[e].message = row[e].message /\ row'[e].reply = row[e].reply
      <3>1. \A e \in Events : row[e] \in RowRec /\ row'[e] = [row[e] EXCEPT !.old = row'[e].old]
        BY <1>4, CrashFacts DEF TypeInv, RowTable
      <3>2. QED BY <3>1 DEF RowRec
    <2>3. Len(turns') = Len(turns) /\ Len(turns) \in Nat /\ \A w \in Workers : worker'[w] = Resting
      BY <1>4, CrashFacts DEF TypeInv
    <2>4. QED
      BY <2>1, <2>2, <2>3, RestingZero DEF BoundInv
  <1>5. CASE RecoverOrphans
    <2>1. row' \in RowTable /\ UNCHANGED << source, turns, handler, queue, worker, batch, lock,
                                            failures >>
      BY <1>5, RecoverOrphansFacts DEF RecoverOrphans
    <2>2. \A e \in Events : row'[e].message = row[e].message /\ row'[e].reply = row[e].reply
      <3>1. \A e \in Events : row[e] \in RowRec
        BY DEF TypeInv, RowTable
      <3>2. ASSUME NEW e \in Events
            PROVE  row'[e].message = row[e].message /\ row'[e].reply = row[e].reply
        <4>1. CASE row'[e] = row[e]
          BY <4>1
        <4>2. CASE row'[e] = [row[e] EXCEPT !.proc = "failed"]
          BY <3>1, <4>2 DEF RowRec
        <4>3. QED BY <1>5, <4>1, <4>2, RecoverOrphansFacts
      <3>3. QED BY <3>2
    <2>3. recovery' \subseteq {"orphaned", "stranded"}
      BY <1>5 DEF RecoverOrphans, TypeInv
    <2>4. QED
      BY <2>1, <2>2, <2>3 DEF TypeInv, BoundInv
  <1>6. CASE RecoverStranded
    <2>1. row' \in RowTable /\ UNCHANGED << source, turns, handler, queue, worker, batch, lock,
                                            failures >>
      BY <1>6, RecoverStrandedFacts DEF RecoverStranded
    <2>2. \A e \in Events : row'[e].message = row[e].message /\ row'[e].reply = row[e].reply
      <3>1. \A e \in Events : row[e] \in RowRec
        BY DEF TypeInv, RowTable
      <3>2. ASSUME NEW e \in Events
            PROVE  row'[e].message = row[e].message /\ row'[e].reply = row[e].reply
        <4>1. CASE row'[e] = row[e]
          BY <4>1
        <4>2. CASE row'[e] = [row[e] EXCEPT !.deliv = "failed"]
          BY <3>1, <4>2 DEF RowRec
        <4>3. QED BY <1>6, <4>1, <4>2, RecoverStrandedFacts
      <3>3. QED BY <3>2
    <2>3. recovery' \subseteq {"orphaned", "stranded"}
      BY <1>6 DEF RecoverStranded
    <2>4. QED
      BY <2>1, <2>2, <2>3 DEF TypeInv, BoundInv
  <1>7. CASE UNCHANGED vars
    BY <1>7 DEF vars, TypeInv, BoundInv
  <1>8. QED
    BY <1>1, <1>2, <1>3, <1>4, <1>5, <1>6, <1>7, EventTypes, TurnTypes, DeliverTypes DEF Next

-----------------------------------------------------------------------------
(* An event is in one pair of hands at a time.                             *)

LEMMA PhaseInit == Init => PhaseInv
  <1> SUFFICES ASSUME Init PROVE PhaseInv
    OBVIOUS
  <1>1. /\ \A e \in Events : row[e] = NewRow /\ handler[e] = "none"
        /\ worker["live"] = Resting /\ worker["sweep"] = Resting
        /\ \A w \in Workers : worker[w] = Resting
        /\ batch.proc = {} /\ batch.deliv = {} /\ lock = "free" /\ DOMAIN queue = {}
    BY DEF Init, NoBatch, Workers
  <1>2. Resting.at = "idle"
    BY RestingZero
  <1>3. RowInv
    BY <1>1, ChannelConstants DEF RowInv, NewRow
  <1>4. QueueInv /\ LiveInv /\ SweepInv
    BY <1>1, <1>2 DEF QueueInv, LiveInv, SweepInv
  <1>5. ApartInv
    BY <1>1, <1>2 DEF ApartInv, Workers
  <1>6. QED BY <1>3, <1>4, <1>5 DEF PhaseInv

\* What every row satisfies.
RowShape(r) ==
    /\ r.proc # "processed" => r.deliv = "pending" /\ r.segs = 0
    /\ r.proc \in {"absent", "pending", "failed"} => r.procTries < MaxAttempts
    /\ r.deliv \in {"pending", "failed"} => r.delivTries < MaxAttempts
    /\ r.proc = "absent" => ~r.old

\* What the row of a worker's event satisfies.
Stage(w, v, r) ==
    IF w = "live"
    THEN /\ v.at # "idle" => ~r.old
         /\ v.at \in Pre \cup {"marking"} => r.proc = "pending"
         /\ v.at \in {"deliver", "sent"} => r.proc = "processed" /\ r.deliv = "pending"
    ELSE /\ v.at \in Pre => r.proc = "failed"
         /\ v.at \in {"marking", "deliver", "sent"} =>
               r.proc = "processed" /\ r.deliv \in {"pending", "failed"}

LEMMA Exclusive ==
    ASSUME TypeInv, PhaseInv, NEW w \in Workers, worker[w].at # "idle"
    PROVE  LET e == worker[w].ev IN
           /\ e \in Events /\ RowShape(row[e]) /\ Stage(w, worker[w], row[e])
           /\ handler[e] = "none" /\ \A k \in DOMAIN queue : queue[k] # e
           /\ e \notin batch.proc /\ e \notin batch.deliv
           /\ \A x \in Workers : x # w /\ worker[x].at # "idle" => worker[x].ev # e
  <1> DEFINE e == worker[w].ev
  <1>1. worker[w].at \in Pre \cup {"marking", "deliver", "sent"} /\ e \in Events
    BY Busy, WorkerFields
  <1>2. RowShape(row[e])
    BY <1>1 DEF PhaseInv, RowInv, RowShape
  <1>3. CASE w = "live"
    <2>1. Stage(w, worker[w], row[e])
      BY <1>3 DEF PhaseInv, LiveInv, Stage
    <2>2. \/ /\ row[e].proc = "pending" /\ handler[e] = "none"
             /\ \A k \in DOMAIN queue : queue[k] # e
          \/ row[e].proc = "processed" /\ row[e].deliv = "pending"
      BY <1>1, <1>3 DEF PhaseInv, LiveInv
    <2>3. /\ handler[e] = "none" /\ \A k \in DOMAIN queue : queue[k] # e
          /\ e \notin batch.proc /\ e \notin batch.deliv
      BY <1>1, <2>2 DEF PhaseInv, RowInv, QueueInv
    <2>4. \A x \in Workers : x # w /\ worker[x].at # "idle" => worker[x].ev # e
      BY <1>1, <1>3 DEF PhaseInv, ApartInv, Workers
    <2>5. QED BY <1>1, <1>2, <2>1, <2>3, <2>4
  <1>4. CASE w = "sweep"
    <2>1. Stage(w, worker[w], row[e])
      BY <1>4 DEF PhaseInv, SweepInv, Stage
    <2>2. row[e].proc \in {"failed", "processed"} /\ e \notin batch.proc /\ e \notin batch.deliv
      BY <1>1, <1>4 DEF PhaseInv, SweepInv
    <2>3. handler[e] = "none" /\ \A k \in DOMAIN queue : queue[k] # e
      BY <1>1, <2>2 DEF PhaseInv, RowInv, QueueInv
    <2>4. \A x \in Workers : x # w /\ worker[x].at # "idle" => worker[x].ev # e
      BY <1>1, <1>4 DEF PhaseInv, ApartInv, Workers
    <2>5. QED BY <1>1, <1>2, <2>1, <2>2, <2>3, <2>4
  <1>5. QED BY <1>3, <1>4 DEF Workers

\* A step of a busy worker on the row of its event.
LEMMA WorkerPhase ==
    ASSUME TypeInv, PhaseInv, NEW w \in Workers, worker[w].at # "idle",
           NEW v, Moves(w, v), v.at # "idle" => v.ev = worker[w].ev,
           Only(row, row', worker[w].ev), RowShape(row'[worker[w].ev]),
           Stage(w, v, row'[worker[w].ev]),
           v.at = "marking" => \A x \in Workers : worker[x].at # "marking",
           v.at \in {"turn", "replied"} <=> lock' = w,
           \A x \in Workers : x # w => (lock' = x <=> lock = x),
           UNCHANGED << handler, queue, batch >>
    PROVE  PhaseInv'
  <1> DEFINE e == worker[w].ev
  <1>1. /\ e \in Events /\ handler[e] = "none" /\ \A k \in DOMAIN queue : queue[k] # e
        /\ e \notin batch.proc /\ e \notin batch.deliv
        /\ \A x \in Workers : x # w /\ worker[x].at # "idle" => worker[x].ev # e
    BY Exclusive
  <1>2. /\ row' \in RowTable /\ RowShape(row'[e]) /\ Stage(w, v, row'[e])
        /\ \A d \in Events : d # e => row'[d] = row[d]
    BY DEF Only
  <1>3. /\ worker'[w] = v /\ \A x \in Workers : x # w => worker'[x] = worker[x]
        /\ v.at # "idle" => v.ev = e
    BY DEF Moves
  <1>4. queue \in Seq(Events) /\ \A k \in DOMAIN queue : queue[k] \in Events
    BY DEF TypeInv
  <1> HIDE DEF e
  <1>5. RowInv'
    BY <1>1, <1>2 DEF PhaseInv, RowInv, RowShape
  <1>6. QueueInv'
    BY <1>1, <1>2, <1>4 DEF PhaseInv, QueueInv
  <1>7. LiveInv'
    <2>1. CASE w = "live"
      BY <1>1, <1>2, <1>3, <2>1 DEF LiveInv, Stage
    <2>2. CASE w # "live"
      <3>1. worker'["live"] = worker["live"] /\ "live" \in Workers
        BY <1>3, <2>2 DEF Workers
      <3>2. worker["live"].at # "idle" =>
               worker["live"].ev \in Events /\ row'[worker["live"].ev] = row[worker["live"].ev]
        BY <1>1, <1>2, <2>2, <3>1 DEF PhaseInv, LiveInv
      <3>3. QED BY <3>1, <3>2 DEF PhaseInv, LiveInv
    <2>3. QED BY <2>1, <2>2
  <1>8. SweepInv'
    <2>1. CASE w = "sweep"
      BY <1>1, <1>2, <1>3, <2>1 DEF SweepInv, Stage
    <2>2. CASE w # "sweep"
      <3>1. worker'["sweep"] = worker["sweep"] /\ "sweep" \in Workers
        BY <1>3, <2>2 DEF Workers
      <3>2. worker["sweep"].at # "idle" =>
               worker["sweep"].ev \in Events /\ row'[worker["sweep"].ev] = row[worker["sweep"].ev]
        BY <1>1, <1>2, <2>2, <3>1 DEF PhaseInv, SweepInv
      <3>3. QED BY <3>1, <3>2 DEF PhaseInv, SweepInv
    <2>3. QED BY <2>1, <2>2
  <1>9. ApartInv'
    <2>1. \A x \in Workers : worker'[x].at \in {"turn", "replied"} <=> lock' = x
      BY <1>3 DEF PhaseInv, ApartInv
    <2>2. \A x \in Workers : x # w /\ v.at # "idle" /\ worker'[x].at # "idle" => worker'[x].ev # v.ev
      BY <1>1, <1>3
    <2>3. \A x \in Workers : x # w => ~(v.at = "marking" /\ worker'[x].at = "marking")
      BY <1>3
    <2>4. CASE w = "live"
      BY <1>3, <2>1, <2>2, <2>3, <2>4 DEF ApartInv, Workers
    <2>5. CASE w = "sweep"
      BY <1>3, <2>1, <2>2, <2>3, <2>5 DEF ApartInv, Workers
    <2>6. QED BY <2>4, <2>5 DEF Workers
  <1>10. QED BY <1>5, <1>6, <1>7, <1>8, <1>9 DEF PhaseInv

LEMMA TurnPhase ==
    ASSUME TypeInv, BoundInv, PhaseInv, NEW w \in Workers, Turn(w)
    PROVE  PhaseInv'
  <1> DEFINE e == worker[w].ev
  <1>1. worker[w].at \in Pre /\ worker[w].at # "idle" /\ worker[w].at # "marking"
    BY DEF Turn, HitBusy, Deduplicate, StartTurn, PersistReply, EndTurn, StartCommand,
           AnswerCommand, Throws, FailEarly, BreakTurn, BreakCommand, BoundaryThrows, Pre
  <1>2. /\ worker[w] \in WorkerRec /\ e \in Events /\ row \in RowTable /\ row[e] \in RowRec
        /\ RowShape(row[e]) /\ Stage(w, worker[w], row[e])
    BY <1>1, Busy, Exclusive DEF TypeInv
  <1>3. /\ \A x \in Workers : worker[x].at \in {"turn", "replied"} <=> lock = x
        /\ "free" \notin Workers
    BY DEF PhaseInv, ApartInv, Workers
  <1>5. Only(row, row, e)
    BY <1>2 DEF Only
  <1>6. Resting.at = "idle" /\ \A r : Stage(w, Resting, r)
    BY RestingZero DEF Stage, Pre
  <1> HIDE DEF e
  <1>7. CASE HitBusy(w)
    <2>1. Writes(e, [row[e] EXCEPT !.proc = "failed"]) /\ Moves(w, Resting)
      BY <1>7, HitBusyFacts DEF e
    <2>2. Only(row, row', e) /\ RowShape(row'[e])
      BY <1>1, <1>2, <2>1 DEF Writes, RowRec, RowShape, Stage
    <2>3. worker[w].at = "start" /\ UNCHANGED << handler, queue, batch, lock >>
      BY <1>7 DEF HitBusy
    <2>4. lock' # w /\ \A x \in Workers : x # w => (lock' = x <=> lock = x)
      BY <1>3, <2>3
    <2>5. QED
      BY <1>1, <1>6, <2>1, <2>2, <2>3, <2>4, WorkerPhase DEF e
  <1>8. CASE Deduplicate(w)
    <2>1. PICK id \in KeyedRow(source[worker[w].ev]) :
             \/ Moves(w, [worker[w] EXCEPT !.fresh = TRUE])
             \/ Moves(w, [worker[w] EXCEPT !.at = "returned", !.user = id, !.dedup = TRUE])
      BY <1>8, DeduplicateFacts
    <2> DEFINE again == [worker[w] EXCEPT !.fresh = TRUE]
               found == [worker[w] EXCEPT !.at = "returned", !.user = id, !.dedup = TRUE]
    <2>2. /\ again.at = "start" /\ again.ev = e /\ found.at = "returned" /\ found.ev = e
      BY <1>2, <1>8 DEF WorkerRec, Deduplicate, e
    <2> HIDE DEF again, found
    <2>3. PICK v \in {again, found} : Moves(w, v)
      BY <2>1 DEF again, found
    <2>4. v.at \in {"start", "returned"} /\ v.ev = e
      BY <2>2
    <2>5. Stage(w, v, row[e])
      BY <1>1, <1>2, <2>4 DEF Stage, Pre
    <2>6. worker[w].at = "start" /\ UNCHANGED << row, handler, queue, batch, lock >>
      BY <1>8 DEF Deduplicate
    <2>7. lock' # w /\ \A x \in Workers : x # w => (lock' = x <=> lock = x)
      BY <1>3, <2>6
    <2>8. QED
      BY <1>1, <1>2, <1>5, <2>3, <2>4, <2>5, <2>6, <2>7, WorkerPhase DEF e
  <1>9. CASE StartTurn(w)
    <2> DEFINE v == [worker[w] EXCEPT !.at = "turn", !.user = Len(turns) + 1]
    <2>1. Moves(w, v)
      BY <1>9, StartTurnFacts
    <2>2. v.at = "turn" /\ v.ev = e
      BY <1>2 DEF WorkerRec, e
    <2> HIDE DEF v
    <2>3. Stage(w, v, row[e])
      BY <1>1, <1>2, <2>2 DEF Stage, Pre
    <2>4. lock = "free" /\ lock' = w /\ UNCHANGED << row, handler, queue, batch >>
      BY <1>9 DEF StartTurn
    <2>5. \A x \in Workers : x # w => (lock' = x <=> lock = x)
      BY <1>3, <2>4
    <2>6. QED
      BY <1>1, <1>2, <1>5, <2>1, <2>2, <2>3, <2>4, <2>5, WorkerPhase DEF e
  <1>10. CASE PersistReply(w)
    <2> DEFINE v == [worker[w] EXCEPT !.at = "replied", !.reply = worker[w].user]
    <2>1. Moves(w, v)
      BY <1>10, PersistReplyFacts
    <2>2. v.at = "replied" /\ v.ev = e
      BY <1>2 DEF WorkerRec, e
    <2> HIDE DEF v
    <2>3. Stage(w, v, row[e])
      BY <1>1, <1>2, <2>2 DEF Stage, Pre
    <2>4. worker[w].at = "turn" /\ UNCHANGED << row, handler, queue, batch, lock >>
      BY <1>10 DEF PersistReply
    <2>5. lock' = w /\ \A x \in Workers : x # w => (lock' = x <=> lock = x)
      BY <1>3, <2>4
    <2>6. QED
      BY <1>1, <1>2, <1>5, <2>1, <2>2, <2>3, <2>4, <2>5, WorkerPhase DEF e
  <1>11. CASE EndTurn(w)
    <2> DEFINE v == [worker[w] EXCEPT !.at = "returned"]
    <2>1. Moves(w, v)
      BY <1>11, EndTurnFacts
    <2>2. v.at = "returned" /\ v.ev = e
      BY <1>2 DEF WorkerRec, e
    <2> HIDE DEF v
    <2>3. Stage(w, v, row[e])
      BY <1>1, <1>2, <2>2 DEF Stage, Pre
    <2>4. lock = w /\ lock' = "free" /\ UNCHANGED << row, handler, queue, batch >>
      BY <1>3, <1>11 DEF EndTurn
    <2>5. lock' # w /\ \A x \in Workers : x # w => (lock' = x <=> lock = x)
      BY <1>3, <2>4
    <2>6. QED
      BY <1>1, <1>2, <1>5, <2>1, <2>2, <2>3, <2>4, <2>5, WorkerPhase DEF e
  <1>12. ASSUME NEW fatal \in BOOLEAN, Throws(w, fatal)
         PROVE  PhaseInv'
    <2>1. Fails(w, fatal)
      BY <1>12 DEF Throws, FailEarly, BreakTurn, BreakCommand, BoundaryThrows
    <2>2. Moves(w, Resting)
      BY <1>1, <2>1, FailsFacts
    <2>3. \E p \in {"failed", "dead_letter"} :
             /\ Writes(e, [row[e] EXCEPT !.procTries = row[e].procTries + 1, !.proc = p])
             /\ p = "failed" => row[e].procTries + 1 < MaxAttempts
      BY <1>1, <2>1, FailsFacts DEF e
    <2>4. Only(row, row', e) /\ RowShape(row'[e])
      BY <1>1, <1>2, <2>3 DEF Writes, RowRec, RowShape, Stage
    <2>5. UNCHANGED << handler, queue, batch >>
      BY <1>12 DEF Throws, FailEarly, BreakTurn, BreakCommand, BoundaryThrows
    <2>6. \/ lock' = "free" /\ lock = w
          \/ lock' = lock /\ worker[w].at \notin {"turn", "replied"}
      BY <1>3, <1>12 DEF Throws, FailEarly, BreakTurn, BreakCommand, BoundaryThrows
    <2>7. lock' # w /\ \A x \in Workers : x # w => (lock' = x <=> lock = x)
      BY <1>3, <2>6
    <2>8. QED
      BY <1>1, <1>6, <2>2, <2>4, <2>5, <2>7, WorkerPhase DEF e
  <1>13. CASE StartCommand(w)
    <2> DEFINE v == [worker[w] EXCEPT !.at = "command", !.user = Len(turns) + 1]
    <2>1. Moves(w, v)
      BY <1>13, StartCommandFacts
    <2>2. v.at = "command" /\ v.ev = e
      BY <1>2 DEF WorkerRec, e
    <2> HIDE DEF v
    <2>3. Stage(w, v, row[e])
      BY <1>1, <1>2, <2>2 DEF Stage, Pre
    <2>4. worker[w].at = "start" /\ UNCHANGED << row, handler, queue, batch, lock >>
      BY <1>13 DEF StartCommand
    <2>5. lock' # w /\ \A x \in Workers : x # w => (lock' = x <=> lock = x)
      BY <1>3, <2>4
    <2>6. QED
      BY <1>1, <1>2, <1>5, <2>1, <2>2, <2>3, <2>4, <2>5, WorkerPhase DEF e
  <1>14. CASE AnswerCommand(w)
    <2> DEFINE v == [worker[w] EXCEPT !.at = "returned", !.reply = worker[w].user]
    <2>1. Moves(w, v)
      BY <1>14, AnswerCommandFacts
    <2>2. v.at = "returned" /\ v.ev = e
      BY <1>2 DEF WorkerRec, e
    <2> HIDE DEF v
    <2>3. Stage(w, v, row[e])
      BY <1>1, <1>2, <2>2 DEF Stage, Pre
    <2>4. worker[w].at = "command" /\ UNCHANGED << row, handler, queue, batch, lock >>
      BY <1>14 DEF AnswerCommand
    <2>5. lock' # w /\ \A x \in Workers : x # w => (lock' = x <=> lock = x)
      BY <1>3, <2>4
    <2>6. QED
      BY <1>1, <1>2, <1>5, <2>1, <2>2, <2>3, <2>4, <2>5, WorkerPhase DEF e
  <1>15. QED
    BY <1>7, <1>8, <1>9, <1>10, <1>11, <1>12, <1>13, <1>14 DEF Turn

LEMMA DeliverPhase ==
    ASSUME TypeInv, BoundInv, PhaseInv, NEW w \in Workers, Deliver(w)
    PROVE  PhaseInv'
  <1> DEFINE e == worker[w].ev
  <1>1. worker[w].at \in {"returned", "marking", "deliver", "sent"} /\ worker[w].at # "idle"
    BY DEF Deliver, Link, Conclude, SendSegment, SendFails, ToSend, CountSegment, FinishDelivery
  <1>2. /\ worker[w] \in WorkerRec /\ e \in Events /\ row \in RowTable /\ row[e] \in RowRec
        /\ RowShape(row[e]) /\ Stage(w, worker[w], row[e])
    BY <1>1, Busy, Exclusive DEF TypeInv
  <1>3. lock # w
    BY <1>1 DEF PhaseInv, ApartInv
  <1>4. Only(row, row, e)
    BY <1>2 DEF Only
  <1>5. Resting.at = "idle" /\ \A r : Stage(w, Resting, r)
    BY RestingZero DEF Stage, Pre
  <1>6. UNCHANGED << handler, queue, batch, lock >>
    BY DEF Deliver, Link, Conclude, SendSegment, SendFails, CountSegment, FinishDelivery
  <1>7. lock' # w /\ \A x \in Workers : x # w => (lock' = x <=> lock = x)
    BY <1>3, <1>6
  <1> HIDE DEF e
  <1>8. CASE Link(w)
    <2> DEFINE v == [worker[w] EXCEPT !.at = "marking"]
    <2>1. Only(row, row', e) /\ Moves(w, v)
      BY <1>8, LinkFacts DEF e
    <2>2. v.at = "marking" /\ v.ev = e
      BY <1>2 DEF WorkerRec, e
    <2> HIDE DEF v
    <2>3. row'[e] = IF w = "live"
              THEN [row[e] EXCEPT !.message = worker[w].user,
                                  !.reply = IF worker[w].reply = None THEN row[e].reply
                                                                      ELSE worker[w].reply]
              ELSE [row[e] EXCEPT !.message = worker[w].user, !.proc = "processed"]
      BY <1>8, LinkFacts DEF e
    <2>4. worker[w].at = "returned" /\ worker[w].at \in Pre
      BY <1>8 DEF Link, Pre
    <2>5. RowShape(row'[e]) /\ Stage(w, v, row'[e])
      <3>1. CASE w = "live"
        BY <1>2, <2>2, <2>3, <2>4, <3>1 DEF RowRec, RowShape, Stage
      <3>2. CASE w # "live"
        BY <1>2, <2>2, <2>3, <2>4, <3>2 DEF RowRec, RowShape, Stage, Pre
      <3>3. QED BY <3>1, <3>2
    <2>6. \A x \in Workers : worker[x].at # "marking"
      BY <1>8 DEF Link
    <2>7. QED
      BY <1>1, <1>6, <1>7, <2>1, <2>2, <2>5, <2>6, WorkerPhase DEF e
  <1>9. CASE Conclude(w)
    <2>1. /\ worker[w].at = "marking" /\ Only(row, row', e)
          /\ row'[e].proc = "processed" /\ row'[e].old = row[e].old
          /\ row'[e].delivTries = row[e].delivTries
      BY <1>9, ConcludeFacts DEF e
    <2>2. \/ row'[e].deliv = "delivered" /\ Moves(w, Resting)
          \/ /\ row'[e].deliv = row[e].deliv
             /\ Moves(w, [worker[w] EXCEPT !.at = "deliver", !.seg = 0])
      BY <1>9, ConcludeFacts DEF e
    <2>3. row[e].deliv \in {"pending", "failed"} /\ (w = "live" => row[e].deliv = "pending")
      BY <1>2, <2>1 DEF RowShape, Stage
    <2>4. RowShape(row'[e])
      BY <1>2, <2>1, <2>2, <2>3 DEF RowShape
    <2>5. CASE row'[e].deliv = "delivered" /\ Moves(w, Resting)
      BY <1>1, <1>5, <1>6, <1>7, <2>1, <2>4, <2>5, WorkerPhase DEF e
    <2>6. CASE /\ row'[e].deliv = row[e].deliv
               /\ Moves(w, [worker[w] EXCEPT !.at = "deliver", !.seg = 0])
      <3> DEFINE v == [worker[w] EXCEPT !.at = "deliver", !.seg = 0]
      <3>1. v.at = "deliver" /\ v.ev = e
        BY <1>2 DEF WorkerRec, e
      <3>2. Moves(w, v)
        BY <2>6
      <3> HIDE DEF v
      <3>3. Stage(w, v, row'[e])
        BY <1>2, <2>1, <2>3, <2>6, <3>1 DEF Stage, Pre
      <3>4. QED
        BY <1>1, <1>6, <1>7, <2>1, <2>4, <3>1, <3>2, <3>3, WorkerPhase DEF e
    <2>7. QED BY <2>2, <2>5, <2>6
  <1>10. CASE SendSegment(w)
    <2> DEFINE v == [worker[w] EXCEPT !.at = "sent"]
    <2>1. Moves(w, v) /\ worker[w].at = "deliver" /\ row' = row
      BY <1>10, SendSegmentFacts DEF SendSegment
    <2>2. v.at = "sent" /\ v.ev = e
      BY <1>2 DEF WorkerRec, e
    <2> HIDE DEF v
    <2>3. Stage(w, v, row[e])
      BY <1>2, <2>1, <2>2 DEF Stage, Pre
    <2>4. QED
      BY <1>1, <1>2, <1>4, <1>6, <1>7, <2>1, <2>2, <2>3, WorkerPhase DEF e
  <1>11. CASE CountSegment(w)
    <2> DEFINE v == [worker[w] EXCEPT !.at = "deliver", !.seg = worker[w].seg + 1]
    <2>1. worker[w].seg < Segments /\ worker[w].at = "sent"
      BY <1>11 DEF CountSegment, BoundInv
    <2>2. Writes(e, [row[e] EXCEPT !.segs = worker[w].seg + 1]) /\ Moves(w, v)
      BY <1>11, <2>1, CountSegmentFacts DEF e
    <2>3. v.at = "deliver" /\ v.ev = e
      BY <1>2 DEF WorkerRec, e
    <2> HIDE DEF v
    <2>4. Only(row, row', e) /\ row'[e] = [row[e] EXCEPT !.segs = worker[w].seg + 1]
      BY <2>2 DEF Writes
    <2>5. row[e].proc = "processed"
      BY <1>2, <2>1 DEF Stage
    <2>6. RowShape(row'[e]) /\ Stage(w, v, row'[e])
      BY <1>2, <2>1, <2>3, <2>4, <2>5 DEF RowRec, RowShape, Stage, Pre
    <2>7. QED
      BY <1>1, <1>6, <1>7, <2>2, <2>3, <2>4, <2>6, WorkerPhase DEF e
  <1>12. CASE FinishDelivery(w)
    <2>1. /\ Writes(e, [row[e] EXCEPT !.deliv = "delivered"]) /\ Moves(w, Resting)
          /\ worker[w].at = "deliver"
      BY <1>12, FinishDeliveryFacts DEF e, FinishDelivery
    <2>2. Only(row, row', e) /\ RowShape(row'[e])
      BY <1>2, <2>1 DEF Writes, RowRec, RowShape, Stage
    <2>3. QED
      BY <1>1, <1>5, <1>6, <1>7, <2>1, <2>2, WorkerPhase DEF e
  <1>13. ASSUME NEW fatal \in BOOLEAN, NEW posted \in BOOLEAN, SendFails(w, fatal, posted)
         PROVE  PhaseInv'
    <2>1. Moves(w, Resting) /\ worker[w].at = "deliver"
      BY <1>13, SendFailsFacts
    <2>2. \E p \in {"failed", "dead_letter"} :
             /\ Writes(e, [row[e] EXCEPT !.delivTries = row[e].delivTries + 1, !.deliv = p])
             /\ p = "failed" => row[e].delivTries + 1 < MaxAttempts
      BY <1>13, SendFailsFacts DEF e
    <2>3. Only(row, row', e) /\ RowShape(row'[e])
      BY <1>2, <2>1, <2>2 DEF Writes, RowRec, RowShape, Stage
    <2>4. QED
      BY <1>1, <1>5, <1>6, <1>7, <2>1, <2>3, WorkerPhase DEF e
  <1>14. QED
    BY <1>8, <1>9, <1>10, <1>11, <1>12, <1>13 DEF Deliver

\* No worker is on an event, and it is not in the admission queue.
Free(e) == /\ \A x \in Workers : worker[x].at # "idle" => worker[x].ev # e
           /\ \A k \in DOMAIN queue : queue[k] # e

LEMMA FreeEvents ==
    ASSUME TypeInv, PhaseInv, NEW e \in Events,
           \/ handler[e] # "none" \/ e \in batch.proc \/ e \in batch.deliv
           \/ row[e].proc \in {"absent", "dead_letter"} \/ row[e].deliv = "dead_letter"
    PROVE  Free(e)
  <1>1. ASSUME NEW x \in Workers, worker[x].at # "idle", worker[x].ev = e
        PROVE  FALSE
    <2>1. /\ Stage(x, worker[x], row[e]) /\ RowShape(row[e]) /\ handler[e] = "none"
          /\ e \notin batch.proc /\ e \notin batch.deliv
      BY <1>1, Exclusive
    <2>2. worker[x].at \in Pre \cup {"marking", "deliver", "sent"}
      BY <1>1, WorkerFields DEF TypeInv
    <2>3. QED BY <2>1, <2>2 DEF Stage, RowShape, Workers
  <1>2. \A k \in DOMAIN queue : queue[k] # e
    BY DEF PhaseInv, QueueInv, RowInv
  <1>3. QED BY <1>1, <1>2 DEF Free

\* The two workers, when the rows they are on are as they were.
LEMMA HandsKept ==
    ASSUME TypeInv, PhaseInv, NEW w \in Workers,
           worker'[w] = worker[w],
           worker[w].at # "idle" => row'[worker[w].ev] = row[worker[w].ev],
           \A d \in Events : handler[d] = "none" => \/ handler'[d] = "none"
                                                    \/ worker[w].at # "idle" => worker[w].ev # d,
           \A k \in DOMAIN queue' : \/ \E j \in DOMAIN queue : queue[j] = queue'[k]
                                    \/ worker[w].at # "idle" => worker[w].ev # queue'[k],
           worker[w].at # "idle" => /\ worker[w].ev \notin batch'.proc
                                    /\ worker[w].ev \notin batch'.deliv
    PROVE  (w = "live" => LiveInv') /\ (w = "sweep" => SweepInv')
  <1>1. CASE w = "live"
    <2>1. worker["live"].at # "idle" =>
             /\ worker["live"].ev \in Events
             /\ row'[worker["live"].ev] = row[worker["live"].ev]
             /\ handler'[worker["live"].ev] = "none"
             /\ \A k \in DOMAIN queue' : queue'[k] # worker["live"].ev
      <3> SUFFICES ASSUME worker["live"].at # "idle"
                   PROVE  /\ worker["live"].ev \in Events
                          /\ row'[worker["live"].ev] = row[worker["live"].ev]
                          /\ handler'[worker["live"].ev] = "none"
                          /\ \A k \in DOMAIN queue' : queue'[k] # worker["live"].ev
        OBVIOUS
      <3>1. /\ worker["live"].ev \in Events /\ handler[worker["live"].ev] = "none"
            /\ \A k \in DOMAIN queue : queue[k] # worker["live"].ev
        BY <1>1, Exclusive
      <3>2. QED BY <1>1, <3>1
    <2>2. LiveInv'
      BY <1>1, <2>1 DEF PhaseInv, LiveInv
    <2>3. QED BY <1>1, <2>2
  <1>2. CASE w = "sweep"
    <2>1. SweepInv'
      BY <1>2 DEF PhaseInv, SweepInv
    <2>2. QED BY <1>2, <2>1
  <1>3. QED BY <1>1, <1>2 DEF Workers

\* A step on the row of an event in nobody's hands.
LEMMA FreePhase ==
    ASSUME TypeInv, PhaseInv, NEW e \in Events, Free(e), NEW new, Writes(e, new), RowShape(new),
           handler'[e] # "none" => new.proc = "pending" /\ ~new.old,
           \A d \in Events : d # e => handler'[d] = handler[d],
           batch'.proc \subseteq batch.proc, batch'.deliv \subseteq batch.deliv,
           e \in batch'.proc => new.proc = "failed",
           e \in batch'.deliv => new.proc = "processed" /\ new.deliv = "failed",
           UNCHANGED << queue, worker, lock >>
    PROVE  PhaseInv'
  <1>1. row'[e] = new /\ \A d \in Events : d # e => row'[d] = row[d]
    BY DEF Writes, Only
  <1>2. RowInv'
    BY <1>1 DEF PhaseInv, RowInv, RowShape
  <1>3. QueueInv'
    <2>1. \A k \in DOMAIN queue : queue[k] \in Events /\ queue[k] # e
      BY DEF TypeInv, Free
    <2>2. QED BY <1>1, <2>1 DEF PhaseInv, QueueInv
  <1>4. ASSUME NEW w \in Workers
        PROVE  (w = "live" => LiveInv') /\ (w = "sweep" => SweepInv')
    <2>1. /\ worker'[w] = worker[w]
          /\ worker[w].at # "idle" => /\ worker[w].ev \in Events /\ worker[w].ev # e
                                      /\ worker[w].ev \notin batch.proc
                                      /\ worker[w].ev \notin batch.deliv
      BY Exclusive DEF Free
    <2>2. worker[w].at # "idle" => /\ row'[worker[w].ev] = row[worker[w].ev]
                                   /\ worker[w].ev \notin batch'.proc
                                   /\ worker[w].ev \notin batch'.deliv
      BY <1>1, <2>1
    <2>3. \A d \in Events : handler[d] = "none" => \/ handler'[d] = "none"
                                                   \/ worker[w].at # "idle" => worker[w].ev # d
      BY <2>1
    <2>4. QED BY <2>1, <2>2, <2>3, HandsKept
  <1>5. LiveInv' /\ SweepInv'
    BY <1>4 DEF Workers
  <1>6. ApartInv'
    BY DEF PhaseInv, ApartInv
  <1>7. QED BY <1>2, <1>3, <1>5, <1>6 DEF PhaseInv

\* An idle worker takes an event that nobody else has.
LEMMA TakePhase ==
    ASSUME TypeInv, PhaseInv, NEW w \in Workers, worker[w].at = "idle",
           NEW e \in Events, NEW v, Moves(w, v), v.ev = e, v.at \in {"start", "deliver"},
           Only(row, row', e), RowShape(row'[e]), Stage(w, v, row'[e]),
           \A x \in Workers : worker[x].at # "idle" => worker[x].ev # e,
           handler[e] = "none", QueueInv',
           \A k \in DOMAIN queue' : queue'[k] # e /\ \E j \in DOMAIN queue : queue[j] = queue'[k],
           batch'.proc \subseteq batch.proc, batch'.deliv \subseteq batch.deliv,
           e \notin batch'.proc, e \notin batch'.deliv,
           UNCHANGED << handler, lock >>
    PROVE  PhaseInv'
  <1>1. \A d \in Events : d # e => row'[d] = row[d]
    BY DEF Only
  <1>2. RowInv'
    BY <1>1 DEF PhaseInv, RowInv, RowShape
  <1>3. worker'[w] = v /\ \A x \in Workers : x # w => worker'[x] = worker[x]
    BY DEF Moves
  <1>4. ASSUME NEW x \in Workers, x # w
        PROVE  (x = "live" => LiveInv') /\ (x = "sweep" => SweepInv')
    <2>1. /\ worker'[x] = worker[x]
          /\ worker[x].at # "idle" => /\ worker[x].ev \in Events /\ worker[x].ev # e
                                      /\ worker[x].ev \notin batch.proc
                                      /\ worker[x].ev \notin batch.deliv
      BY <1>3, <1>4, Exclusive
    <2>2. worker[x].at # "idle" => /\ row'[worker[x].ev] = row[worker[x].ev]
                                   /\ worker[x].ev \notin batch'.proc
                                   /\ worker[x].ev \notin batch'.deliv
      BY <1>1, <2>1
    <2>3. \A d \in Events : handler[d] = "none" => handler'[d] = "none"
      OBVIOUS
    <2>4. QED BY <2>1, <2>2, <2>3, HandsKept
  <1>5. (w = "live" => LiveInv') /\ (w = "sweep" => SweepInv')
    BY <1>3 DEF LiveInv, SweepInv, Stage
  <1>6. LiveInv' /\ SweepInv'
    BY <1>4, <1>5 DEF Workers
  <1>7. ApartInv'
    <2>1. \A x \in Workers : worker'[x].at \in {"turn", "replied"} <=> lock' = x
      BY <1>3 DEF PhaseInv, ApartInv
    <2>2. \A x \in Workers : x # w /\ worker'[x].at # "idle" => worker'[x].ev # v.ev
      BY <1>3
    <2>3. CASE w = "live"
      BY <1>3, <2>1, <2>2, <2>3 DEF ApartInv, Workers
    <2>4. CASE w = "sweep"
      BY <1>3, <2>1, <2>2, <2>4 DEF ApartInv, Workers
    <2>5. QED BY <2>3, <2>4 DEF Workers
  <1>8. QED BY <1>2, <1>6, <1>7 DEF PhaseInv

LEMMA EventPhase ==
    ASSUME TypeInv, BoundInv, PhaseInv, NEW e \in Events,
           RecordInbound(e) \/ Handle(e) \/ Sweep(e) \/ ReplayDeadLetter(e)
    PROVE  PhaseInv'
  <1>1. /\ row \in RowTable /\ row[e] \in RowRec /\ RowShape(row[e])
        /\ handler \in [Events -> {"none", "recorded", "stored"}]
        /\ handler[e] # "none" => row[e].proc = "pending" /\ ~row[e].old
        /\ e \in batch.proc => row[e].proc = "failed"
        /\ e \in batch.deliv => row[e].proc = "processed" /\ row[e].deliv = "failed"
        /\ MaxAttempts \in Nat \ {0}
    BY ChannelConstants DEF TypeInv, RowTable, PhaseInv, RowInv, RowShape
  <1>2. Only(row, row, e)
    BY <1>1 DEF Only
  <1>3. CASE RecordInbound(e)
    <2> DEFINE new == [row[e] EXCEPT !.proc = "pending"]
    <2>1. row[e].proc = "absent" /\ ~row[e].old /\ Free(e)
      BY <1>1, <1>3, FreeEvents DEF RecordInbound, IsDuplicate, RowShape
    <2>2. new \in RowRec /\ RowShape(new) /\ new.proc = "pending" /\ ~new.old
      BY <1>1, <2>1 DEF RowRec, RowShape, ProcStatuses
    <2>3. /\ row' = [row EXCEPT ![e] = new] /\ handler' = [handler EXCEPT ![e] = "recorded"]
          /\ UNCHANGED << queue, worker, batch, lock >>
      BY <1>3 DEF RecordInbound
    <2> HIDE DEF new
    <2>4. Writes(e, new)
      BY <2>2, <2>3, RowBecomes
    <2>5. \A d \in Events : d # e => handler'[d] = handler[d]
      BY <1>1, <2>3
    <2>6. e \notin batch'.proc /\ e \notin batch'.deliv
      BY <1>1, <2>1, <2>3
    <2>7. QED BY <2>1, <2>2, <2>3, <2>4, <2>5, <2>6, FreePhase
  <1>4. CASE StorePayload(e)
    <2> DEFINE new == [row[e] EXCEPT !.payload = TRUE]
    <2>1. row[e].proc = "pending" /\ ~row[e].old /\ Free(e)
      BY <1>1, <1>4, FreeEvents DEF StorePayload
    <2>2. new \in RowRec /\ RowShape(new) /\ new.proc = "pending" /\ ~new.old
      BY <1>1, <2>1 DEF RowRec, RowShape
    <2>3. /\ row' = [row EXCEPT ![e] = new] /\ handler' = [handler EXCEPT ![e] = "stored"]
          /\ UNCHANGED << queue, worker, batch, lock >>
      BY <1>4 DEF StorePayload
    <2> HIDE DEF new
    <2>4. Writes(e, new)
      BY <2>2, <2>3, RowBecomes
    <2>5. \A d \in Events : d # e => handler'[d] = handler[d]
      BY <1>1, <2>3
    <2>6. e \notin batch'.proc /\ e \notin batch'.deliv
      BY <1>1, <2>1, <2>3
    <2>7. QED BY <2>1, <2>2, <2>3, <2>4, <2>5, <2>6, FreePhase
  <1>5. CASE IngressBlocked(e)
    <2> DEFINE new == [row[e] EXCEPT !.payload = FALSE, !.proc = "processed"]
    <2>1. row[e].proc = "pending" /\ ~row[e].old /\ Free(e)
      BY <1>1, <1>5, FreeEvents DEF IngressBlocked
    <2>2. RowShape(new)
      BY <1>1, <2>1 DEF RowRec, RowShape
    <2>3. /\ Writes(e, new) /\ handler' = [handler EXCEPT ![e] = "none"]
          /\ UNCHANGED << queue, worker, batch, lock >>
      BY <1>5, IngressBlockedFacts DEF IngressBlocked
    <2> HIDE DEF new
    <2>4. handler'[e] = "none" /\ \A d \in Events : d # e => handler'[d] = handler[d]
      BY <1>1, <2>3
    <2>5. e \notin batch'.proc /\ e \notin batch'.deliv
      BY <1>1, <2>1, <2>3
    <2>6. QED BY <2>1, <2>2, <2>3, <2>4, <2>5, FreePhase
  <1>6. CASE Dispatch(e)
    <2>1. /\ row[e].proc = "pending" /\ ~row[e].old /\ Free(e)
          /\ UNCHANGED << row, worker, batch, lock >>
          /\ handler' = [handler EXCEPT ![e] = "none"] /\ queue' = Append(queue, e)
      BY <1>1, <1>6, FreeEvents DEF Dispatch
    <2>2. handler'[e] = "none" /\ \A d \in Events : d # e => handler'[d] = handler[d]
      BY <1>1, <2>1
    <2>3. RowInv'
      BY <2>1, <2>2 DEF PhaseInv, RowInv
    <2>4. /\ queue \in Seq(Events) /\ Len(queue) \in Nat /\ DOMAIN queue = 1..Len(queue)
          /\ DOMAIN queue' = 1..Len(queue) + 1
          /\ queue'[Len(queue) + 1] = e
          /\ \A k \in DOMAIN queue : queue'[k] = queue[k] /\ queue[k] \in Events /\ queue[k] # e
      BY <2>1 DEF TypeInv, Free
    <2>5. \A k \in DOMAIN queue' : k = Len(queue) + 1 \/ k \in DOMAIN queue
      BY <2>4
    <2>6. QueueInv'
      BY <2>1, <2>2, <2>4, <2>5 DEF PhaseInv, QueueInv
    <2>7. ASSUME NEW w \in Workers
          PROVE  (w = "live" => LiveInv') /\ (w = "sweep" => SweepInv')
      <3>1. /\ worker'[w] = worker[w]
            /\ worker[w].at # "idle" => /\ worker[w].ev # e
                                        /\ row'[worker[w].ev] = row[worker[w].ev]
                                        /\ worker[w].ev \notin batch'.proc
                                        /\ worker[w].ev \notin batch'.deliv
        BY <2>1, Exclusive DEF Free
      <3>2. \A d \in Events : handler[d] = "none" => handler'[d] = "none"
        BY <2>2
      <3>3. \A k \in DOMAIN queue' : \/ \E j \in DOMAIN queue : queue[j] = queue'[k]
                                     \/ worker[w].at # "idle" => worker[w].ev # queue'[k]
        BY <2>4, <2>5, <3>1
      <3>4. QED BY <3>1, <3>2, <3>3, HandsKept
    <2>8. LiveInv' /\ SweepInv'
      BY <2>7 DEF Workers
    <2>9. ApartInv'
      BY <2>1 DEF PhaseInv, ApartInv
    <2>10. QED BY <2>3, <2>6, <2>8, <2>9 DEF PhaseInv
  <1>7. CASE SweepBlocked(e)
    <2> DEFINE new == [row[e] EXCEPT !.payload = FALSE, !.proc = "processed"]
    <2>1. NextReplay(e) /\ UNCHANGED << handler, queue, worker, lock >>
      BY <1>7 DEF SweepBlocked
    <2>2. /\ e \in batch.proc /\ row[e].proc = "failed" /\ Free(e)
          /\ batch'.proc = batch.proc \ {e} /\ batch'.deliv = batch.deliv
      BY <2>1, NextReplayFacts, FreeEvents
    <2>3. RowShape(new)
      BY <1>1, <2>2 DEF RowRec, RowShape
    <2>4. Writes(e, new)
      BY <1>7, SweepBlockedFacts
    <2> HIDE DEF new
    <2>5. handler[e] = "none" /\ e \notin batch.deliv
      BY <1>1, <2>2
    <2>6. QED BY <2>1, <2>2, <2>3, <2>4, <2>5, FreePhase
  <1>8. CASE SweepDefers(e)
    <2> DEFINE new == [row[e] EXCEPT !.proc = "failed"]
    <2>1. NextReplay(e) /\ UNCHANGED << handler, queue, worker, lock >>
      BY <1>8 DEF SweepDefers
    <2>2. /\ e \in batch.proc /\ row[e].proc = "failed" /\ Free(e)
          /\ batch'.proc = batch.proc \ {e} /\ batch'.deliv = batch.deliv
      BY <2>1, NextReplayFacts, FreeEvents
    <2>3. RowShape(new)
      BY <1>1, <2>2 DEF RowRec, RowShape
    <2>4. Writes(e, new)
      BY <1>1, <1>8, DeferFacts DEF SweepDefers, Writes
    <2> HIDE DEF new
    <2>5. handler[e] = "none" /\ e \notin batch.deliv
      BY <1>1, <2>2
    <2>6. QED BY <2>1, <2>2, <2>3, <2>4, <2>5, FreePhase
  <1>9. CASE SweepReplays(e)
    <2> DEFINE v == [Resting EXCEPT !.at = "start", !.ev = e]
    <2>1. NextReplay(e) /\ UNCHANGED << row, handler, queue, lock >>
      BY <1>9 DEF SweepReplays
    <2>2. /\ e \in batch.proc /\ row[e].proc = "failed" /\ Free(e)
          /\ worker["sweep"].at = "idle"
          /\ batch'.proc = batch.proc \ {e} /\ batch'.deliv = batch.deliv
      BY <2>1, NextReplayFacts, FreeEvents
    <2>3. v \in WorkerRec /\ v.at = "start" /\ v.ev = e
      BY RestingFacts
    <2>4. worker' = [worker EXCEPT !["sweep"] = v] /\ "sweep" \in Workers
      BY <1>9 DEF SweepReplays, Workers
    <2> HIDE DEF v
    <2>5. Moves("sweep", v)
      BY <2>3, <2>4, MovesTo
    <2>6. Stage("sweep", v, row[e])
      BY <2>2, <2>3 DEF Stage, Pre
    <2>7. handler[e] = "none" /\ e \notin batch.deliv
      BY <1>1, <2>2
    <2>8. QueueInv'
      BY <2>1 DEF PhaseInv, QueueInv
    <2>9. /\ \A x \in Workers : worker[x].at # "idle" => worker[x].ev # e
          /\ \A k \in DOMAIN queue' : /\ queue'[k] # e
                                      /\ \E j \in DOMAIN queue : queue[j] = queue'[k]
      BY <2>1, <2>2 DEF Free
    <2>10. QED
      BY <1>1, <1>2, <2>1, <2>2, <2>3, <2>4, <2>5, <2>6, <2>7, <2>8, <2>9, TakePhase
  <1>10. CASE SweepDelivers(e)
    <2>1. /\ worker["sweep"].at = "idle" /\ e \in batch.deliv
          /\ batch'.proc = {} /\ batch'.deliv = batch.deliv \ {e} /\ Free(e)
      BY <1>10, SweepDeliversFacts, FreeEvents
    <2>2. UNCHANGED << handler, queue, lock >>
      BY <1>10 DEF SweepDelivers
    <2>3. row[e].proc = "processed" /\ row[e].deliv = "failed" /\ handler[e] = "none"
      BY <1>1, <2>1
    <2>4. CASE /\ Writes(e, [row[e] EXCEPT !.delivTries = row[e].delivTries + 1,
                                           !.deliv = "dead_letter"])
               /\ worker' = worker
      <3> DEFINE new == [row[e] EXCEPT !.delivTries = row[e].delivTries + 1,
                                       !.deliv = "dead_letter"]
      <3>1. RowShape(new) /\ Writes(e, new)
        BY <1>1, <2>3, <2>4 DEF RowRec, RowShape
      <3> HIDE DEF new
      <3>2. QED BY <2>1, <2>2, <2>3, <2>4, <3>1, FreePhase
    <2>5. ASSUME NEW i \in Rows, Writes(e, [row[e] EXCEPT !.reply = i]),
                 Moves("sweep", [Resting EXCEPT !.at = "deliver", !.ev = e,
                                   !.user = row[e].message, !.reply = i,
                                   !.seg = batch.segs[e]])
          PROVE  PhaseInv'
      <3> DEFINE v == [Resting EXCEPT !.at = "deliver", !.ev = e, !.user = row[e].message,
                                      !.reply = i, !.seg = batch.segs[e]]
      <3>1. v.ev = e /\ v.at = "deliver"
        BY DEF Resting
      <3>2. Moves("sweep", v) /\ "sweep" \in Workers
        BY <2>5 DEF Workers
      <3> HIDE DEF v
      <3>3. Only(row, row', e) /\ RowShape(row'[e]) /\ Stage("sweep", v, row'[e])
        BY <1>1, <2>3, <2>5, <3>1 DEF Writes, RowRec, RowShape, Stage, Pre
      <3>4. QueueInv'
        <4>1. \A k \in DOMAIN queue : /\ queue[k] \in Events /\ queue[k] # e
                                      /\ row'[queue[k]] = row[queue[k]]
          BY <2>1, <3>3 DEF TypeInv, Free, Only
        <4>2. QED BY <2>2, <4>1 DEF PhaseInv, QueueInv
      <3>5. /\ \A x \in Workers : worker[x].at # "idle" => worker[x].ev # e
            /\ \A k \in DOMAIN queue' : /\ queue'[k] # e
                                        /\ \E j \in DOMAIN queue : queue[j] = queue'[k]
        BY <2>1, <2>2 DEF Free
      <3>6. QED
        BY <2>1, <2>2, <2>3, <3>1, <3>2, <3>3, <3>4, <3>5, TakePhase
    <2>6. QED BY <1>10, <2>4, <2>5, SweepDeliversFacts
  <1>11. CASE ReplayDeadLetter(e)
    <2> DEFINE again == [row[e] EXCEPT !.proc = "failed", !.procTries = 0]
               retry == [row[e] EXCEPT !.deliv = "failed", !.delivTries = 0]
    <2>1. \/ row[e].proc = "dead_letter" /\ Writes(e, again)
          \/ row[e].proc = "processed" /\ row[e].deliv = "dead_letter" /\ Writes(e, retry)
      BY <1>11, ReplayFacts
    <2>2. /\ row[e].proc = "dead_letter" => RowShape(again)
          /\ row[e].proc = "processed" => RowShape(retry)
      BY <1>1 DEF RowRec, RowShape
    <2> HIDE DEF again, retry
    <2>3. PICK new : Writes(e, new) /\ RowShape(new)
      BY <2>1, <2>2
    <2>4. /\ Free(e) /\ handler[e] = "none" /\ e \notin batch.proc /\ e \notin batch.deliv
          /\ UNCHANGED << handler, queue, worker, batch, lock >>
      BY <1>1, <1>11, <2>1, FreeEvents DEF ReplayDeadLetter
    <2>5. QED BY <2>3, <2>4, FreePhase
  <1>12. QED
    BY <1>3, <1>4, <1>5, <1>6, <1>7, <1>8, <1>9, <1>10, <1>11 DEF Handle, Sweep

LEMMA PhaseStep ==
    ASSUME TypeInv, BoundInv, PhaseInv, [Next]_vars
    PROVE  PhaseInv'
  <1>1. CASE Admit
    <2> DEFINE e == Head(queue)
               v == [Resting EXCEPT !.at = "start", !.ev = e]
    <2>1. /\ queue \in Seq(Events) /\ queue # << >> /\ queue' = Tail(queue)
          /\ worker["live"].at = "idle" /\ UNCHANGED << row, handler, batch, lock >>
          /\ worker' = [worker EXCEPT !["live"] = v] /\ "live" \in Workers
      BY <1>1 DEF Admit, TypeInv, Workers
    <2>2. /\ e \in Events /\ Len(queue) \in Nat \ {0} /\ e = queue[1] /\ 1 \in DOMAIN queue
          /\ DOMAIN queue = 1..Len(queue) /\ DOMAIN queue' = 1..(Len(queue) - 1)
          /\ \A k \in 1..(Len(queue) - 1) : queue'[k] = queue[k + 1]
      BY <2>1
    <2>3. \A k \in DOMAIN queue' : k + 1 \in DOMAIN queue /\ k + 1 # 1 /\ queue'[k] = queue[k + 1]
      BY <2>2
    <2>4. v \in WorkerRec /\ v.at = "start" /\ v.ev = e
      BY <2>2, RestingFacts
    <2> HIDE DEF v, e
    <2>5. Moves("live", v)
      BY <2>1, <2>4, MovesTo
    <2>6. row[e].proc = "pending" /\ ~row[e].old /\ handler[e] = "none"
      BY <2>2 DEF PhaseInv, QueueInv
    <2>7. \A k \in DOMAIN queue' : queue'[k] # e /\ \E j \in DOMAIN queue : queue[j] = queue'[k]
      BY <2>2, <2>3 DEF PhaseInv, QueueInv
    <2>8. QueueInv'
      <3>1. \A j, k \in DOMAIN queue' : queue'[j] = queue'[k] => j + 1 = k + 1
        BY <2>3 DEF PhaseInv, QueueInv
      <3>2. \A j, k \in DOMAIN queue' : j + 1 = k + 1 => j = k
        BY <2>2
      <3>3. \A k \in DOMAIN queue' : /\ handler[queue'[k]] = "none"
                                     /\ row[queue'[k]].proc = "pending" /\ ~row[queue'[k]].old
        BY <2>3 DEF PhaseInv, QueueInv
      <3>4. QED BY <2>1, <3>1, <3>2, <3>3 DEF QueueInv
    <2>9. \A x \in Workers : worker[x].at # "idle" => worker[x].ev # e
      BY <2>2, Exclusive
    <2>10. /\ Only(row, row', e) /\ RowShape(row'[e]) /\ Stage("live", v, row'[e])
           /\ e \notin batch.proc /\ e \notin batch.deliv
      BY <2>1, <2>2, <2>4, <2>6 DEF TypeInv, Only, PhaseInv, RowInv, RowShape, Stage
    <2>11. QED
      BY <2>1, <2>2, <2>4, <2>5, <2>6, <2>7, <2>8, <2>9, <2>10, TakePhase
  <1>2. CASE StartSweep
    <2>1. /\ worker["sweep"].at = "idle" /\ UNCHANGED << row, handler, queue, worker, lock >>
          /\ batch'.proc \subseteq RetryableEvents /\ batch'.deliv \subseteq RetryableDelivery
      BY <1>2 DEF StartSweep, SweepResting
    <2>2. RowInv'
      BY <2>1 DEF PhaseInv, RowInv, RetryableEvents, RetryableDelivery
    <2>3. QueueInv' /\ LiveInv' /\ SweepInv' /\ ApartInv'
      BY <2>1 DEF PhaseInv, QueueInv, LiveInv, SweepInv, ApartInv
    <2>4. QED BY <2>2, <2>3 DEF PhaseInv
  <1>3. CASE OtherTurnStarts \/ OtherTurnEnds
    <2>1. /\ UNCHANGED << row, handler, queue, worker, batch >>
          /\ lock \in {"free", "other"} /\ lock' \in {"free", "other"}
      BY <1>3 DEF OtherTurnStarts, OtherTurnEnds
    <2>2. QED
      BY <2>1 DEF PhaseInv, RowInv, QueueInv, LiveInv, SweepInv, ApartInv, Workers
  <1>4. CASE Crash
    <2>1. /\ \A e \in Events : /\ row[e] \in RowRec /\ handler'[e] = "none"
                               /\ row'[e] = [row[e] EXCEPT !.old = row'[e].old]
                               /\ row'[e].old <=> row[e].proc # "absent"
          /\ \A w \in Workers : worker'[w] = Resting
          /\ batch'.proc = {} /\ batch'.deliv = {} /\ lock' = "free" /\ queue' = << >>
      BY <1>4, CrashFacts DEF Crash, TypeInv, RowTable
    <2>2. ASSUME NEW e \in Events
          PROVE  RowShape(row'[e])
      <3>1. RowShape(row[e])
        BY DEF PhaseInv, RowInv, RowShape
      <3>2. /\ row'[e].proc = row[e].proc /\ row'[e].deliv = row[e].deliv
            /\ row'[e].segs = row[e].segs /\ row'[e].procTries = row[e].procTries
            /\ row'[e].delivTries = row[e].delivTries
        BY <2>1 DEF RowRec
      <3>3. QED BY <2>1, <3>1, <3>2 DEF RowShape
    <2>3. RowInv'
      BY <2>1, <2>2 DEF RowInv, RowShape
    <2>4. worker'["live"].at = "idle" /\ worker'["sweep"].at = "idle"
      BY <2>1, RestingZero DEF Workers
    <2>5. QueueInv' /\ LiveInv' /\ SweepInv'
      BY <2>1, <2>4 DEF QueueInv, LiveInv, SweepInv
    <2>6. ApartInv'
      BY <2>1, <2>4 DEF ApartInv, Workers
    <2>7. QED BY <2>3, <2>5, <2>6 DEF PhaseInv
  <1>5. CASE RecoverOrphans
    <2>1. UNCHANGED << handler, queue, worker, batch, lock >>
      BY <1>5 DEF RecoverOrphans
    <2>2. ASSUME NEW e \in Events, row'[e] # row[e]
          PROVE  /\ row[e].proc = "pending" /\ row[e].old /\ RowShape(row'[e])
                 /\ row'[e].proc = "failed" /\ handler[e] = "none"
      <3>1. row[e] \in RowRec /\ RowShape(row[e])
        BY DEF TypeInv, RowTable, PhaseInv, RowInv, RowShape
      <3>2. row[e].proc = "pending" /\ row[e].old /\ row'[e] = [row[e] EXCEPT !.proc = "failed"]
        BY <1>5, <2>2, RecoverOrphansFacts
      <3>3. RowShape(row'[e]) /\ row'[e].proc = "failed"
        BY <3>1, <3>2 DEF RowShape, RowRec
      <3>4. handler[e] = "none"
        BY <3>2 DEF PhaseInv, RowInv
      <3>5. QED BY <3>2, <3>3, <3>4
    <2>3. RowInv'
      BY <2>1, <2>2 DEF PhaseInv, RowInv, RowShape
    <2>4. \A k \in DOMAIN queue : queue[k] \in Events /\ row'[queue[k]] = row[queue[k]]
      <3>1. \A k \in DOMAIN queue : /\ queue[k] \in Events
                                    /\ row[queue[k]].proc = "pending" /\ ~row[queue[k]].old
        BY DEF TypeInv, PhaseInv, QueueInv
      <3>2. QED BY <2>2, <3>1
    <2>5. QueueInv'
      BY <2>1, <2>4 DEF PhaseInv, QueueInv
    <2>6. ASSUME NEW w \in Workers, worker[w].at # "idle"
          PROVE  row'[worker[w].ev] = row[worker[w].ev]
      <3>1. /\ worker[w].ev \in Events /\ Stage(w, worker[w], row[worker[w].ev])
            /\ worker[w].at \in Pre \cup {"marking", "deliver", "sent"}
        BY <2>6, Exclusive, WorkerFields DEF TypeInv
      <3>2. QED BY <2>2, <2>6, <3>1 DEF Stage, Workers
    <2>7. LiveInv' /\ SweepInv'
      BY <2>1, <2>6 DEF PhaseInv, LiveInv, SweepInv, Workers
    <2>8. ApartInv'
      BY <2>1 DEF PhaseInv, ApartInv
    <2>9. QED BY <2>3, <2>5, <2>7, <2>8 DEF PhaseInv
  <1>6. CASE RecoverStranded
    <2>1. UNCHANGED << handler, queue, worker, batch, lock >>
      BY <1>6 DEF RecoverStranded
    <2>2. ASSUME NEW e \in Events, row'[e] # row[e]
          PROVE  /\ row[e].proc = "processed" /\ row[e].deliv = "pending" /\ row[e].old
                 /\ RowShape(row'[e]) /\ row'[e].proc = "processed" /\ row'[e].deliv = "failed"
                 /\ row'[e].old = row[e].old
      <3>1. row[e] \in RowRec /\ RowShape(row[e])
        BY DEF TypeInv, RowTable, PhaseInv, RowInv, RowShape
      <3>2. /\ row[e].proc = "processed" /\ row[e].deliv = "pending" /\ row[e].old
            /\ row'[e] = [row[e] EXCEPT !.deliv = "failed"]
        BY <1>6, <2>2, RecoverStrandedFacts
      <3>3. QED
        BY <3>1, <3>2 DEF RowShape, RowRec
    <2>3. RowInv'
      BY <2>1, <2>2 DEF PhaseInv, RowInv, RowShape
    <2>4. \A k \in DOMAIN queue : queue[k] \in Events /\ row'[queue[k]] = row[queue[k]]
      <3>1. \A k \in DOMAIN queue : /\ queue[k] \in Events
                                    /\ row[queue[k]].proc = "pending" /\ ~row[queue[k]].old
        BY DEF TypeInv, PhaseInv, QueueInv
      <3>2. QED BY <2>2, <3>1
    <2>5. QueueInv'
      BY <2>1, <2>4 DEF PhaseInv, QueueInv
    <2>6. LiveInv'
      <3>1. worker["live"].at # "idle" => row'[worker["live"].ev] = row[worker["live"].ev]
        BY <2>2 DEF PhaseInv, LiveInv
      <3>2. QED BY <2>1, <3>1 DEF PhaseInv, LiveInv
    <2>7. SweepInv'
      BY <2>1, <2>2 DEF PhaseInv, SweepInv
    <2>8. ApartInv'
      BY <2>1 DEF PhaseInv, ApartInv
    <2>9. QED BY <2>3, <2>5, <2>6, <2>7, <2>8 DEF PhaseInv
  <1>7. CASE UNCHANGED vars
    BY <1>7 DEF vars, PhaseInv, RowInv, QueueInv, LiveInv, SweepInv, ApartInv
  <1>8. QED
    BY <1>1, <1>2, <1>3, <1>4, <1>5, <1>6, <1>7, EventPhase, TurnPhase, DeliverPhase DEF Next

-----------------------------------------------------------------------------
(* The inductive invariant, and the types.                                 *)

LEMMA ChannelInductive == Spec => [](TypeInv /\ BoundInv /\ PhaseInv)
  <1>1. Init => TypeInv /\ BoundInv /\ PhaseInv
    BY TypeInit, PhaseInit
  <1>2. TypeInv /\ BoundInv /\ PhaseInv /\ [Next]_vars => (TypeInv /\ BoundInv /\ PhaseInv)'
    BY TypeStep, PhaseStep
  <1>3. QED BY <1>1, <1>2, PTL DEF Spec

LEMMA TypesMeetBounds == TypeInv /\ BoundInv => ChannelTypeOK
  <1> SUFFICES ASSUME TypeInv, BoundInv PROVE ChannelTypeOK
    OBVIOUS
  <1>1. Len(turns) \in Nat /\ \A n \in Nat : n <= Len(turns) => n \in Rows \cup {None}
    BY DEF TypeInv, Rows, None
  <1>2. \A i \in Rows : turns[i] \in TurnRec
    BY DEF TypeInv, Rows
  <1>3. \A i \in Rows : /\ turns[i].msg \in Messages
                        /\ turns[i].keyed \in BOOLEAN /\ turns[i].replied \in BOOLEAN
                        /\ turns[i].posted \in [1..Segments -> Nat]
                        /\ turns[i].excused \in [1..Segments -> Nat]
    BY <1>2, Zenon DEF TurnRec
  <1> DEFINE Row == [proc : ProcStatuses, deliv : DelivStatuses, payload : BOOLEAN,
                     message : Rows \cup {None}, reply : Rows \cup {None}, segs : 0..Segments,
                     procTries : 0..MaxAttempts, delivTries : 0..MaxAttempts, old : BOOLEAN]
             Worker == [at : {"idle", "start", "turn", "command", "replied",
                              "returned", "marking", "deliver", "sent"},
                        ev : Events \cup {None}, user : Rows \cup {None},
                        reply : Rows \cup {None}, dedup : BOOLEAN,
                        fresh : BOOLEAN, seg : 0..Segments]
  <1>4. ASSUME NEW e \in Events PROVE row[e] \in Row
    <2>1. row[e] \in RowRec
      BY DEF TypeInv, RowTable
    <2>2. row[e].message \in Nat /\ row[e].reply \in Nat
      BY <2>1, RowFields
    <2>3. row[e].message \in Rows \cup {None} /\ row[e].reply \in Rows \cup {None}
      BY <1>1, <2>2 DEF BoundInv
    <2>4. QED BY <2>1, <2>3 DEF RowRec
  <1>5. ASSUME NEW w \in Workers PROVE worker[w] \in Worker
    <2>1. worker[w] \in WorkerRec
      BY DEF TypeInv
    <2>2. worker[w].user \in Nat /\ worker[w].reply \in Nat
      BY <2>1, WorkerFields
    <2>3. worker[w].user \in Rows \cup {None} /\ worker[w].reply \in Rows \cup {None}
      BY <1>1, <2>2 DEF BoundInv
    <2>4. QED BY <2>1, <2>3 DEF WorkerRec, Pre
  <1>6. row \in [Events -> Row] /\ worker \in [Workers -> Worker]
    BY <1>4, <1>5 DEF TypeInv, RowTable
  <1>7. QED BY <1>3, <1>6 DEF TypeInv, ChannelTypeOK

\* The types hold for any events, messages and bounds: the ids the rows and the
\* workers carry name rows of the conversation, and no retry counter passes
\* RETRY_MAX_ATTEMPTS (delivery-status.ts).
THEOREM ChannelTypeCorrect == Spec => []ChannelTypeOK
  <1>1. TypeInv /\ BoundInv /\ PhaseInv => ChannelTypeOK
    BY TypesMeetBounds
  <1>2. QED BY <1>1, ChannelInductive, PTL

-----------------------------------------------------------------------------
(* The rows keep the promise.                                              *)

\* The refinement mapping.
PromiseMap == [e \in Events |-> Promised(row[e])]

\* The moves of an event that DeliveryPromise allows, or none.
Allowed(a, b) == \/ a = b
                 \/ a = "absent" /\ b = "owed"
                 \/ a = "owed" /\ b \in {"settled", "dead"}
                 \/ a = "dead" /\ b = "owed"

LEMMA OnePromise ==
    ASSUME NEW e \in Events, Only(row, row', e), Allowed(Promised(row[e]), Promised(row'[e]))
    PROVE  [Promise!PromiseNext]_([d \in Events |-> Promised(row[d])])
  <1> DEFINE p == [d \in Events |-> Promised(row[d])]
             q == [d \in Events |-> Promised(row'[d])]
  <1>1. \A d \in Events : d # e => q[d] = p[d]
    BY DEF Only
  <1>2. p[e] = Promised(row[e]) /\ q[e] = Promised(row'[e])
    OBVIOUS
  <1>3. p' = q
    OBVIOUS
  <1>4. CASE q[e] = p[e]
    <2>1. q = p
      BY <1>1, <1>4
    <2>2. QED BY <1>3, <2>1
  <1>5. CASE q[e] # p[e]
    <2>1. q = [p EXCEPT ![e] = q[e]]
      BY <1>1
    <2> DEFINE to == q[e]
    <2>2. \/ p[e] = "absent" /\ to = "owed"
          \/ p[e] = "owed" /\ to \in {"settled", "dead"}
          \/ p[e] = "dead" /\ to = "owed"
      BY <1>2, <1>5 DEF Allowed
    <2>3. p' = [p EXCEPT ![e] = to]
      BY <1>3, <2>1
    <2>4. Promise!Accept(e) \/ Promise!Settle(e) \/ Promise!GiveUp(e) \/ Promise!Replay(e)
      <3> HIDE DEF to
      <3>1. CASE p[e] = "absent" /\ to = "owed"
        BY <2>3, <3>1 DEF Promise!Accept, Promise!Becomes
      <3>2. CASE p[e] = "owed" /\ to = "settled"
        BY <2>3, <3>2 DEF Promise!Settle, Promise!Becomes
      <3>3. CASE p[e] = "owed" /\ to = "dead"
        BY <2>3, <3>3 DEF Promise!GiveUp, Promise!Becomes
      <3>4. CASE p[e] = "dead" /\ to = "owed"
        BY <2>3, <3>4 DEF Promise!Replay, Promise!Becomes
      <3>5. QED BY <2>2, <3>1, <3>2, <3>3, <3>4
    <2>5. QED BY <2>4 DEF Promise!PromiseNext
  <1>6. QED BY <1>4, <1>5

LEMMA NoPromise ==
    ASSUME \A e \in Events : Promised(row'[e]) = Promised(row[e])
    PROVE  [Promise!PromiseNext]_([d \in Events |-> Promised(row[d])])
  <1>1. [d \in Events |-> Promised(row'[d])] = [d \in Events |-> Promised(row[d])]
    OBVIOUS
  <1>2. QED BY <1>1

LEMMA PromisedFacts ==
    ASSUME NEW r
    PROVE  /\ r.proc = "absent" => Promised(r) = "absent"
           /\ r.proc = "dead_letter" => Promised(r) = "dead"
           /\ r.proc \in {"pending", "failed"} => Promised(r) = "owed"
           /\ r.proc = "processed" =>
                 /\ r.deliv = "delivered" => Promised(r) = "settled"
                 /\ ~r.payload => Promised(r) = "settled"
                 /\ r.payload /\ r.deliv \in {"pending", "failed"} => Promised(r) = "owed"
                 /\ r.payload /\ r.deliv = "dead_letter" => Promised(r) = "dead"
  BY DEF Promised

\* What a turn does to the promise: its row stays owed, or is given up.
LEMMA TurnPromise ==
    ASSUME TypeInv, BoundInv, PhaseInv, NEW w \in Workers, Turn(w)
    PROVE  [Promise!PromiseNext]_([d \in Events |-> Promised(row[d])])
  <1> DEFINE e == worker[w].ev
  <1>1. worker[w].at \in Pre /\ worker[w].at # "idle"
    BY DEF Turn, HitBusy, Deduplicate, StartTurn, PersistReply, EndTurn, StartCommand,
           AnswerCommand, Throws, FailEarly, BreakTurn, BreakCommand, BoundaryThrows, Pre
  <1>2. e \in Events /\ row[e] \in RowRec /\ row[e].proc \in {"pending", "failed"}
    BY <1>1, Busy
  <1>3. Promised(row[e]) = "owed"
    BY <1>2, PromisedFacts
  <1>4. CASE HitBusy(w)
    <2>1. Writes(e, [row[e] EXCEPT !.proc = "failed"])
      BY <1>4, HitBusyFacts
    <2>2. Only(row, row', e) /\ row'[e].proc = "failed"
      BY <1>2, <2>1 DEF Writes, RowRec
    <2>3. Promised(row'[e]) = "owed"
      BY <2>2, PromisedFacts
    <2>4. QED BY <1>2, <1>3, <2>2, <2>3, OnePromise DEF Allowed
  <1>5. ASSUME NEW fatal \in BOOLEAN, Throws(w, fatal)
        PROVE  [Promise!PromiseNext]_([d \in Events |-> Promised(row[d])])
    <2>1. Fails(w, fatal)
      BY <1>5 DEF Throws, FailEarly, BreakTurn, BreakCommand, BoundaryThrows
    <2>2. \E p \in {"failed", "dead_letter"} :
             Writes(e, [row[e] EXCEPT !.procTries = row[e].procTries + 1, !.proc = p])
      BY <1>1, <2>1, FailsFacts
    <2>3. Only(row, row', e) /\ row'[e].proc \in {"failed", "dead_letter"}
      BY <1>2, <2>2 DEF Writes, RowRec
    <2>4. Promised(row'[e]) \in {"owed", "dead"}
      BY <2>3, PromisedFacts
    <2>5. QED BY <1>2, <1>3, <2>3, <2>4, OnePromise DEF Allowed
  <1>6. CASE row' = row
    BY <1>6, NoPromise
  <1>7. QED
    BY <1>4, <1>5, <1>6 DEF Turn, Deduplicate, StartTurn, PersistReply, EndTurn,
       StartCommand, AnswerCommand

\* What delivery does to it: the row stays owed, is settled, or is given up.
LEMMA DeliverPromise ==
    ASSUME TypeInv, BoundInv, PhaseInv, NEW w \in Workers, Deliver(w)
    PROVE  [Promise!PromiseNext]_([d \in Events |-> Promised(row[d])])
  <1> DEFINE e == worker[w].ev
             Goal == [Promise!PromiseNext]_([d \in Events |-> Promised(row[d])])
  <1>1. worker[w].at \in {"returned", "marking", "deliver", "sent"} /\ worker[w].at # "idle"
    BY DEF Deliver, Link, Conclude, SendSegment, SendFails, ToSend, CountSegment, FinishDelivery
  <1>2. /\ e \in Events /\ row[e] \in RowRec /\ RowShape(row[e]) /\ Stage(w, worker[w], row[e])
    BY <1>1, Busy, Exclusive
  <1>3. /\ row[e].proc \in {"pending", "failed", "processed"}
        /\ row[e].deliv \in {"pending", "failed"}
        /\ worker[w].at \in {"deliver", "sent"} => row[e].proc = "processed"
    BY <1>1, <1>2 DEF RowShape, Stage, Pre
  <1>4. ASSUME Only(row, row', e), row'[e].payload = row[e].payload,
               \/ row'[e].proc = row[e].proc /\ row'[e].deliv = row[e].deliv
               \/ row'[e].proc = "processed"
        PROVE  Goal
    <2>1. Promised(row[e]) \in {"owed", "settled"}
          /\ (Promised(row[e]) = "settled" => row[e].proc = "processed" /\ ~row[e].payload)
      BY <1>3 DEF Promised
    <2>2. CASE row'[e].proc = row[e].proc /\ row'[e].deliv = row[e].deliv
      <3>1. Promised(row'[e]) = Promised(row[e])
        BY <1>4, <2>2 DEF Promised
      <3>2. QED BY <1>2, <1>4, <3>1, OnePromise DEF Allowed
    <2>3. CASE row'[e].proc = "processed"
      <3>1. /\ Promised(row'[e]) \in {"owed", "settled", "dead"}
            /\ ~row[e].payload => Promised(row'[e]) = "settled"
        BY <1>4, <2>3 DEF Promised
      <3>2. QED BY <1>2, <1>4, <2>1, <3>1, OnePromise DEF Allowed
    <2>4. QED BY <1>4, <2>2, <2>3
  <1> HIDE DEF e, Goal
  <1>5. CASE Link(w)
    <2>1. Only(row, row', e)
      BY <1>5, LinkFacts DEF e
    <2>2. row'[e] = IF w = "live"
              THEN [row[e] EXCEPT !.message = worker[w].user,
                                  !.reply = IF worker[w].reply = None THEN row[e].reply
                                                                      ELSE worker[w].reply]
              ELSE [row[e] EXCEPT !.message = worker[w].user, !.proc = "processed"]
      BY <1>5, LinkFacts DEF e
    <2>3. /\ row'[e].payload = row[e].payload
          /\ \/ row'[e].proc = row[e].proc /\ row'[e].deliv = row[e].deliv
             \/ row'[e].proc = "processed"
      BY <1>2, <2>2 DEF RowRec
    <2>4. QED BY <1>4, <2>1, <2>3 DEF Goal
  <1>6. CASE Conclude(w)
    <2>1. Only(row, row', e) /\ row'[e].payload = row[e].payload /\ row'[e].proc = "processed"
      BY <1>6, ConcludeFacts DEF e
    <2>2. QED BY <1>4, <2>1 DEF Goal
  <1>7. CASE SendSegment(w)
    <2>1. row' = row
      BY <1>7 DEF SendSegment
    <2>2. QED BY <2>1, NoPromise
  <1>8. CASE CountSegment(w)
    <2>1. worker[w].seg < Segments /\ worker[w].at = "sent"
      BY <1>8 DEF CountSegment, BoundInv
    <2>2. Writes(e, [row[e] EXCEPT !.segs = worker[w].seg + 1])
      BY <1>8, <2>1, CountSegmentFacts DEF e
    <2>3. /\ Only(row, row', e) /\ row'[e].payload = row[e].payload
          /\ row'[e].proc = row[e].proc /\ row'[e].deliv = row[e].deliv
      BY <1>2, <2>2 DEF Writes, RowRec
    <2>4. QED BY <1>4, <2>3 DEF Goal
  <1>9. CASE FinishDelivery(w)
    <2>1. Writes(e, [row[e] EXCEPT !.deliv = "delivered"]) /\ worker[w].at = "deliver"
      BY <1>9, FinishDeliveryFacts DEF e, FinishDelivery
    <2>2. /\ Only(row, row', e) /\ row'[e].payload = row[e].payload
          /\ row'[e].proc = "processed"
      BY <1>2, <1>3, <2>1 DEF Writes, RowRec
    <2>3. QED BY <1>4, <2>2 DEF Goal
  <1>10. ASSUME NEW fatal \in BOOLEAN, NEW posted \in BOOLEAN, SendFails(w, fatal, posted)
         PROVE  [Promise!PromiseNext]_([d \in Events |-> Promised(row[d])])
    <2>1. worker[w].at = "deliver"
      BY <1>10, SendFailsFacts
    <2>2. \E p \in {"failed", "dead_letter"} :
             Writes(e, [row[e] EXCEPT !.delivTries = row[e].delivTries + 1, !.deliv = p])
      BY <1>10, SendFailsFacts DEF e
    <2>3. /\ Only(row, row', e) /\ row'[e].payload = row[e].payload
          /\ row'[e].proc = "processed"
      BY <1>2, <1>3, <2>1, <2>2 DEF Writes, RowRec
    <2>4. QED BY <1>4, <2>3 DEF Goal
  <1>11. QED
    BY <1>5, <1>6, <1>7, <1>8, <1>9, <1>10 DEF Deliver

\* What the handlers, the sweep and the operator do to it.
LEMMA EventPromise ==
    ASSUME TypeInv, BoundInv, PhaseInv, NEW e \in Events,
           RecordInbound(e) \/ Handle(e) \/ Sweep(e) \/ ReplayDeadLetter(e)
    PROVE  [Promise!PromiseNext]_([d \in Events |-> Promised(row[d])])
  <1>1. row \in RowTable /\ row[e] \in RowRec
    BY DEF TypeInv, RowTable
  <1>2. /\ handler[e] # "none" => row[e].proc = "pending"
        /\ e \in batch.deliv => row[e].proc = "processed" /\ row[e].deliv = "failed"
    BY DEF PhaseInv, RowInv
  <1>3. CASE RecordInbound(e)
    <2> DEFINE new == [row[e] EXCEPT !.proc = "pending"]
    <2>1. new \in RowRec /\ new.proc = "pending" /\ row[e].proc = "absent"
      BY <1>1, <1>3 DEF RowRec, ProcStatuses, RecordInbound, IsDuplicate
    <2>2. row' = [row EXCEPT ![e] = new]
      BY <1>3 DEF RecordInbound
    <2> HIDE DEF new
    <2>3. Only(row, row', e) /\ row'[e].proc = "pending"
      BY <2>1, <2>2, RowBecomes DEF Writes
    <2>4. Promised(row[e]) = "absent" /\ Promised(row'[e]) = "owed"
      BY <2>1, <2>3, PromisedFacts
    <2>5. QED BY <2>3, <2>4, OnePromise DEF Allowed
  <1>4. CASE StorePayload(e)
    <2> DEFINE new == [row[e] EXCEPT !.payload = TRUE]
    <2>1. new \in RowRec /\ new.proc = "pending" /\ row[e].proc = "pending"
      BY <1>1, <1>2, <1>4 DEF RowRec, StorePayload
    <2>2. row' = [row EXCEPT ![e] = new]
      BY <1>4 DEF StorePayload
    <2> HIDE DEF new
    <2>3. Only(row, row', e) /\ row'[e].proc = "pending"
      BY <2>1, <2>2, RowBecomes DEF Writes
    <2>4. Promised(row[e]) = "owed" /\ Promised(row'[e]) = "owed"
      BY <2>1, <2>3, PromisedFacts
    <2>5. QED BY <2>3, <2>4, OnePromise DEF Allowed
  <1>5. CASE IngressBlocked(e) \/ SweepBlocked(e)
    <2>1. row[e].proc \in {"pending", "failed"}
      <3>1. CASE IngressBlocked(e)
        BY <1>2, <3>1 DEF IngressBlocked
      <3>2. CASE SweepBlocked(e)
        BY <3>2, NextReplayFacts DEF SweepBlocked
      <3>3. QED BY <1>5, <3>1, <3>2
    <2>2. Writes(e, [row[e] EXCEPT !.payload = FALSE, !.proc = "processed"])
      BY <1>5, IngressBlockedFacts, SweepBlockedFacts
    <2>3. Only(row, row', e) /\ row'[e].proc = "processed" /\ ~row'[e].payload
      BY <1>1, <2>2 DEF Writes, RowRec
    <2>4. Promised(row[e]) = "owed" /\ Promised(row'[e]) = "settled"
      BY <2>1, <2>3, PromisedFacts
    <2>5. QED BY <2>3, <2>4, OnePromise DEF Allowed
  <1>6. CASE SweepDefers(e)
    <2>1. row[e].proc = "failed"
      BY <1>6, NextReplayFacts DEF SweepDefers
    <2>2. Only(row, row', e) /\ row'[e] = [row[e] EXCEPT !.proc = "failed"]
      BY <1>1, <1>6, DeferFacts DEF SweepDefers
    <2>3. row'[e].proc = "failed"
      BY <1>1, <2>2 DEF RowRec
    <2>4. Promised(row[e]) = "owed" /\ Promised(row'[e]) = "owed"
      BY <2>1, <2>3, PromisedFacts
    <2>5. QED BY <2>2, <2>4, OnePromise DEF Allowed
  <1>7. CASE SweepDelivers(e)
    <2>1. row[e].proc = "processed" /\ row[e].deliv = "failed"
      BY <1>2, <1>7 DEF SweepDelivers
    <2>2. \/ Writes(e, [row[e] EXCEPT !.delivTries = row[e].delivTries + 1,
                                      !.deliv = "dead_letter"])
          \/ \E i \in Rows : Writes(e, [row[e] EXCEPT !.reply = i])
      BY <1>7, SweepDeliversFacts
    <2>3. /\ Only(row, row', e) /\ row'[e].payload = row[e].payload
          /\ row'[e].proc = "processed" /\ row'[e].deliv \in {"failed", "dead_letter"}
      BY <1>1, <2>1, <2>2 DEF Writes, RowRec
    <2>4. /\ Promised(row[e]) = IF row[e].payload THEN "owed" ELSE "settled"
          /\ row[e].payload => Promised(row'[e]) \in {"owed", "dead"}
          /\ ~row[e].payload => Promised(row'[e]) = "settled"
      BY <2>1, <2>3 DEF Promised
    <2>5. QED BY <2>3, <2>4, OnePromise DEF Allowed
  <1>8. CASE ReplayDeadLetter(e)
    <2>1. CASE /\ row[e].proc = "dead_letter"
               /\ Writes(e, [row[e] EXCEPT !.proc = "failed", !.procTries = 0])
      <3>1. Only(row, row', e) /\ row'[e].proc = "failed"
        BY <1>1, <2>1 DEF Writes, RowRec
      <3>2. Promised(row[e]) = "dead" /\ Promised(row'[e]) = "owed"
        BY <2>1, <3>1, PromisedFacts
      <3>3. QED BY <3>1, <3>2, OnePromise DEF Allowed
    <2>2. CASE /\ row[e].proc = "processed" /\ row[e].deliv = "dead_letter"
               /\ Writes(e, [row[e] EXCEPT !.deliv = "failed", !.delivTries = 0])
      <3>1. /\ Only(row, row', e) /\ row'[e].proc = "processed" /\ row'[e].deliv = "failed"
            /\ row'[e].payload = row[e].payload
        BY <1>1, <2>2 DEF Writes, RowRec
      <3>2. /\ row[e].payload => Promised(row[e]) = "dead" /\ Promised(row'[e]) = "owed"
            /\ ~row[e].payload => Promised(row[e]) = "settled" /\ Promised(row'[e]) = "settled"
        BY <2>2, <3>1, PromisedFacts
      <3>3. QED BY <3>1, <3>2, OnePromise DEF Allowed
    <2>3. QED BY <1>8, <2>1, <2>2, ReplayFacts
  <1>9. CASE row' = row
    BY <1>9, NoPromise
  <1>10. QED
    BY <1>3, <1>4, <1>5, <1>6, <1>7, <1>8, <1>9 DEF Handle, Sweep, Dispatch, SweepReplays

LEMMA PromiseStep ==
    ASSUME TypeInv, BoundInv, PhaseInv, [Next]_vars
    PROVE  [Promise!PromiseNext]_([d \in Events |-> Promised(row[d])])
  <1>1. CASE Crash
    <2>1. ASSUME NEW e \in Events PROVE Promised(row'[e]) = Promised(row[e])
      <3>1. row[e] \in RowRec /\ row'[e] = [row[e] EXCEPT !.old = row'[e].old]
        BY <1>1, CrashFacts DEF TypeInv, RowTable
      <3>2. /\ row'[e].proc = row[e].proc /\ row'[e].deliv = row[e].deliv
            /\ row'[e].payload = row[e].payload
        BY <3>1 DEF RowRec
      <3>3. QED BY <3>2 DEF Promised
    <2>2. QED BY <2>1, NoPromise
  <1>2. CASE RecoverOrphans
    <2>1. ASSUME NEW e \in Events PROVE Promised(row'[e]) = Promised(row[e])
      <3>1. row[e] \in RowRec
        BY DEF TypeInv, RowTable
      <3>2. CASE row'[e] = row[e]
        BY <3>2
      <3>3. CASE row[e].proc = "pending" /\ row'[e] = [row[e] EXCEPT !.proc = "failed"]
        <4>1. row'[e].proc = "failed"
          BY <3>1, <3>3 DEF RowRec
        <4>2. QED BY <3>3, <4>1, PromisedFacts
      <3>4. QED BY <1>2, <3>2, <3>3, RecoverOrphansFacts
    <2>2. QED BY <2>1, NoPromise
  <1>3. CASE RecoverStranded
    <2>1. ASSUME NEW e \in Events PROVE Promised(row'[e]) = Promised(row[e])
      <3>1. row[e] \in RowRec
        BY DEF TypeInv, RowTable
      <3>2. CASE row'[e] = row[e]
        BY <3>2
      <3>3. CASE /\ row[e].proc = "processed" /\ row[e].deliv = "pending"
                 /\ row'[e] = [row[e] EXCEPT !.deliv = "failed"]
        <4>1. /\ row'[e].proc = "processed" /\ row'[e].deliv = "failed"
              /\ row'[e].payload = row[e].payload
          BY <3>1, <3>3 DEF RowRec
        <4>2. QED BY <3>3, <4>1 DEF Promised
      <3>4. QED BY <1>3, <3>2, <3>3, RecoverStrandedFacts
    <2>2. QED BY <2>1, NoPromise
  <1>4. CASE row' = row
    BY <1>4, NoPromise
  <1>5. QED
    BY <1>1, <1>2, <1>3, <1>4, EventPromise, TurnPromise, DeliverPromise
    DEF Next, vars, Admit, StartSweep, OtherTurnStarts, OtherTurnEnds

\* The bookkeeping of channel_inbound_events implements the promise, for any
\* events and bounds: through crashes, recovery, contention, redelivery and
\* failures, an accepted event is settled once or given up, nothing owes a
\* settled event again, and only the operator's replay revives a dead letter.
THEOREM RowsKeepThePromise == Spec => KeepsPromise
  <1>1. Init => Promise!PromiseInit
    <2> SUFFICES ASSUME Init PROVE Promise!PromiseInit
      OBVIOUS
    <2>1. \A e \in Events : Promised(row[e]) = "absent"
      BY PromisedFacts DEF Init, NewRow
    <2>2. QED BY <2>1 DEF Promise!PromiseInit
  <1>2. TypeInv /\ BoundInv /\ PhaseInv /\ [Next]_vars
           => [Promise!PromiseNext]_PromiseMap
    BY PromiseStep DEF PromiseMap
  <1>3. Spec => Promise!PromiseInit /\ [][Promise!PromiseNext]_PromiseMap
    BY <1>1, <1>2, ChannelInductive, PTL DEF Spec
  <1>4. QED
    BY <1>3, PTL DEF KeepsPromise, Promise!PromiseSpec, PromiseMap

-----------------------------------------------------------------------------
(* Dead letters have failed.                                               *)

\* Every attempt a row has on record was a failure, and a dead letter has used
\* its budget: what a deferral must not break.
FailInv ==
    \A e \in Events :
        /\ row[e].procTries <= failures[e]
        /\ row[e].proc = "dead_letter" => failures[e] >= MaxAttempts

\* A step burns no attempt of an event and gives no event up.
Spares(e) == /\ row'[e].procTries = row[e].procTries
             /\ row'[e].proc = "dead_letter" => row[e].proc = "dead_letter"

LEMMA SparedFail ==
    ASSUME FailInv, failures' = failures, NEW e \in Events, Spares(e),
           \A d \in Events : d # e => row'[d] = row[d]
    PROVE  FailInv'
  BY DEF FailInv, Spares

LEMMA TurnFail ==
    ASSUME TypeInv, BoundInv, PhaseInv, FailInv, NEW w \in Workers, Turn(w)
    PROVE  FailInv'
  <1> DEFINE e == worker[w].ev
  <1>1. worker[w].at \in Pre /\ worker[w].at # "idle"
    BY DEF Turn, HitBusy, Deduplicate, StartTurn, PersistReply, EndTurn, StartCommand,
           AnswerCommand, Throws, FailEarly, BreakTurn, BreakCommand, BoundaryThrows, Pre
  <1>2. /\ e \in Events /\ row[e] \in RowRec /\ row[e].procTries \in Nat
        /\ row[e].procTries < MaxAttempts /\ MaxAttempts \in Nat
        /\ failures \in [Events -> Nat]
    <2>1. /\ e \in Events /\ row[e] \in RowRec /\ row[e].procTries < MaxAttempts
      BY <1>1, Busy
    <2>2. row[e].procTries \in 0..MaxAttempts
      BY <2>1, RowFields
    <2>3. QED BY <2>1, <2>2, ChannelConstants DEF TypeInv
  <1> HIDE DEF e
  <1>3. CASE HitBusy(w)
    <2>1. Writes(e, [row[e] EXCEPT !.proc = "failed"]) /\ failures' = failures
      BY <1>3, HitBusyFacts DEF e, HitBusy
    <2>2. Spares(e) /\ \A d \in Events : d # e => row'[d] = row[d]
      BY <1>2, <2>1 DEF Writes, Only, RowRec, Spares
    <2>3. QED BY <1>2, <2>1, <2>2, SparedFail
  <1>4. ASSUME NEW fatal \in BOOLEAN, Throws(w, fatal)
        PROVE  FailInv'
    <2>1. Fails(w, fatal)
      BY <1>4 DEF Throws, FailEarly, BreakTurn, BreakCommand, BoundaryThrows
    <2>2. failures' = [failures EXCEPT ![e] = IF fatal THEN MaxAttempts ELSE failures[e] + 1]
      BY <1>1, <2>1, FailsFacts DEF e
    <2>3. PICK p \in {"failed", "dead_letter"} :
             /\ Writes(e, [row[e] EXCEPT !.procTries = row[e].procTries + 1, !.proc = p])
             /\ p = "dead_letter" => fatal \/ row[e].procTries + 1 >= MaxAttempts
      BY <1>1, <2>1, FailsFacts DEF e
    <2>4. /\ row'[e].procTries = row[e].procTries + 1 /\ row'[e].proc = p
          /\ \A d \in Events : d # e => row'[d] = row[d]
      BY <1>2, <2>3 DEF Writes, Only, RowRec
    <2>5. /\ failures'[e] = IF fatal THEN MaxAttempts ELSE failures[e] + 1
          /\ \A d \in Events : d # e => failures'[d] = failures[d]
      BY <1>2, <2>2
    <2>6. /\ row[e].procTries + 1 <= failures'[e]
          /\ p = "dead_letter" => failures'[e] >= MaxAttempts
      <3>1. row[e].procTries <= failures[e] /\ failures[e] \in Nat
        BY <1>2 DEF FailInv
      <3>2. CASE fatal
        BY <1>2, <2>5, <3>1, <3>2
      <3>3. CASE ~fatal
        BY <1>2, <2>3, <2>5, <3>1, <3>3
      <3>4. QED BY <3>2, <3>3
    <2>7. QED BY <2>4, <2>5, <2>6 DEF FailInv
  <1>5. CASE row' = row /\ failures' = failures
    BY <1>5 DEF FailInv
  <1>6. QED
    BY <1>3, <1>4, <1>5 DEF Turn, Deduplicate, StartTurn, PersistReply, EndTurn,
       StartCommand, AnswerCommand

LEMMA DeliverFail ==
    ASSUME TypeInv, BoundInv, PhaseInv, FailInv, NEW w \in Workers, Deliver(w)
    PROVE  FailInv'
  <1> DEFINE e == worker[w].ev
  <1>1. worker[w].at # "idle"
    BY DEF Deliver, Link, Conclude, SendSegment, SendFails, ToSend, CountSegment, FinishDelivery
  <1>2. e \in Events /\ row[e] \in RowRec
    BY <1>1, Busy
  <1>3. failures' = failures
    BY DEF Deliver, Link, Conclude, SendSegment, SendFails, CountSegment, FinishDelivery
  <1> HIDE DEF e
  <1>4. CASE row' = row
    BY <1>3, <1>4 DEF FailInv
  <1>5. ASSUME Only(row, row', e), Spares(e)
        PROVE  FailInv'
    BY <1>2, <1>3, <1>5, SparedFail DEF Only
  <1>6. CASE Link(w)
    <2>1. Only(row, row', e)
      BY <1>6, LinkFacts DEF e
    <2>2. row'[e] = IF w = "live"
              THEN [row[e] EXCEPT !.message = worker[w].user,
                                  !.reply = IF worker[w].reply = None THEN row[e].reply
                                                                      ELSE worker[w].reply]
              ELSE [row[e] EXCEPT !.message = worker[w].user, !.proc = "processed"]
      BY <1>6, LinkFacts DEF e
    <2>3. Spares(e)
      BY <1>2, <2>2 DEF RowRec, Spares
    <2>4. QED BY <1>5, <2>1, <2>3
  <1>7. CASE Conclude(w)
    BY <1>5, <1>7, ConcludeFacts DEF Spares, e
  <1>8. CASE CountSegment(w)
    <2>1. worker[w].seg < Segments
      BY <1>8 DEF CountSegment, BoundInv
    <2>2. Writes(e, [row[e] EXCEPT !.segs = worker[w].seg + 1])
      BY <1>8, <2>1, CountSegmentFacts DEF e
    <2>3. QED BY <1>2, <1>5, <2>2 DEF Writes, RowRec, Spares
  <1>9. CASE FinishDelivery(w)
    <2>1. Writes(e, [row[e] EXCEPT !.deliv = "delivered"])
      BY <1>9, FinishDeliveryFacts DEF e
    <2>2. QED BY <1>2, <1>5, <2>1 DEF Writes, RowRec, Spares
  <1>10. ASSUME NEW fatal \in BOOLEAN, NEW posted \in BOOLEAN, SendFails(w, fatal, posted)
         PROVE  FailInv'
    <2>1. \E p \in {"failed", "dead_letter"} :
             Writes(e, [row[e] EXCEPT !.delivTries = row[e].delivTries + 1, !.deliv = p])
      BY <1>10, SendFailsFacts DEF e
    <2>2. QED BY <1>2, <1>5, <2>1 DEF Writes, RowRec, Spares
  <1>11. QED
    BY <1>4, <1>6, <1>7, <1>8, <1>9, <1>10 DEF Deliver, SendSegment

LEMMA EventFail ==
    ASSUME TypeInv, BoundInv, PhaseInv, FailInv, NEW e \in Events,
           RecordInbound(e) \/ Handle(e) \/ Sweep(e) \/ ReplayDeadLetter(e)
    PROVE  FailInv'
  <1>1. row \in RowTable /\ row[e] \in RowRec /\ failures \in [Events -> Nat]
    BY DEF TypeInv, RowTable
  <1>2. ASSUME Only(row, row', e), Spares(e), failures' = failures
        PROVE  FailInv'
    BY <1>2, SparedFail DEF Only
  <1>3. CASE RecordInbound(e) \/ StorePayload(e)
    <2>1. \/ row' = [row EXCEPT ![e] = [row[e] EXCEPT !.proc = "pending"]]
          \/ row' = [row EXCEPT ![e] = [row[e] EXCEPT !.payload = TRUE]]
      BY <1>3 DEF RecordInbound, StorePayload
    <2>2. /\ [row[e] EXCEPT !.proc = "pending"] \in RowRec
          /\ [row[e] EXCEPT !.payload = TRUE] \in RowRec
      BY <1>1, RowFields DEF ProcStatuses
    <2>3. \/ Writes(e, [row[e] EXCEPT !.proc = "pending"])
          \/ Writes(e, [row[e] EXCEPT !.payload = TRUE])
      BY <2>1, <2>2, RowBecomes
    <2>4. failures' = failures
      BY <1>3 DEF RecordInbound, StorePayload
    <2>5. QED BY <1>1, <1>2, <2>3, <2>4 DEF Writes, RowRec, Spares
  <1>4. CASE IngressBlocked(e) \/ SweepBlocked(e)
    <2>1. Writes(e, [row[e] EXCEPT !.payload = FALSE, !.proc = "processed"])
      BY <1>4, IngressBlockedFacts, SweepBlockedFacts
    <2>2. failures' = failures
      BY <1>4 DEF IngressBlocked, SweepBlocked
    <2>3. QED BY <1>1, <1>2, <2>1, <2>2 DEF Writes, RowRec, Spares
  <1>5. CASE SweepDefers(e)
    <2>1. /\ Only(row, row', e) /\ row'[e] = [row[e] EXCEPT !.proc = "failed"]
          /\ failures' = failures
      BY <1>1, <1>5, DeferFacts DEF SweepDefers
    <2>2. QED BY <1>1, <1>2, <2>1 DEF RowRec, Spares
  <1>6. CASE SweepDelivers(e)
    <2>1. \/ Writes(e, [row[e] EXCEPT !.delivTries = row[e].delivTries + 1,
                                      !.deliv = "dead_letter"])
          \/ \E i \in Rows : Writes(e, [row[e] EXCEPT !.reply = i])
      BY <1>6, SweepDeliversFacts
    <2>2. failures' = failures
      BY <1>6 DEF SweepDelivers
    <2>3. QED BY <1>1, <1>2, <2>1, <2>2 DEF Writes, RowRec, Spares
  <1>7. CASE ReplayDeadLetter(e)
    <2>1. CASE /\ Writes(e, [row[e] EXCEPT !.proc = "failed", !.procTries = 0])
               /\ failures' = [failures EXCEPT ![e] = 0]
      <3>1. /\ row'[e].proc = "failed" /\ row'[e].procTries = 0
            /\ \A d \in Events : d # e => row'[d] = row[d]
        BY <1>1, <2>1 DEF Writes, Only, RowRec
      <3>2. failures'[e] = 0 /\ \A d \in Events : d # e => failures'[d] = failures[d]
        BY <1>1, <2>1
      <3>3. QED BY <3>1, <3>2 DEF FailInv
    <2>2. CASE /\ Writes(e, [row[e] EXCEPT !.deliv = "failed", !.delivTries = 0])
               /\ failures' = failures
      BY <1>1, <1>2, <2>2 DEF Writes, RowRec, Spares
    <2>3. QED BY <1>7, <2>1, <2>2, ReplayFacts
  <1>8. CASE row' = row /\ failures' = failures
    BY <1>8 DEF FailInv
  <1>9. QED
    BY <1>3, <1>4, <1>5, <1>6, <1>7, <1>8 DEF Handle, Sweep, Dispatch, SweepReplays

LEMMA FailStep ==
    ASSUME TypeInv, BoundInv, PhaseInv, FailInv, [Next]_vars
    PROVE  FailInv'
  <1>1. CASE Crash \/ RecoverOrphans \/ RecoverStranded
    <2>1. ASSUME NEW e \in Events PROVE Spares(e)
      <3>1. row[e] \in RowRec
        BY DEF TypeInv, RowTable
      <3>2. CASE row'[e] = [row[e] EXCEPT !.old = row'[e].old]
        BY <3>1, <3>2 DEF Spares, RowRec
      <3>3. CASE row'[e] = [row[e] EXCEPT !.proc = "failed"]
        BY <3>1, <3>3 DEF Spares, RowRec
      <3>4. CASE row'[e] = [row[e] EXCEPT !.deliv = "failed"]
        BY <3>1, <3>4 DEF Spares, RowRec
      <3>5. CASE row'[e] = row[e]
        BY <3>5 DEF Spares
      <3>6. QED
        BY <1>1, <3>2, <3>3, <3>4, <3>5, CrashFacts, RecoverOrphansFacts, RecoverStrandedFacts
    <2>2. failures' = failures
      BY <1>1 DEF Crash, RecoverOrphans, RecoverStranded
    <2>3. QED BY <2>1, <2>2 DEF FailInv, Spares
  <1>2. CASE row' = row /\ failures' = failures
    BY <1>2 DEF FailInv
  <1>3. QED
    BY <1>1, <1>2, EventFail, TurnFail, DeliverFail
    DEF Next, vars, Admit, StartSweep, OtherTurnStarts, OtherTurnEnds

\* Contention never drops a message, for any events and budget: an event whose
\* processing is given up has had as many real failures as the budget allows
\* since its last replay, or a fatal one; a deferral costs nothing
\* (deferRetryUntilIdle, recordProcessingFailure).
THEOREM DeadLettersReallyFailed == Spec => []DeadLettersHaveFailed
  <1>1. Init => FailInv
    BY DEF Init, FailInv, NewRow
  <1>2. TypeInv /\ BoundInv /\ PhaseInv /\ FailInv /\ [Next]_vars => FailInv'
    BY FailStep
  <1>3. FailInv => DeadLettersHaveFailed
    BY DEF FailInv, DeadLettersHaveFailed
  <1>4. QED BY <1>1, <1>2, <1>3, ChannelInductive, PTL DEF Spec

=============================================================================
