--------------------------- MODULE ChannelDelivery ---------------------------
(***************************************************************************)
(* Channel ingress, the turn a channel message starts, and the delivery of *)
(* its reply, in one conversation of a channel with a reply callback.      *)
(* Every inbound event has a row in channel_inbound_events.  Two workers   *)
(* drive rows: the live path (processChannelMessageInBackground, one event *)
(* at a time behind the conversation's admission) and the retry sweep, one *)
(* at a time behind sweepInProgress.  A daemon crash loses both; the rows, *)
(* the messages and what was posted stay.                                  *)
(* Left out: live streaming into Slack (a retry edits the streamed message *)
(* in place), rows without a callback, and acknowledgeDelivery, which no   *)
(* part of the repository calls.                                           *)
(***************************************************************************)
EXTENDS Integers, Sequences, FiniteSets

CONSTANTS
    Events,        \* (channel, chat, externalMessageId): one row each
    Messages,      \* what the user sent: a native id, e.g. a Slack ts
    Keyed,         \* messages of channels with an idempotency key (Slack)
    Commands,      \* messages that processMessage answers without the loop
    Sources,       \* the maps from events to messages a run considers
    Segments,      \* text segments of a reply
    MaxAttempts,   \* RETRY_MAX_ATTEMPTS
    MaxCrashes, MaxOthers, MaxReplays       \* bounds of a run

ASSUME ChannelConstants ==
    /\ IsFiniteSet(Events) /\ Keyed \subseteq Messages /\ Commands \subseteq Messages
    /\ Sources \subseteq [Events -> Messages]
    /\ Segments \in Nat \ {0} /\ MaxAttempts \in Nat \ {0}
    /\ MaxCrashes \in Nat /\ MaxOthers \in Nat /\ MaxReplays \in Nat

VARIABLES
    source,        \* which message an event announces; siblings share one
    row,           \* channel_inbound_events
    turns,         \* user rows of the conversation, in order
    handler,       \* the HTTP handler of a new event, up to its dispatch
    queue,         \* admission: dispatched events waiting for their flight
    worker,        \* the live flight and the sweep
    batch,         \* what the running sweep read when it started
    lock,          \* who holds the conversation's processing flag
    recovery,      \* recovery steps the monitor still has to run
    crashes, others, replays,               \* bounded by the constants
    failures,      \* history: real processing failures since the last replay
    rework         \* history: answered turns that were forgotten, per message

vars == <<source, row, turns, handler, queue, worker, batch, lock, recovery,
          crashes, others, replays, failures, rework>>

None == 0
ProcStatuses  == {"absent", "pending", "processed", "failed", "dead_letter"}
DelivStatuses == {"pending", "delivered", "failed", "dead_letter"}
Terminal      == DelivStatuses \ {"pending"}
Workers       == {"live", "sweep"}

NewRow == [proc |-> "absent", deliv |-> "pending", payload |-> FALSE,
           message |-> None, reply |-> None, segs |-> 0,
           procTries |-> 0, delivTries |-> 0, old |-> FALSE]

Resting == [at |-> "idle", ev |-> None, user |-> None, reply |-> None,
            dedup |-> FALSE, fresh |-> FALSE, seg |-> 0]

NoBatch == [proc |-> {}, deliv |-> {}, segs |-> [e \in Events |-> 0]]

Rows == 1..Len(turns)

-----------------------------------------------------------------------------
(* The statements of delivery-status.ts and delivery-crud.ts.              *)

MarkProcessed(r, e) == [r EXCEPT ![e].proc = "processed"]

MarkDeliveryDelivered(r, e) == [r EXCEPT ![e].deliv = "delivered"]

LinkMessage(r, e, id) == [r EXCEPT ![e].message = id]

StoreReplyMessageId(r, e, id) ==
    IF id = None THEN r ELSE [r EXCEPT ![e].reply = id]

\* Mutant: the budget is compared after the attempt it should forbid.
RecordProcessingFailureLate(r, e, fatal) ==
    [r EXCEPT ![e].procTries = @ + 1,
              ![e].proc = IF fatal \/ r[e].procTries >= MaxAttempts THEN "dead_letter"
                                                                    ELSE "failed"]

RecordProcessingFailure(r, e, fatal) ==
    LET n == r[e].procTries + 1 IN
    [r EXCEPT ![e].procTries = n,
              ![e].proc = IF fatal \/ n >= MaxAttempts THEN "dead_letter"
                                                       ELSE "failed"]

RecordDeliveryFailure(r, e, fatal) ==
    LET n == r[e].delivTries + 1 IN
    [r EXCEPT ![e].delivTries = n,
              ![e].deliv = IF fatal \/ n >= MaxAttempts THEN "dead_letter"
                                                        ELSE "failed"]

\* Mutants: a deferral burns an attempt; a deferral only moves retryAfter.
DeferBurnsAttempt(r, e) == RecordProcessingFailure(r, e, FALSE)
DeferKeepsStatus(r, e) == r

DeferRetryUntilIdle(r, e) == [r EXCEPT ![e].proc = "failed"]

\* Mutant: any linked sibling counts as the owner.
OwnedByAnySibling(r, id, e) == \E s \in Events \ {e} : r[s].message = id

OwnedBySibling(r, id, e) ==
    \E s \in Events \ {e} : r[s].message = id /\ r[s].deliv \in Terminal

\* The user row a keyed message already has.
KeyedRow(m) == {i \in Rows : turns[i].msg = m /\ turns[i].keyed}

-----------------------------------------------------------------------------
(* Ingress.                                                                *)

Init ==
    /\ source \in Sources
    /\ row = [e \in Events |-> NewRow]
    /\ turns = <<>>
    /\ handler = [e \in Events |-> "none"]
    /\ queue = <<>>
    /\ worker = [w \in Workers |-> Resting]
    /\ batch = NoBatch
    /\ lock = "free"
    /\ recovery = {}
    /\ crashes = 0 /\ others = 0 /\ replays = 0
    /\ failures = [e \in Events |-> 0]
    /\ rework = [m \in Messages |-> 0]

\* Mutant: a redelivery is recorded again.
NeverDuplicate(e) == FALSE

\* recordInbound finds the row of a redelivered event and reports a duplicate.
IsDuplicate(e) == row[e].proc # "absent"

\* The handler inserts the row and goes on; for a duplicate it dispatches
\* nothing and returns.
RecordInbound(e) ==
    /\ handler[e] = "none"
    /\ ~IsDuplicate(e)
    /\ row' = [row EXCEPT ![e].proc = "pending"]
    /\ handler' = [handler EXCEPT ![e] = "recorded"]
    /\ UNCHANGED <<source, turns, queue, worker, batch, lock, recovery,
                   crashes, others, replays, failures, rework>>

\* The payload is stored before the secret scan.
StorePayload(e) ==
    /\ handler[e] = "recorded"
    /\ row' = [row EXCEPT ![e].payload = TRUE]
    /\ handler' = [handler EXCEPT ![e] = "stored"]
    /\ UNCHANGED <<source, turns, queue, worker, batch, lock, recovery,
                   crashes, others, replays, failures, rework>>

\* A secret, or disk pressure before the payload was stored: the payload is
\* cleared and the event settled without a turn.
IngressBlocked(e) ==
    /\ handler[e] = "recorded"
    /\ row' = MarkProcessed([row EXCEPT ![e].payload = FALSE], e)
    /\ handler' = [handler EXCEPT ![e] = "none"]
    /\ UNCHANGED <<source, turns, queue, worker, batch, lock, recovery,
                   crashes, others, replays, failures, rework>>

\* After the awaits that follow the scan: hand over to the background path.
Dispatch(e) ==
    /\ handler[e] = "stored"
    /\ handler' = [handler EXCEPT ![e] = "none"]
    /\ queue' = Append(queue, e)
    /\ UNCHANGED <<source, row, turns, worker, batch, lock, recovery,
                   crashes, others, replays, failures, rework>>

-----------------------------------------------------------------------------
(* A turn, run by either worker.                                           *)

\* withChannelTurnAdmission: first come first served, once the conversation
\* is idle; the flight lasts until the reply is delivered.
Admit ==
    /\ worker["live"].at = "idle" /\ queue # <<>> /\ lock = "free"
    /\ worker' = [worker EXCEPT !["live"] =
                     [Resting EXCEPT !.at = "start", !.ev = Head(queue)]]
    /\ queue' = Tail(queue)
    /\ UNCHANGED <<source, row, turns, handler, batch, lock, recovery,
                   crashes, others, replays, failures, rework>>

Rest(w) == worker' = [worker EXCEPT ![w] = Resting]

\* processMessage throws: recorded against the budget, or fatal at once.
Fails(w, fatal) ==
    LET e == worker[w].ev IN
    /\ row' = RecordProcessingFailure(row, e, fatal)
    /\ failures' = [failures EXCEPT ![e] = IF fatal THEN MaxAttempts ELSE @ + 1]
    /\ Rest(w)

\* The processing flag was taken since the idle check.
HitBusy(w) ==
    /\ worker[w].at = "start" /\ lock # "free"
    /\ row' = DeferRetryUntilIdle(row, worker[w].ev)
    /\ Rest(w)
    /\ UNCHANGED <<source, turns, handler, queue, batch, lock, recovery,
                   crashes, others, replays, failures, rework>>

\* An error before the user row is written.
FailEarly(w, fatal) ==
    /\ worker[w].at = "start"
    /\ Fails(w, fatal)
    /\ UNCHANGED <<source, turns, handler, queue, batch, lock, recovery,
                   crashes, others, replays, rework>>

\* The idempotency key of this call already has a user row.  The loop is not
\* run; the sweep runs a turn without the key when the row has no reply.
MustRerun(w, id) == w = "sweep" /\ ~turns[id].replied

Deduplicate(w) ==
    LET v == worker[w] IN
    /\ v.at = "start" /\ lock = "free" /\ ~v.fresh
    /\ \E id \in KeyedRow(source[v.ev]) :
          worker' = [worker EXCEPT ![w] =
                       IF MustRerun(w, id)
                       THEN [v EXCEPT !.fresh = TRUE]
                       ELSE [v EXCEPT !.at = "returned", !.user = id, !.dedup = TRUE]]
    /\ UNCHANGED <<source, row, turns, handler, queue, batch, lock, recovery,
                   crashes, others, replays, failures, rework>>

UserRow(m, key) == [msg |-> m, keyed |-> key, replied |-> FALSE,
                    posted |-> [s \in 1..Segments |-> 0],
                    excused |-> [s \in 1..Segments |-> 0]]

\* Mutant: the turn is persisted without its idempotency key.
CarriesNoKey(w) == FALSE

CarriesKey(w) == source[worker[w].ev] \in Keyed /\ ~worker[w].fresh

\* The user row is written under the processing flag and the loop starts.
StartTurn(w) ==
    LET v == worker[w]
        m == source[v.ev] IN
    /\ v.at = "start" /\ lock = "free" /\ m \notin Commands
    /\ CarriesKey(w) => KeyedRow(m) = {}
    /\ turns' = Append(turns, UserRow(m, CarriesKey(w)))
    /\ lock' = w
    /\ worker' = [worker EXCEPT ![w].at = "turn", ![w].user = Len(turns) + 1]
    /\ UNCHANGED <<source, row, handler, queue, batch, recovery,
                   crashes, others, replays, failures, rework>>

\* The loop persists the reply of the turn, and finishes later.
PersistReply(w) ==
    /\ worker[w].at = "turn"
    /\ turns' = [turns EXCEPT ![worker[w].user].replied = TRUE]
    /\ worker' = [worker EXCEPT ![w].at = "replied", ![w].reply = worker[w].user]
    /\ UNCHANGED <<source, row, handler, queue, batch, lock, recovery,
                   crashes, others, replays, failures, rework>>

\* The loop throws after the user row was written.
BreakTurn(w, fatal) ==
    /\ worker[w].at = "turn"
    /\ lock' = "free"
    /\ Fails(w, fatal)
    /\ UNCHANGED <<source, turns, handler, queue, batch, recovery,
                   crashes, others, replays, rework>>

\* A slash command: its user row carries no key, is compared with none, and is
\* written without the processing flag.
StartCommand(w) ==
    LET v == worker[w]
        m == source[v.ev] IN
    /\ v.at = "start" /\ m \in Commands
    /\ turns' = Append(turns, UserRow(m, FALSE))
    /\ worker' = [worker EXCEPT ![w].at = "command", ![w].user = Len(turns) + 1]
    /\ UNCHANGED <<source, row, handler, queue, batch, lock, recovery,
                   crashes, others, replays, failures, rework>>

AnswerCommand(w) ==
    /\ worker[w].at = "command"
    /\ turns' = [turns EXCEPT ![worker[w].user].replied = TRUE]
    /\ worker' = [worker EXCEPT ![w].at = "returned", ![w].reply = worker[w].user]
    /\ UNCHANGED <<source, row, handler, queue, batch, lock, recovery,
                   crashes, others, replays, failures, rework>>

\* Compaction, cleaning or the write of the answer throws.
BreakCommand(w, fatal) ==
    /\ worker[w].at = "command"
    /\ Fails(w, fatal)
    /\ UNCHANGED <<source, turns, handler, queue, batch, lock, recovery,
                   crashes, others, replays, rework>>

\* The loop ends: with its reply, or without one (a failed turn does not throw).
EndTurn(w) ==
    /\ worker[w].at \in {"turn", "replied"}
    /\ lock' = "free"
    /\ worker' = [worker EXCEPT ![w].at = "returned"]
    /\ UNCHANGED <<source, row, turns, handler, queue, batch, recovery,
                   crashes, others, replays, failures, rework>>

\* The turn of w has its reply, the event is not processed yet, and no key
\* recognises the user row if the event is replayed.
Forgotten(w) ==
    LET v == worker[w] IN
    /\ v.at \in {"replied", "returned"} \/ (w = "live" /\ v.at = "marking")
    /\ turns[v.user].replied /\ ~turns[v.user].keyed

\* The commit at the turn boundary throws out of the loop's finally, after the
\* processing flag was released and whether or not the turn has its reply.
BoundaryThrows(w, fatal) ==
    LET v == worker[w] IN
    /\ v.at = "returned" /\ ~v.dedup /\ source[v.ev] \notin Commands
    /\ Fails(w, fatal)
    /\ rework' = [rework EXCEPT ![source[v.ev]] = IF Forgotten(w) THEN @ + 1 ELSE @]
    /\ UNCHANGED <<source, turns, handler, queue, batch, lock, recovery,
                   crashes, others, replays>>

-----------------------------------------------------------------------------
(* Bookkeeping after a turn, and delivery.                                 *)

\* The live path stores the reply id and then marks the event processed; the
\* sweep does it in the other order.
FirstWrite(w, r, e, reply) ==
    IF w = "live" THEN StoreReplyMessageId(r, e, reply) ELSE MarkProcessed(r, e)

SecondWrite(w, r, e, reply) ==
    IF w = "live" THEN MarkProcessed(r, e) ELSE StoreReplyMessageId(r, e, reply)

\* Nothing is awaited between the two writes and the ownership question, so
\* the bookkeeping of the two workers never overlaps; a crash or the monitor
\* process can still come in between.
Link(w) ==
    LET v == worker[w] IN
    /\ v.at = "returned"
    /\ \A x \in Workers : worker[x].at # "marking"
    /\ row' = FirstWrite(w, LinkMessage(row, v.ev, v.user), v.ev, v.reply)
    /\ worker' = [worker EXCEPT ![w].at = "marking"]
    /\ UNCHANGED <<source, turns, handler, queue, batch, lock, recovery,
                   crashes, others, replays, failures, rework>>

\* The second write, and the question who owns the delivery of the reply: a
\* deduplicated event leaves it to a sibling that has an outcome on record.
\* Otherwise finalizeEventDelivery starts at segment 0.
Conclude(w) ==
    LET v == worker[w]
        written == SecondWrite(w, row, v.ev, v.reply) IN
    /\ v.at = "marking"
    /\ IF v.dedup /\ OwnedBySibling(row, v.user, v.ev)
       THEN /\ row' = MarkDeliveryDelivered(written, v.ev)
            /\ Rest(w)
       ELSE /\ row' = [written EXCEPT ![v.ev].segs = 0]
            /\ worker' = [worker EXCEPT ![w].at = "deliver", ![w].seg = 0]
    /\ UNCHANGED <<source, turns, handler, queue, batch, lock, recovery,
                   crashes, others, replays, failures, rework>>

\* The turn whose reply is delivered: the stored reply, else what the turn of
\* the user row wrote.
Replying(v) == IF v.reply # None THEN v.reply
               ELSE IF v.user # None /\ turns[v.user].replied THEN v.user ELSE None

ToSend(v) == v.at = "deliver" /\ Replying(v) # None /\ v.seg < Segments

Posting(v) == [turns EXCEPT ![Replying(v)].posted[v.seg + 1] = @ + 1]

\* The callback accepts the next segment.
SendSegment(w) ==
    /\ ToSend(worker[w])
    /\ turns' = Posting(worker[w])
    /\ worker' = [worker EXCEPT ![w].at = "sent"]
    /\ UNCHANGED <<source, row, handler, queue, batch, lock, recovery,
                   crashes, others, replays, failures, rework>>

\* The callback fails, before or after the segment was posted.
SendFails(w, fatal, posted) ==
    LET v == worker[w] IN
    /\ ToSend(v)
    /\ row' = RecordDeliveryFailure(row, v.ev, fatal)
    /\ turns' = IF posted
                THEN [Posting(v) EXCEPT ![Replying(v)].excused[v.seg + 1] = @ + 1]
                ELSE turns
    /\ Rest(w)
    /\ UNCHANGED <<source, handler, queue, batch, lock, recovery,
                   crashes, others, replays, failures, rework>>

\* onSegmentDelivered: updateDeliveredSegmentCount.
CountSegment(w) ==
    LET v == worker[w] IN
    /\ v.at = "sent"
    /\ row' = [row EXCEPT ![v.ev].segs = v.seg + 1]
    /\ worker' = [worker EXCEPT ![w].at = "deliver", ![w].seg = v.seg + 1]
    /\ UNCHANGED <<source, turns, handler, queue, batch, lock, recovery,
                   crashes, others, replays, failures, rework>>

\* Every segment is out, or the turn left nothing to say.
FinishDelivery(w) ==
    LET v == worker[w] IN
    /\ v.at = "deliver" /\ ~ToSend(v)
    /\ row' = MarkDeliveryDelivered(row, v.ev)
    /\ Rest(w)
    /\ UNCHANGED <<source, turns, handler, queue, batch, lock, recovery,
                   crashes, others, replays, failures, rework>>

-----------------------------------------------------------------------------
(* The retry sweep.  Which rows are past their backoff is left open.       *)

RetryableEvents    == {e \in Events : row[e].proc = "failed"}
RetryableDelivery  == {e \in Events : row[e].proc = "processed" /\ row[e].deliv = "failed"}

SweepResting == worker["sweep"].at = "idle" /\ batch.proc = {} /\ batch.deliv = {}

StartSweep ==
    /\ SweepResting
    /\ \E p \in SUBSET RetryableEvents, d \in SUBSET RetryableDelivery :
          /\ p \cup d # {}
          /\ batch' = [proc |-> p, deliv |-> d, segs |-> [e \in Events |->
                          IF e \in d THEN row[e].segs ELSE 0]]
    /\ UNCHANGED <<source, row, turns, handler, queue, worker, lock, recovery,
                   crashes, others, replays, failures, rework>>

\* The processing list comes first.
NextReplay(e) ==
    /\ worker["sweep"].at = "idle" /\ e \in batch.proc
    /\ batch' = [batch EXCEPT !.proc = @ \ {e}]

\* Disk pressure blocks the replay: settled with no payload left.
SweepBlocked(e) ==
    /\ NextReplay(e)
    /\ row' = MarkProcessed([row EXCEPT ![e].payload = FALSE], e)
    /\ UNCHANGED <<source, turns, handler, queue, worker, lock, recovery,
                   crashes, others, replays, failures, rework>>

SweepDefers(e) ==
    /\ NextReplay(e)
    /\ lock # "free"
    /\ row' = DeferRetryUntilIdle(row, e)
    /\ UNCHANGED <<source, turns, handler, queue, worker, lock, recovery,
                   crashes, others, replays, failures, rework>>

SweepReplays(e) ==
    /\ NextReplay(e)
    /\ lock = "free"
    /\ worker' = [worker EXCEPT !["sweep"] = [Resting EXCEPT !.at = "start", !.ev = e]]
    /\ UNCHANGED <<source, row, turns, handler, queue, lock, recovery,
                   crashes, others, replays, failures, rework>>

\* Mutant: a delivery retry starts over.
ResumeAtStart(e) == 0

\* A delivery-only retry resumes after the segments counted when the sweep
\* read the row; a missing reply id is looked up from the turn, and a turn that
\* has none is a fatal failure.
ResumeAt(e) == batch.segs[e]

SweepDelivers(e) ==
    LET v == [Resting EXCEPT !.at = "deliver", !.ev = e, !.user = row[e].message,
                             !.reply = row[e].reply, !.seg = ResumeAt(e)] IN
    /\ worker["sweep"].at = "idle" /\ batch.proc = {} /\ e \in batch.deliv
    /\ batch' = [batch EXCEPT !.deliv = @ \ {e}, !.segs[e] = 0]
    /\ IF Replying(v) = None
       THEN /\ row' = RecordDeliveryFailure(row, e, TRUE)
            /\ UNCHANGED worker
       ELSE /\ row' = StoreReplyMessageId(row, e, Replying(v))
            /\ worker' = [worker EXCEPT !["sweep"] = [v EXCEPT !.reply = Replying(v)]]
    /\ UNCHANGED <<source, turns, handler, queue, lock, recovery,
                   crashes, others, replays, failures, rework>>

-----------------------------------------------------------------------------
(* Other turns, the operator, crashes and recovery.                        *)

OtherTurnStarts ==
    /\ lock = "free" /\ others < MaxOthers
    /\ lock' = "other" /\ others' = others + 1
    /\ UNCHANGED <<source, row, turns, handler, queue, worker, batch, recovery,
                   crashes, replays, failures, rework>>

OtherTurnEnds ==
    /\ lock = "other"
    /\ lock' = "free"
    /\ UNCHANGED <<source, row, turns, handler, queue, worker, batch, recovery,
                   crashes, others, replays, failures, rework>>

ReplayDeadLetter(e) ==
    /\ replays < MaxReplays /\ replays' = replays + 1
    /\ \/ /\ row[e].proc = "dead_letter"
          /\ row' = [row EXCEPT ![e].proc = "failed", ![e].procTries = 0]
          /\ failures' = [failures EXCEPT ![e] = 0]
       \/ /\ row[e].proc = "processed" /\ row[e].deliv = "dead_letter"
          /\ row' = [row EXCEPT ![e].deliv = "failed", ![e].delivTries = 0]
          /\ UNCHANGED failures
    /\ UNCHANGED <<source, turns, handler, queue, worker, batch, lock, recovery,
                   crashes, others, rework>>

\* A crash between a post and its count excuses a second post.
LostCounts(i, s) ==
    {w \in Workers : /\ worker[w].at = "sent" /\ worker[w].seg + 1 = s
                     /\ Replying(worker[w]) = i}

Crash ==
    /\ crashes < MaxCrashes /\ crashes' = crashes + 1
    /\ row' = [e \in Events |-> [row[e] EXCEPT !.old = row[e].proc # "absent"]]
    /\ handler' = [e \in Events |-> "none"]
    /\ queue' = <<>>
    /\ worker' = [w \in Workers |-> Resting]
    /\ batch' = NoBatch
    /\ lock' = "free"
    /\ recovery' = {"orphaned", "stranded"}
    /\ turns' = [i \in Rows |-> [turns[i] EXCEPT !.excused =
                    [s \in 1..Segments |-> @[s] + Cardinality(LostCounts(i, s))]]]
    /\ rework' = [m \in Messages |-> rework[m] + Cardinality({w \in Workers :
                   worker[w].at # "idle" /\ source[worker[w].ev] = m /\ Forgotten(w)})]
    /\ UNCHANGED <<source, others, replays, failures>>

\* recoverOrphanedChannelEvents: pending rows from before this boot that can
\* be replayed.
RecoverOrphans ==
    /\ "orphaned" \in recovery
    /\ row' = [e \in Events |->
                 IF row[e].proc = "pending" /\ row[e].payload /\ row[e].old
                 THEN [row[e] EXCEPT !.proc = "failed"] ELSE row[e]]
    /\ recovery' = recovery \ {"orphaned"}
    /\ UNCHANGED <<source, turns, handler, queue, worker, batch, lock,
                   crashes, others, replays, failures, rework>>

\* recoverStrandedDeliveryEvents: processed rows that owe a delivery and name
\* the reply.
RecoverStranded ==
    /\ recovery = {"stranded"}
    /\ row' = [e \in Events |->
                 IF /\ row[e].proc = "processed" /\ row[e].deliv = "pending"
                    /\ row[e].payload /\ row[e].reply # None /\ row[e].old
                 THEN [row[e] EXCEPT !.deliv = "failed"] ELSE row[e]]
    /\ recovery' = {}
    /\ UNCHANGED <<source, turns, handler, queue, worker, batch, lock,
                   crashes, others, replays, failures, rework>>

-----------------------------------------------------------------------------
Throws(w, fatal) ==
    \/ FailEarly(w, fatal) \/ BreakTurn(w, fatal)
    \/ BreakCommand(w, fatal) \/ BoundaryThrows(w, fatal)

Turn(w) ==
    \/ HitBusy(w) \/ Deduplicate(w) \/ StartTurn(w) \/ PersistReply(w) \/ EndTurn(w)
    \/ StartCommand(w) \/ AnswerCommand(w)
    \/ \E fatal \in BOOLEAN : Throws(w, fatal)

Deliver(w) ==
    \/ Link(w) \/ Conclude(w) \/ SendSegment(w) \/ CountSegment(w) \/ FinishDelivery(w)
    \/ \E fatal, posted \in BOOLEAN : SendFails(w, fatal, posted)

Sweep(e) == SweepBlocked(e) \/ SweepDefers(e) \/ SweepReplays(e) \/ SweepDelivers(e)

Handle(e) == StorePayload(e) \/ IngressBlocked(e) \/ Dispatch(e)

Next ==
    \/ \E e \in Events : RecordInbound(e) \/ Handle(e) \/ Sweep(e) \/ ReplayDeadLetter(e)
    \/ Admit \/ StartSweep
    \/ \E w \in Workers : Turn(w) \/ Deliver(w)
    \/ OtherTurnStarts \/ OtherTurnEnds
    \/ Crash \/ RecoverOrphans \/ RecoverStranded

\* A handler that has recorded an event goes on; an admitted turn and a
\* delivery end; a turn of another surface ends; the monitor runs recovery; the
\* sweep timer fires, and sooner or later finds any retryable row past its
\* backoff.
Fairness ==
    /\ \A e \in Events : WF_vars(Handle(e))
    /\ WF_vars(Admit)
    /\ \A w \in Workers : WF_vars(Turn(w) \/ Deliver(w))
    /\ \A e \in Events : WF_vars(Sweep(e))
    /\ \A e \in Events : SF_vars(StartSweep /\ e \in batch'.proc \cup batch'.deliv)
    /\ WF_vars(OtherTurnEnds) /\ WF_vars(RecoverOrphans) /\ WF_vars(RecoverStranded)

Spec == Init /\ [][Next]_vars /\ Fairness

-----------------------------------------------------------------------------
(* Properties.                                                             *)

\* Type invariant.
ChannelTypeOK ==
    /\ source \in Sources
    /\ \A i \in Rows : /\ turns[i].msg \in Messages
                        /\ turns[i].keyed \in BOOLEAN /\ turns[i].replied \in BOOLEAN
                        /\ turns[i].posted \in [1..Segments -> Nat]
                        /\ turns[i].excused \in [1..Segments -> Nat]
    /\ row \in [Events -> [proc : ProcStatuses, deliv : DelivStatuses,
                           payload : BOOLEAN, message : Rows \cup {None},
                           reply : Rows \cup {None}, segs : 0..Segments,
                           procTries : 0..MaxAttempts, delivTries : 0..MaxAttempts,
                           old : BOOLEAN]]
    /\ handler \in [Events -> {"none", "recorded", "stored"}]
    /\ queue \in Seq(Events)
    /\ worker \in [Workers -> [at : {"idle", "start", "turn", "command", "replied",
                                    "returned", "marking", "deliver", "sent"},
                              ev : Events \cup {None}, user : Rows \cup {None},
                              reply : Rows \cup {None}, dedup : BOOLEAN,
                              fresh : BOOLEAN, seg : 0..Segments]]
    /\ batch \in [proc : SUBSET Events, deliv : SUBSET Events,
                  segs : [Events -> 0..Segments]]
    /\ lock \in {"free", "other"} \cup Workers
    /\ recovery \subseteq {"orphaned", "stranded"}

Siblings(e) == {s \in Events : source[s] = source[e]}

\* An answer is settled only when it has been told: for an event marked
\* delivered whose turn wrote a reply, every segment of a reply to the message
\* has been posted, unless a sibling has a failed delivery on record and owes
\* it (markDeliveryDelivered after the segment loop; the ownership question of
\* a deduplicated event).
DeliveredIsComplete ==
    \A e \in Events :
        /\ row[e].deliv = "delivered" /\ row[e].message # None
        /\ turns[row[e].message].replied
        => \/ \E i \in Rows : /\ turns[i].msg = source[e]
                              /\ \A s \in 1..Segments : turns[i].posted[s] > 0
           \/ \E d \in Siblings(e) \ {e} : row[d].deliv \in {"failed", "dead_letter"}

\* The channel sees a reply as it was written: its segments in order, and a
\* segment again only when a fault ate the record of it (the callback failed
\* after posting, or the daemon died before updateDeliveredSegmentCount).  The
\* latter for messages announced by one event.
PostedInOrderOnce ==
    \A i \in Rows, s \in 1..Segments :
        /\ turns[i].posted[s] > 0 /\ s > 1 => turns[i].posted[s - 1] > 0
        /\ Cardinality({e \in Events : source[e] = turns[i].msg}) = 1
               => turns[i].posted[s] <= 1 + turns[i].excused[s]

RepliedRows(m)   == {i \in Rows : turns[i].msg = m /\ turns[i].replied}
UnrepliedRows(m) == {i \in Rows : turns[i].msg = m /\ ~turns[i].replied}

\* A message is answered once for each event that announces it, and again only
\* for an answered turn that a crash, or a throw at the turn boundary, left
\* unrecognisable; a message with an idempotency key once altogether, unless a
\* turn left its user row without a reply (the key of processMessage, the rerun
\* without it in the sweep).  A slash command carries no key on any channel.
OneReplyPerMessage ==
    \A m \in Messages :
        LET replies == Cardinality(RepliedRows(m)) IN
        /\ replies <= Cardinality({e \in Events : source[e] = m}) + rework[m]
        /\ m \in Keyed \ Commands /\ UnrepliedRows(m) = {} => replies <= 1

\* Contention never drops a message: an event is dead-lettered only after as
\* many real failures as the budget allows, or a fatal one
\* (deferRetryUntilIdle).
DeadLettersHaveFailed ==
    \A e \in Events : row[e].proc = "dead_letter" => failures[e] >= MaxAttempts

\* What the promise says of an event: nothing, an answer owed, settled, or
\* given up.
Promised(r) ==
    CASE r.proc = "absent" -> "absent"
      [] r.proc = "dead_letter" -> "dead"
      [] r.proc \in {"pending", "failed"} -> "owed"
      [] r.proc = "processed" ->
            IF r.deliv = "delivered" \/ ~r.payload THEN "settled"
            ELSE IF r.deliv = "dead_letter" THEN "dead" ELSE "owed"

Promise == INSTANCE DeliveryPromise WITH promise <- [e \in Events |-> Promised(row[e])]

\* The bookkeeping implements the promise: a settled event is never owed again
\* by a late failure, a recovery step or a redelivery, and a dead letter comes
\* back through the operator only.
KeepsPromise == Promise!PromiseSpec

\* A processed row that owes a reply it does not name.
Unseen(e) == /\ row[e].proc = "processed" /\ row[e].deliv = "pending"
             /\ row[e].payload /\ row[e].reply = None /\ row[e].old

\* Every event whose payload was stored is answered or given up, through
\* crashes, contention and failures, except in the one state no recovery step
\* selects.
EventsSettle ==
    \A e \in Events :
        row[e].payload ~> (Promised(row[e]) \in {"settled", "dead"} \/ []Unseen(e))

Working(e) == \E w \in Workers : worker[w].ev = e

\* Once recovery has run, no row is left owing a reply that its turn wrote and
\* that nothing will deliver ("an event that becomes eligible first would be
\* skipped by that step and never deliver", background-dispatch.ts).
NoReplyStranded ==
    \A e \in Events :
        ~ /\ recovery = {} /\ ~Working(e) /\ Unseen(e)
          /\ row[e].message # None /\ turns[row[e].message].replied
=============================================================================
