-------------------------- MODULE ChannelReplyProofs --------------------------
(***************************************************************************)
(* Theorems about what ChannelDelivery posts, for any events, messages and *)
(* bounds: the segments of a reply go out in order, and again only where a *)
(* fault ate the record; an event marked delivered has had its reply told; *)
(* a message is answered at most once per event, and one that is no        *)
(* command once altogether when its idempotency key is recognised.         *)
(***************************************************************************)
EXTENDS ChannelProofs

-----------------------------------------------------------------------------
(* The inductive invariant, in parts.                                      *)

\* A user row that has no reply and will not get one.
Barren(i) ==
    /\ ~turns[i].replied
    /\ \A w \in Workers : worker[w].at = "turn" => worker[w].user # i

\* The idempotency key: a keyed message that is no command has one keyed user
\* row, a second row only after that one was left without a reply, and a turn
\* without the key is run only then.
KeyInv ==
    /\ \A i \in Rows : turns[i].keyed => turns[i].msg \in Keyed \ Commands
    /\ \A i, j \in Rows : i # j /\ turns[i].msg = turns[j].msg /\ turns[i].keyed =>
          ~turns[j].keyed /\ Barren(i)
    /\ \A j \in Rows : turns[j].msg \in Keyed \ Commands => KeyedRow(turns[j].msg) # {}
    /\ \A w \in Workers : worker[w].at = "start" /\ worker[w].fresh =>
          \E i \in KeyedRow(source[worker[w].ev]) : Barren(i)

\* The turn whose reply an event's row stands for.
TurnOf(e) ==
    IF row[e].reply # None THEN row[e].reply
    ELSE IF row[e].message # None /\ turns[row[e].message].replied THEN row[e].message
    ELSE None

\* A row names turns of its own message, and counts segments of one of them.
Links(e) ==
    /\ row[e].message # None => turns[row[e].message].msg = source[e]
    /\ row[e].reply # None => /\ turns[row[e].reply].msg = source[e]
                              /\ turns[row[e].reply].replied
    /\ row[e].segs > 0 => TurnOf(e) # None
    /\ e \in batch.deliv => batch.segs[e] = row[e].segs

LinkInv == \A e \in Events : Links(e)

\* Nothing but the worker that runs it knows a turn that is in progress.
Private(w) ==
    LET i == worker[w].user IN
    /\ \A e \in Events : row[e].message # i /\ row[e].reply # i
    /\ \A x \in Workers \ {w} : worker[x].user # i /\ worker[x].reply # i

\* Where the user row is written and its reply is not.
Underway == {"turn", "command"}

\* What a worker knows of the turn it works on, by the point it has reached.
Knows(w) ==
    LET v == worker[w] IN
    /\ v.at = "start" => v.user = None /\ v.reply = None
    /\ v.at \in Underway \cup {"replied", "returned", "marking"} =>
          v.user # None /\ turns[v.user].msg = source[v.ev]
    /\ v.at \in Underway => v.reply = None /\ ~turns[v.user].replied /\ Private(w)
    /\ v.at = "command" => ~turns[v.user].keyed
    /\ v.at \in {"replied", "returned", "marking"} =>
          /\ v.reply \in {None, v.user}
          /\ v.reply # None => turns[v.user].replied
          /\ v.reply = None /\ turns[v.user].replied => turns[v.user].keyed
    /\ v.at = "marking" => /\ row[v.ev].message = v.user /\ row[v.ev].segs = 0
                           /\ w = "live" /\ v.reply # None => row[v.ev].reply = v.reply
    /\ v.at \in {"deliver", "sent"} =>
          /\ v.user = row[v.ev].message /\ v.seg = row[v.ev].segs
          /\ Replying(v) # None => Replying(v) = TurnOf(v.ev)
    /\ v.at = "sent" => Replying(v) # None

UserInv == \A w \in Workers : Knows(w)

\* The record an event keeps of segment s of turn i: counted, or sent by a
\* worker that is about to count it.
Credit(e, i, s) ==
    /\ TurnOf(e) = i
    /\ \/ s <= row[e].segs
       \/ \E w \in Workers : /\ worker[w].at = "sent" /\ worker[w].ev = e
                             /\ worker[w].seg + 1 = s

\* What is counted or sent is out, in order; and what is out is on record, or a
\* fault has been counted for it.
InOrder(i) == \A s \in 1..Segments : turns[i].posted[s] > 0 /\ s > 1 => turns[i].posted[s - 1] > 0

CountedIsOut(e) == \A s \in 1..Segments : s <= row[e].segs => turns[TurnOf(e)].posted[s] > 0

SentIsOut(w) == worker[w].at = "sent" =>
                   turns[Replying(worker[w])].posted[worker[w].seg + 1] > 0

OnRecord(e) ==
    Siblings(e) = {e} =>
        \A i \in Rows, s \in 1..Segments : turns[i].msg = source[e] =>
            turns[i].posted[s] <= turns[i].excused[s] + IF Credit(e, i, s) THEN 1 ELSE 0

PostInv ==
    /\ \A i \in Rows : InOrder(i)
    /\ \A e \in Events : CountedIsOut(e) /\ OnRecord(e)
    /\ \A w \in Workers : SentIsOut(w)

Told(m) == \E i \in Rows : /\ turns[i].msg = m
                           /\ \A s \in 1..Segments : turns[i].posted[s] > 0

\* A failed delivery on record, whose retry has something to deliver.
Owes(d) ==
    /\ row[d].deliv \in {"failed", "dead_letter"}
    /\ \A w \in Workers : worker[w].at # "idle" /\ worker[w].ev = d =>
          worker[w].at \in {"deliver", "sent"} /\ Replying(worker[w]) # None

\* DeliveredIsComplete, with a sibling that can still keep its word.
DoneInv ==
    \A e \in Events :
        /\ row[e].deliv = "delivered" /\ row[e].message # None
        /\ turns[row[e].message].replied
        => Told(source[e]) \/ \E d \in Siblings(e) \ {e} : Owes(d)

-----------------------------------------------------------------------------
(* Steps that neither post nor learn of a turn.                            *)

Tells(e) == /\ row'[e].message = row[e].message /\ row'[e].reply = row[e].reply
            /\ row'[e].segs = row[e].segs

Unengaged(v) == /\ v.at \in {"idle", "start"} /\ v.user = None /\ v.reply = None
                /\ v.fresh = FALSE

Quiet ==
    /\ turns' = turns /\ source' = source
    /\ \A e \in Events : Tells(e)
    /\ \A x \in Workers : \/ worker'[x] = worker[x]
                          \/ worker[x].at # "sent" /\ Unengaged(worker'[x])
    /\ \A e \in batch'.deliv : \/ e \in batch.deliv /\ batch'.segs[e] = batch.segs[e]
                               \/ batch'.segs[e] = row[e].segs

LEMMA RowTells ==
    ASSUME NEW e \in Events, row[e] \in RowRec,
           \/ row'[e] = row[e]
           \/ \E p \in ProcStatuses : row'[e] = [row[e] EXCEPT !.proc = p]
           \/ \E p \in DelivStatuses : row'[e] = [row[e] EXCEPT !.deliv = p]
           \/ \E b \in BOOLEAN : row'[e] = [row[e] EXCEPT !.old = b]
           \/ \E b \in BOOLEAN : row'[e] = [row[e] EXCEPT !.payload = b]
           \/ row'[e] = [row[e] EXCEPT !.payload = FALSE, !.proc = "processed"]
           \/ \E n \in Nat, p \in ProcStatuses :
                 row'[e] = [row[e] EXCEPT !.procTries = n, !.proc = p]
           \/ \E n \in Nat, p \in ProcStatuses :
                 row'[e] = [row[e] EXCEPT !.proc = p, !.procTries = n]
           \/ \E n \in Nat, p \in DelivStatuses :
                 row'[e] = [row[e] EXCEPT !.delivTries = n, !.deliv = p]
           \/ \E n \in Nat, p \in DelivStatuses :
                 row'[e] = [row[e] EXCEPT !.deliv = p, !.delivTries = n]
    PROVE  Tells(e)
  BY DEF Tells, RowRec

LEMMA UnengagedFacts ==
    /\ Unengaged(Resting)
    /\ \A e \in Events : Unengaged([Resting EXCEPT !.at = "start", !.ev = e])
  BY DEF Unengaged, Resting

\* A worker gives up or is done.
LEMMA QuietRest ==
    ASSUME TypeInv, NEW w \in Workers, worker[w].at # "sent", Moves(w, Resting),
           NEW e \in Events, Only(row, row', e), Tells(e),
           UNCHANGED << turns, source, batch >>
    PROVE  Quiet
  <1>1. \A d \in Events : Tells(d)
    BY DEF Only, Tells
  <1>2. \A x \in Workers : \/ worker'[x] = worker[x]
                           \/ worker[x].at # "sent" /\ Unengaged(worker'[x])
    BY UnengagedFacts DEF Moves
  <1>3. QED
    BY <1>1, <1>2 DEF Quiet

\* An event changes hands outside the workers.
LEMMA QuietRow ==
    ASSUME TypeInv, NEW e \in Events, Only(row, row', e), Tells(e),
           UNCHANGED << turns, source, worker >>,
           batch'.deliv \subseteq batch.deliv,
           \A d \in batch'.deliv : batch'.segs[d] = batch.segs[d]
    PROVE  Quiet
  <1>1. \A d \in Events : Tells(d)
    BY DEF Only, Tells
  <1>2. QED
    BY <1>1 DEF Quiet

LEMMA TurnQuiet ==
    ASSUME TypeInv, BoundInv, PhaseInv, NEW w \in Workers, Turn(w)
    PROVE  \/ Quiet \/ Deduplicate(w) \/ EndTurn(w)
           \/ StartTurn(w) \/ StartCommand(w) \/ PersistReply(w) \/ AnswerCommand(w)
  <1> DEFINE e == worker[w].ev
  <1>1. worker[w].at \in Pre
    BY DEF Turn, HitBusy, Deduplicate, StartTurn, PersistReply, EndTurn, StartCommand,
           AnswerCommand, Throws, FailEarly, BreakTurn, BreakCommand, BoundaryThrows, Pre
  <1>2. e \in Events /\ row[e] \in RowRec
    BY <1>1, Busy DEF Pre
  <1> HIDE DEF e
  <1>3. CASE HitBusy(w)
    <2>1. Writes(e, [row[e] EXCEPT !.proc = "failed"]) /\ Moves(w, Resting)
      BY <1>3, HitBusyFacts DEF e
    <2>2. Tells(e)
      BY <1>2, <2>1, RowTells DEF Writes, ProcStatuses
    <2>3. UNCHANGED << turns, source, batch >> /\ worker[w].at # "sent"
      BY <1>3 DEF HitBusy
    <2>4. QED BY <1>1, <1>2, <2>1, <2>2, <2>3, QuietRest DEF Writes
  <1>4. ASSUME NEW fatal \in BOOLEAN, Throws(w, fatal)
        PROVE  Quiet
    <2>1. Fails(w, fatal)
      BY <1>4 DEF Throws, FailEarly, BreakTurn, BreakCommand, BoundaryThrows
    <2>2. Moves(w, Resting)
      BY <1>1, <2>1, FailsFacts
    <2>3. PICK p \in {"failed", "dead_letter"} :
             Writes(e, [row[e] EXCEPT !.procTries = row[e].procTries + 1, !.proc = p])
      BY <1>1, <2>1, FailsFacts DEF e
    <2>4. Tells(e)
      BY <1>2, <2>3 DEF Writes, RowRec, Tells
    <2>5. UNCHANGED << turns, source, batch >> /\ worker[w].at # "sent"
      BY <1>4 DEF Throws, FailEarly, BreakTurn, BreakCommand, BoundaryThrows
    <2>6. QED BY <1>1, <1>2, <2>2, <2>3, <2>4, <2>5, QuietRest DEF Writes
  <1>5. QED
    BY <1>3, <1>4 DEF Turn

\* The steps of a delivery that post something or write to the row what it
\* tells.
LEMMA DeliverQuiet ==
    ASSUME TypeInv, BoundInv, PhaseInv, NEW w \in Workers, Deliver(w)
    PROVE  \/ Quiet /\ (FinishDelivery(w)
                          \/ \E fatal, posted \in BOOLEAN : SendFails(w, fatal, posted))
           \/ Link(w) \/ Conclude(w) \/ SendSegment(w) \/ CountSegment(w)
           \/ turns' # turns /\ \E fatal, posted \in BOOLEAN : SendFails(w, fatal, posted)
  <1> DEFINE e == worker[w].ev
  <1>1. worker[w].at # "idle"
    BY DEF Deliver, Link, Conclude, SendSegment, SendFails, ToSend, CountSegment, FinishDelivery
  <1>2. e \in Events /\ row[e] \in RowRec
    BY <1>1, Busy
  <1> HIDE DEF e
  <1>3. CASE FinishDelivery(w)
    <2>1. Writes(e, [row[e] EXCEPT !.deliv = "delivered"]) /\ Moves(w, Resting)
      BY <1>3, FinishDeliveryFacts DEF e
    <2>2. Tells(e)
      BY <1>2, <2>1 DEF Writes, RowRec, Tells
    <2>3. UNCHANGED << turns, source, batch >> /\ worker[w].at # "sent"
      BY <1>3 DEF FinishDelivery
    <2>4. QED BY <1>2, <1>3, <2>1, <2>2, <2>3, QuietRest DEF Writes
  <1>4. ASSUME NEW fatal \in BOOLEAN, NEW posted \in BOOLEAN, SendFails(w, fatal, posted),
               turns' = turns
        PROVE  Quiet
    <2>1. PICK p \in {"failed", "dead_letter"} :
             Writes(e, [row[e] EXCEPT !.delivTries = row[e].delivTries + 1, !.deliv = p])
      BY <1>4, SendFailsFacts DEF e
    <2>2. Tells(e)
      BY <1>2, <2>1 DEF Writes, RowRec, Tells
    <2>3. UNCHANGED << source, batch >> /\ worker[w].at # "sent" /\ Moves(w, Resting)
      BY <1>4, SendFailsFacts DEF SendFails, ToSend
    <2>4. QED BY <1>2, <1>4, <2>1, <2>2, <2>3, QuietRest DEF Writes
  <1>5. QED
    BY <1>3, <1>4 DEF Deliver

LEMMA EventQuiet ==
    ASSUME TypeInv, BoundInv, PhaseInv, NEW e \in Events,
           RecordInbound(e) \/ Handle(e) \/ Sweep(e) \/ ReplayDeadLetter(e)
    PROVE  \/ Quiet
           \/ SweepDelivers(e) /\ ~(worker' = worker)
  <1>1. row \in RowTable /\ row[e] \in RowRec
    BY DEF TypeInv, RowTable
  <1>2. Only(row, row, e)
    BY <1>1 DEF Only
  <1>3. CASE RecordInbound(e) \/ StorePayload(e)
    <2>1. \/ row' = [row EXCEPT ![e] = [row[e] EXCEPT !.proc = "pending"]]
          \/ row' = [row EXCEPT ![e] = [row[e] EXCEPT !.payload = TRUE]]
      BY <1>3 DEF RecordInbound, StorePayload
    <2>2. /\ [row[e] EXCEPT !.proc = "pending"] \in RowRec
          /\ [row[e] EXCEPT !.payload = TRUE] \in RowRec
      BY <1>1, RowFields DEF ProcStatuses
    <2>3. \/ Writes(e, [row[e] EXCEPT !.proc = "pending"])
          \/ Writes(e, [row[e] EXCEPT !.payload = TRUE])
      BY <2>1, <2>2, RowBecomes
    <2>4. Tells(e) /\ Only(row, row', e)
      BY <1>1, <2>3 DEF Writes, RowRec, Tells
    <2>5. UNCHANGED << turns, source, worker, batch >>
      BY <1>3 DEF RecordInbound, StorePayload
    <2>6. QED BY <2>4, <2>5, QuietRow
  <1>4. CASE IngressBlocked(e)
    <2>1. Writes(e, [row[e] EXCEPT !.payload = FALSE, !.proc = "processed"])
      BY <1>4, IngressBlockedFacts
    <2>2. Tells(e) /\ Only(row, row', e)
      BY <1>1, <2>1 DEF Writes, RowRec, Tells
    <2>3. UNCHANGED << turns, source, worker, batch >>
      BY <1>4 DEF IngressBlocked
    <2>4. QED BY <2>2, <2>3, QuietRow
  <1>5. CASE Dispatch(e)
    BY <1>2, <1>5, QuietRow DEF Dispatch, Tells
  <1>6. CASE SweepBlocked(e) \/ SweepDefers(e)
    <2>1. \/ Writes(e, [row[e] EXCEPT !.payload = FALSE, !.proc = "processed"])
          \/ Writes(e, [row[e] EXCEPT !.proc = "failed"])
      <3>1. CASE SweepBlocked(e)
        BY <3>1, SweepBlockedFacts
      <3>2. CASE SweepDefers(e)
        <4>1. row' = DeferRetryUntilIdle(row, e)
          BY <3>2 DEF SweepDefers
        <4>2. QED BY <1>1, <4>1, DeferFacts DEF Writes
      <3>3. QED BY <1>6, <3>1, <3>2
    <2>2. Tells(e) /\ Only(row, row', e)
      BY <1>1, <2>1 DEF Writes, RowRec, Tells
    <2>3. UNCHANGED << turns, source, worker >> /\ NextReplay(e)
      BY <1>6 DEF SweepBlocked, SweepDefers
    <2>4. batch'.deliv = batch.deliv /\ batch'.segs = batch.segs
      BY <2>3, NextReplayFacts
    <2>5. QED BY <2>2, <2>3, <2>4, QuietRow
  <1>7. CASE SweepReplays(e)
    <2> DEFINE v == [Resting EXCEPT !.at = "start", !.ev = e]
    <2>1. /\ worker' = [worker EXCEPT !["sweep"] = v] /\ NextReplay(e)
          /\ UNCHANGED << turns, source, row >>
      BY <1>7 DEF SweepReplays
    <2>2. v \in WorkerRec /\ "sweep" \in Workers /\ Unengaged(v)
      BY RestingFacts, UnengagedFacts DEF Workers
    <2> HIDE DEF v
    <2>3. Moves("sweep", v)
      BY <2>1, <2>2, MovesTo
    <2>4. batch'.deliv = batch.deliv /\ batch'.segs = batch.segs /\ worker["sweep"].at = "idle"
      BY <2>1, NextReplayFacts
    <2>5. \A x \in Workers : \/ worker'[x] = worker[x]
                             \/ worker[x].at # "sent" /\ Unengaged(worker'[x])
      BY <2>2, <2>3, <2>4 DEF Moves
    <2>6. QED BY <2>1, <2>4, <2>5 DEF Quiet, Tells
  <1>8. CASE SweepDelivers(e) /\ worker' = worker
    <2>1. /\ batch'.deliv = batch.deliv \ {e} /\ batch'.segs = [batch.segs EXCEPT ![e] = 0]
          /\ \/ Writes(e, [row[e] EXCEPT !.delivTries = row[e].delivTries + 1,
                                         !.deliv = "dead_letter"])
             \/ \E v : Moves("sweep", v) /\ v.at = "deliver" /\ worker["sweep"].at = "idle"
      <3>1. \A i : [Resting EXCEPT !.at = "deliver", !.ev = e, !.user = row[e].message,
                                   !.reply = i, !.seg = batch.segs[e]].at = "deliver"
        BY DEF Resting
      <3>2. QED BY <1>8, <3>1, SweepDeliversFacts
    <2>2. ~ \E v : Moves("sweep", v) /\ v.at = "deliver" /\ worker["sweep"].at = "idle"
      BY <1>8 DEF Moves
    <2>3. Tells(e) /\ Only(row, row', e)
      BY <1>1, <2>1, <2>2 DEF Writes, RowRec, Tells
    <2>4. batch.segs \in [Events -> 0..Segments] /\ batch.deliv \subseteq Events
      BY BatchFields
    <2>5. \A d \in batch'.deliv : batch'.segs[d] = batch.segs[d]
      BY <2>1, <2>4
    <2>6. UNCHANGED << turns, source >>
      BY <1>8 DEF SweepDelivers
    <2>7. QED BY <1>8, <2>1, <2>3, <2>5, <2>6, QuietRow
  <1>9. CASE ReplayDeadLetter(e)
    <2>1. \/ Writes(e, [row[e] EXCEPT !.proc = "failed", !.procTries = 0])
          \/ Writes(e, [row[e] EXCEPT !.deliv = "failed", !.delivTries = 0])
      BY <1>9, ReplayFacts
    <2>2. Tells(e) /\ Only(row, row', e)
      BY <1>1, <2>1 DEF Writes, RowRec, Tells
    <2>3. UNCHANGED << turns, source, worker, batch >>
      BY <1>9 DEF ReplayDeadLetter
    <2>4. QED BY <2>2, <2>3, QuietRow
  <1>10. QED
    BY <1>3, <1>4, <1>5, <1>6, <1>7, <1>8, <1>9 DEF Handle, Sweep

LEMMA OtherQuiet ==
    ASSUME TypeInv, BoundInv, PhaseInv,
           Admit \/ StartSweep \/ OtherTurnStarts \/ OtherTurnEnds
             \/ RecoverOrphans \/ RecoverStranded \/ UNCHANGED vars
    PROVE  Quiet
  <1>1. \A e \in Events : row[e] \in RowRec
    BY DEF TypeInv, RowTable
  <1>2. CASE Admit
    <2> DEFINE v == [Resting EXCEPT !.at = "start", !.ev = Head(queue)]
    <2>1. /\ worker' = [worker EXCEPT !["live"] = v] /\ worker["live"].at = "idle"
          /\ UNCHANGED << turns, source, row, batch >>
      BY <1>2 DEF Admit
    <2>2. v \in WorkerRec /\ "live" \in Workers /\ Unengaged(v)
      <3>1. Head(queue) \in Events
        BY <1>2 DEF Admit, TypeInv
      <3>2. QED BY <3>1, RestingFacts, UnengagedFacts DEF Workers
    <2> HIDE DEF v
    <2>3. Moves("live", v)
      BY <2>1, <2>2, MovesTo
    <2>4. \A x \in Workers : \/ worker'[x] = worker[x]
                             \/ worker[x].at # "sent" /\ Unengaged(worker'[x])
      BY <2>1, <2>2, <2>3 DEF Moves
    <2>5. QED BY <2>1, <2>4 DEF Quiet, Tells
  <1>3. CASE StartSweep
    <2>1. PICK p \in SUBSET RetryableEvents, d \in SUBSET RetryableDelivery :
             batch' = [proc |-> p, deliv |-> d, segs |-> [e \in Events |->
                          IF e \in d THEN row[e].segs ELSE 0]]
      BY <1>3 DEF StartSweep
    <2>2. \A e \in batch'.deliv : batch'.segs[e] = row[e].segs
      BY <2>1 DEF RetryableDelivery
    <2>3. UNCHANGED << turns, source, row, worker >>
      BY <1>3 DEF StartSweep
    <2>4. QED BY <2>2, <2>3 DEF Quiet, Tells
  <1>4. CASE RecoverOrphans \/ RecoverStranded
    <2>1. UNCHANGED << turns, source, worker, batch >>
      BY <1>4 DEF RecoverOrphans, RecoverStranded
    <2>2. ASSUME NEW e \in Events
          PROVE  Tells(e)
      <3>1. \/ row'[e] = row[e]
            \/ row'[e] = [row[e] EXCEPT !.proc = "failed"]
            \/ row'[e] = [row[e] EXCEPT !.deliv = "failed"]
        BY <1>4, RecoverOrphansFacts, RecoverStrandedFacts
      <3>2. QED BY <1>1, <3>1 DEF Tells, RowRec
    <2>3. QED BY <2>1, <2>2 DEF Quiet
  <1>5. CASE OtherTurnStarts \/ OtherTurnEnds \/ UNCHANGED vars
    BY <1>5 DEF OtherTurnStarts, OtherTurnEnds, vars, Quiet, Tells
  <1>6. QED
    BY <1>2, <1>3, <1>4, <1>5

-----------------------------------------------------------------------------
(* What the other steps do, field by field.                                *)

\* Worker w is the only one that moves.
Alone(w) == \A x \in Workers : x # w => worker'[x] = worker[x]

\* The turns stay what they are, but for what has been posted of them.
SameTurns ==
    /\ Len(turns') = Len(turns)
    /\ \A i \in Rows : /\ turns'[i].msg = turns[i].msg /\ turns'[i].keyed = turns[i].keyed
                       /\ turns'[i].replied = turns[i].replied

LEMMA DeduplicateView ==
    ASSUME TypeInv, PhaseInv, NEW w \in Workers, Deduplicate(w)
    PROVE  /\ worker[w].at = "start" /\ ~worker[w].fresh /\ worker[w].ev \in Events
           /\ \A x \in Workers : worker[x].at # "turn"
           /\ worker'[w].ev = worker[w].ev /\ worker'[w].reply = worker[w].reply
           /\ \E id \in KeyedRow(source[worker[w].ev]) :
                 \/ /\ ~turns[id].replied /\ w = "sweep"
                    /\ worker'[w].at = "start" /\ worker'[w].fresh
                    /\ worker'[w].user = worker[w].user
                 \/ /\ w = "live" \/ turns[id].replied
                    /\ worker'[w].at = "returned" /\ worker'[w].user = id
                    /\ worker'[w].dedup
           /\ Alone(w) /\ UNCHANGED << row, turns, source, batch >>
  <1>1. worker[w] \in WorkerRec /\ worker[w].ev \in Events
    BY Busy DEF Deduplicate
  <1>2. PICK id \in KeyedRow(source[worker[w].ev]) :
           \/ MustRerun(w, id) /\ Moves(w, [worker[w] EXCEPT !.fresh = TRUE])
           \/ /\ ~MustRerun(w, id)
              /\ Moves(w, [worker[w] EXCEPT !.at = "returned", !.user = id, !.dedup = TRUE])
    BY DeduplicateFacts
  <1>3. worker[w].at = "start" /\ ~worker[w].fresh /\ lock = "free"
    BY DeduplicateFacts
  <1>4. \A x \in Workers : worker[x].at # "turn"
    BY <1>3 DEF PhaseInv, ApartInv, Workers
  <1>5. UNCHANGED << row, turns, source, batch >>
    BY DEF Deduplicate
  <1>6. CASE MustRerun(w, id) /\ Moves(w, [worker[w] EXCEPT !.fresh = TRUE])
    <2>1. /\ worker'[w].fresh = TRUE /\ worker'[w].at = worker[w].at
          /\ worker'[w].user = worker[w].user /\ worker'[w].reply = worker[w].reply
          /\ worker'[w].ev = worker[w].ev /\ Alone(w)
      BY <1>1, <1>6 DEF Moves, WorkerRec, Alone
    <2>2. QED BY <1>1, <1>3, <1>4, <1>5, <1>6, <2>1 DEF MustRerun
  <1>7. CASE /\ ~MustRerun(w, id)
             /\ Moves(w, [worker[w] EXCEPT !.at = "returned", !.user = id, !.dedup = TRUE])
    <2>1. /\ worker'[w].at = "returned" /\ worker'[w].user = id /\ worker'[w].dedup = TRUE
          /\ worker'[w].reply = worker[w].reply /\ worker'[w].ev = worker[w].ev /\ Alone(w)
      BY <1>1, <1>7 DEF Moves, WorkerRec, Alone
    <2>2. w = "live" \/ turns[id].replied
      BY <1>7 DEF MustRerun, Workers
    <2>3. QED BY <1>1, <1>3, <1>4, <1>5, <2>1, <2>2
  <1>8. QED BY <1>2, <1>6, <1>7

LEMMA StartTurnView ==
    ASSUME TypeInv, PhaseInv, NEW w \in Workers, StartTurn(w)
    PROVE  /\ worker[w].at = "start" /\ worker[w].ev \in Events
           /\ \A x \in Workers : worker[x].at # "turn"
           /\ worker'[w].at = "turn" /\ worker'[w].user = Len(turns) + 1
           /\ worker'[w].reply = worker[w].reply /\ worker'[w].ev = worker[w].ev
           /\ Len(turns') = Len(turns) + 1 /\ \A i \in Rows : turns'[i] = turns[i]
           /\ turns'[Len(turns) + 1].msg = source[worker[w].ev]
           /\ turns'[Len(turns) + 1].keyed = CarriesKey(w)
           /\ turns'[Len(turns) + 1].replied = FALSE
           /\ \A s \in 1..Segments : /\ turns'[Len(turns) + 1].posted[s] = 0
                                     /\ turns'[Len(turns) + 1].excused[s] = 0
           /\ CarriesKey(w) => KeyedRow(source[worker[w].ev]) = {}
           /\ Alone(w) /\ UNCHANGED << row, source, batch >>
  <1>1. worker[w] \in WorkerRec /\ worker[w].ev \in Events
    BY Busy DEF StartTurn
  <1>2. worker[w].at = "start" /\ lock = "free" /\ UNCHANGED << row, source, batch >>
        /\ (CarriesKey(w) => KeyedRow(source[worker[w].ev]) = {})
    BY DEF StartTurn
  <1>3. \A x \in Workers : worker[x].at # "turn"
    BY <1>2 DEF PhaseInv, ApartInv, Workers
  <1>4. Moves(w, [worker[w] EXCEPT !.at = "turn", !.user = Len(turns) + 1])
    BY StartTurnFacts
  <1>5. /\ worker'[w].at = "turn" /\ worker'[w].user = Len(turns) + 1
        /\ worker'[w].reply = worker[w].reply /\ worker'[w].ev = worker[w].ev /\ Alone(w)
    BY <1>1, <1>4 DEF Moves, WorkerRec, Alone
  <1>6. /\ Len(turns') = Len(turns) + 1 /\ \A i \in Rows : turns'[i] = turns[i]
        /\ turns'[Len(turns) + 1] = UserRow(source[worker[w].ev], CarriesKey(w))
    BY StartTurnFacts
  <1>7. QED BY <1>1, <1>2, <1>3, <1>5, <1>6 DEF UserRow

LEMMA StartCommandView ==
    ASSUME TypeInv, PhaseInv, NEW w \in Workers, StartCommand(w)
    PROVE  /\ worker[w].at = "start" /\ worker[w].ev \in Events
           /\ worker'[w].at = "command" /\ worker'[w].user = Len(turns) + 1
           /\ worker'[w].reply = worker[w].reply /\ worker'[w].ev = worker[w].ev
           /\ Len(turns') = Len(turns) + 1 /\ \A i \in Rows : turns'[i] = turns[i]
           /\ turns'[Len(turns) + 1].msg = source[worker[w].ev]
           /\ source[worker[w].ev] \in Commands
           /\ turns'[Len(turns) + 1].keyed = FALSE
           /\ turns'[Len(turns) + 1].replied = FALSE
           /\ \A s \in 1..Segments : /\ turns'[Len(turns) + 1].posted[s] = 0
                                     /\ turns'[Len(turns) + 1].excused[s] = 0
           /\ Alone(w) /\ UNCHANGED << row, source, batch >>
  <1>1. worker[w] \in WorkerRec /\ worker[w].ev \in Events
    BY Busy DEF StartCommand
  <1>2. /\ worker[w].at = "start" /\ source[worker[w].ev] \in Commands
        /\ UNCHANGED << row, source, batch >>
    BY DEF StartCommand
  <1>3. Moves(w, [worker[w] EXCEPT !.at = "command", !.user = Len(turns) + 1])
    BY StartCommandFacts
  <1>4. /\ worker'[w].at = "command" /\ worker'[w].user = Len(turns) + 1
        /\ worker'[w].reply = worker[w].reply /\ worker'[w].ev = worker[w].ev /\ Alone(w)
    BY <1>1, <1>3 DEF Moves, WorkerRec, Alone
  <1>5. /\ Len(turns') = Len(turns) + 1 /\ \A i \in Rows : turns'[i] = turns[i]
        /\ turns'[Len(turns) + 1] = UserRow(source[worker[w].ev], FALSE)
    BY StartCommandFacts
  <1>6. QED BY <1>1, <1>2, <1>4, <1>5 DEF UserRow

\* A user row is written, of a turn or of a command.
Opens(w) == StartTurn(w) \/ StartCommand(w)

LEMMA OpenView ==
    ASSUME TypeInv, PhaseInv, NEW w \in Workers, Opens(w)
    PROVE  /\ worker[w].at = "start" /\ worker[w].ev \in Events
           /\ worker'[w].at \in Underway /\ worker'[w].user = Len(turns) + 1
           /\ worker'[w].reply = worker[w].reply /\ worker'[w].ev = worker[w].ev
           /\ Len(turns') = Len(turns) + 1 /\ \A i \in Rows : turns'[i] = turns[i]
           /\ turns'[Len(turns) + 1].msg = source[worker[w].ev]
           /\ worker'[w].at = "command" => turns'[Len(turns) + 1].keyed = FALSE
           /\ turns'[Len(turns) + 1].replied = FALSE
           /\ \A s \in 1..Segments : /\ turns'[Len(turns) + 1].posted[s] = 0
                                     /\ turns'[Len(turns) + 1].excused[s] = 0
           /\ Alone(w) /\ UNCHANGED << row, source, batch >>
  <1>1. CASE StartTurn(w)
    BY <1>1, StartTurnView DEF Underway
  <1>2. CASE StartCommand(w)
    BY <1>2, StartCommandView DEF Underway
  <1>3. QED BY <1>1, <1>2 DEF Opens

LEMMA PersistReplyView ==
    ASSUME TypeInv, BoundInv, PhaseInv, NEW w \in Workers, PersistReply(w)
    PROVE  /\ worker[w].at = "turn" /\ worker[w].ev \in Events
           /\ worker'[w].at = "replied" /\ worker'[w].reply = worker[w].user
           /\ worker'[w].user = worker[w].user /\ worker'[w].ev = worker[w].ev
           /\ Len(turns') = Len(turns)
           /\ \A i \in Rows : /\ turns'[i].msg = turns[i].msg
                              /\ turns'[i].keyed = turns[i].keyed
                              /\ turns'[i].posted = turns[i].posted
                              /\ turns'[i].excused = turns[i].excused
                              /\ turns'[i].replied = IF i = worker[w].user THEN TRUE
                                                                         ELSE turns[i].replied
           /\ Alone(w) /\ UNCHANGED << row, source, batch >>
  <1>1. worker[w] \in WorkerRec /\ worker[w].ev \in Events
    BY Busy DEF PersistReply
  <1>2. worker[w].at = "turn" /\ UNCHANGED << row, source, batch >>
    BY DEF PersistReply
  <1>3. Moves(w, [worker[w] EXCEPT !.at = "replied", !.reply = worker[w].user])
    BY PersistReplyFacts
  <1>4. /\ worker'[w].at = "replied" /\ worker'[w].reply = worker[w].user
        /\ worker'[w].user = worker[w].user /\ worker'[w].ev = worker[w].ev /\ Alone(w)
    BY <1>1, <1>3 DEF Moves, WorkerRec, Alone
  <1>5. /\ Len(turns') = Len(turns)
        /\ \A i \in Rows : turns'[i] = IF i = worker[w].user
                                       THEN [turns[i] EXCEPT !.replied = TRUE] ELSE turns[i]
    BY PersistReplyFacts
  <1>6. \A i \in Rows : turns[i] \in TurnRec
    BY DEF TypeInv, Rows
  <1>7. \A i \in Rows : /\ turns'[i].msg = turns[i].msg
                        /\ turns'[i].keyed = turns[i].keyed
                        /\ turns'[i].posted = turns[i].posted
                        /\ turns'[i].excused = turns[i].excused
                        /\ turns'[i].replied = IF i = worker[w].user THEN TRUE
                                                                   ELSE turns[i].replied
    BY <1>5, <1>6 DEF TurnRec
  <1>8. QED BY <1>1, <1>2, <1>4, <1>5, <1>7

LEMMA AnswerCommandView ==
    ASSUME TypeInv, BoundInv, PhaseInv, NEW w \in Workers, AnswerCommand(w)
    PROVE  /\ worker[w].at = "command" /\ worker[w].ev \in Events
           /\ worker'[w].at = "returned" /\ worker'[w].reply = worker[w].user
           /\ worker'[w].user = worker[w].user /\ worker'[w].ev = worker[w].ev
           /\ Len(turns') = Len(turns)
           /\ \A i \in Rows : /\ turns'[i].msg = turns[i].msg
                              /\ turns'[i].keyed = turns[i].keyed
                              /\ turns'[i].posted = turns[i].posted
                              /\ turns'[i].excused = turns[i].excused
                              /\ turns'[i].replied = IF i = worker[w].user THEN TRUE
                                                                         ELSE turns[i].replied
           /\ Alone(w) /\ UNCHANGED << row, source, batch >>
  <1>1. worker[w] \in WorkerRec /\ worker[w].ev \in Events
    BY Busy DEF AnswerCommand
  <1>2. worker[w].at = "command" /\ UNCHANGED << row, source, batch >>
    BY DEF AnswerCommand
  <1>3. Moves(w, [worker[w] EXCEPT !.at = "returned", !.reply = worker[w].user])
    BY AnswerCommandFacts
  <1>4. /\ worker'[w].at = "returned" /\ worker'[w].reply = worker[w].user
        /\ worker'[w].user = worker[w].user /\ worker'[w].ev = worker[w].ev /\ Alone(w)
    BY <1>1, <1>3 DEF Moves, WorkerRec, Alone
  <1>5. /\ Len(turns') = Len(turns)
        /\ \A i \in Rows : turns'[i] = IF i = worker[w].user
                                       THEN [turns[i] EXCEPT !.replied = TRUE] ELSE turns[i]
    BY AnswerCommandFacts
  <1>6. \A i \in Rows : turns[i] \in TurnRec
    BY DEF TypeInv, Rows
  <1>7. \A i \in Rows : /\ turns'[i].msg = turns[i].msg
                        /\ turns'[i].keyed = turns[i].keyed
                        /\ turns'[i].posted = turns[i].posted
                        /\ turns'[i].excused = turns[i].excused
                        /\ turns'[i].replied = IF i = worker[w].user THEN TRUE
                                                                   ELSE turns[i].replied
    BY <1>5, <1>6 DEF TurnRec
  <1>8. QED BY <1>1, <1>2, <1>4, <1>5, <1>7

\* The reply of a user row is written, of a turn or of a command.
Closes(w) == PersistReply(w) \/ AnswerCommand(w)

LEMMA CloseView ==
    ASSUME TypeInv, BoundInv, PhaseInv, NEW w \in Workers, Closes(w)
    PROVE  /\ worker[w].at \in Underway /\ worker[w].ev \in Events
           /\ worker'[w].at \in {"replied", "returned"} /\ worker'[w].reply = worker[w].user
           /\ worker'[w].user = worker[w].user /\ worker'[w].ev = worker[w].ev
           /\ Len(turns') = Len(turns)
           /\ \A i \in Rows : /\ turns'[i].msg = turns[i].msg
                              /\ turns'[i].keyed = turns[i].keyed
                              /\ turns'[i].posted = turns[i].posted
                              /\ turns'[i].excused = turns[i].excused
                              /\ turns'[i].replied = IF i = worker[w].user THEN TRUE
                                                                         ELSE turns[i].replied
           /\ Alone(w) /\ UNCHANGED << row, source, batch >>
  <1>1. CASE PersistReply(w)
    BY <1>1, PersistReplyView DEF Underway
  <1>2. CASE AnswerCommand(w)
    BY <1>2, AnswerCommandView DEF Underway
  <1>3. QED BY <1>1, <1>2 DEF Closes

LEMMA EndTurnView ==
    ASSUME TypeInv, PhaseInv, NEW w \in Workers, EndTurn(w)
    PROVE  /\ worker[w].at \in {"turn", "replied"} /\ worker[w].ev \in Events
           /\ worker'[w].at = "returned" /\ worker'[w].reply = worker[w].reply
           /\ worker'[w].user = worker[w].user /\ worker'[w].ev = worker[w].ev
           /\ Alone(w) /\ UNCHANGED << row, turns, source, batch >>
  <1>1. worker[w] \in WorkerRec /\ worker[w].ev \in Events
    BY Busy DEF EndTurn
  <1>2. Moves(w, [worker[w] EXCEPT !.at = "returned"])
    BY EndTurnFacts
  <1>3. QED BY <1>1, <1>2 DEF Moves, WorkerRec, Alone, EndTurn

LEMMA LinkView ==
    ASSUME TypeInv, PhaseInv, NEW w \in Workers, Link(w)
    PROVE  LET e == worker[w].ev IN
           /\ worker[w].at = "returned" /\ e \in Events
           /\ \A x \in Workers : worker[x].at # "marking"
           /\ worker'[w].at = "marking" /\ worker'[w].reply = worker[w].reply
           /\ worker'[w].user = worker[w].user /\ worker'[w].ev = e
           /\ worker'[w].dedup = worker[w].dedup
           /\ \A d \in Events : d # e => row'[d] = row[d]
           /\ row'[e].message = worker[w].user /\ row'[e].segs = row[e].segs
           /\ row'[e].deliv = row[e].deliv
           /\ row'[e].proc = IF w = "live" THEN row[e].proc ELSE "processed"
           /\ row'[e].reply = IF w = "live" /\ worker[w].reply # None THEN worker[w].reply
                                                                 ELSE row[e].reply
           /\ Alone(w) /\ UNCHANGED << turns, source, batch >>
  <1> DEFINE e == worker[w].ev
  <1>1. worker[w] \in WorkerRec /\ e \in Events /\ row[e] \in RowRec
    BY Busy DEF Link
  <1>2. /\ worker[w].at = "returned" /\ UNCHANGED << turns, source, batch >>
        /\ \A x \in Workers : worker[x].at # "marking"
    BY DEF Link
  <1>3. Moves(w, [worker[w] EXCEPT !.at = "marking"])
    BY LinkFacts
  <1>4. /\ worker'[w].at = "marking" /\ worker'[w].reply = worker[w].reply
        /\ worker'[w].user = worker[w].user /\ worker'[w].ev = e
        /\ worker'[w].dedup = worker[w].dedup /\ Alone(w)
    BY <1>1, <1>3 DEF Moves, WorkerRec, Alone
  <1>5. /\ \A d \in Events : d # e => row'[d] = row[d]
        /\ row'[e] = IF w = "live"
              THEN [row[e] EXCEPT !.message = worker[w].user,
                                  !.reply = IF worker[w].reply = None THEN row[e].reply
                                                                      ELSE worker[w].reply]
              ELSE [row[e] EXCEPT !.message = worker[w].user, !.proc = "processed"]
    BY LinkFacts DEF Only
  <1> HIDE DEF e
  <1>6. /\ row'[e].message = worker[w].user /\ row'[e].segs = row[e].segs
        /\ row'[e].deliv = row[e].deliv
        /\ row'[e].proc = IF w = "live" THEN row[e].proc ELSE "processed"
        /\ row'[e].reply = IF w = "live" /\ worker[w].reply # None THEN worker[w].reply
                                                              ELSE row[e].reply
    BY <1>1, <1>5 DEF RowRec
  <1>7. QED BY <1>1, <1>2, <1>4, <1>5, <1>6 DEF e

LEMMA ConcludeView ==
    ASSUME TypeInv, PhaseInv, NEW w \in Workers, Conclude(w)
    PROVE  LET e == worker[w].ev IN
           /\ worker[w].at = "marking" /\ e \in Events
           /\ \A d \in Events : d # e => row'[d] = row[d]
           /\ row'[e].message = row[e].message /\ row'[e].proc = "processed"
           /\ row'[e].reply = IF w = "sweep" /\ worker[w].reply # None THEN worker[w].reply
                                                                   ELSE row[e].reply
           /\ \/ /\ worker[w].dedup /\ OwnedBySibling(row, worker[w].user, e)
                 /\ row'[e].deliv = "delivered" /\ row'[e].segs = row[e].segs
                 /\ worker'[w] = Resting
              \/ /\ row'[e].deliv = row[e].deliv /\ row'[e].segs = 0
                 /\ worker'[w].at = "deliver" /\ worker'[w].seg = 0
                 /\ worker'[w].reply = worker[w].reply
                 /\ worker'[w].user = worker[w].user /\ worker'[w].ev = e
           /\ Alone(w) /\ UNCHANGED << turns, source, batch >>
  <1> DEFINE e == worker[w].ev
  <1>1. worker[w] \in WorkerRec /\ e \in Events /\ worker[w].at = "marking"
    BY Busy DEF Conclude
  <1>2. UNCHANGED << turns, source, batch >>
    BY DEF Conclude
  <1>3. /\ \A d \in Events : d # e => row'[d] = row[d]
        /\ row'[e].message = row[e].message /\ row'[e].proc = "processed"
        /\ row'[e].reply = IF w = "sweep" /\ worker[w].reply # None THEN worker[w].reply
                                                                ELSE row[e].reply
    BY ConcludeFacts DEF Only
  <1>4. \/ /\ worker[w].dedup /\ OwnedBySibling(row, worker[w].user, e)
           /\ row'[e].deliv = "delivered" /\ row'[e].segs = row[e].segs
           /\ Moves(w, Resting)
        \/ /\ row'[e].deliv = row[e].deliv /\ row'[e].segs = 0
           /\ Moves(w, [worker[w] EXCEPT !.at = "deliver", !.seg = 0])
    BY ConcludeFacts
  <1> HIDE DEF e
  <1>5. \/ /\ worker[w].dedup /\ OwnedBySibling(row, worker[w].user, e)
           /\ row'[e].deliv = "delivered" /\ row'[e].segs = row[e].segs
           /\ worker'[w] = Resting /\ Alone(w)
        \/ /\ row'[e].deliv = row[e].deliv /\ row'[e].segs = 0
           /\ worker'[w].at = "deliver" /\ worker'[w].seg = 0
           /\ worker'[w].reply = worker[w].reply
           /\ worker'[w].user = worker[w].user /\ worker'[w].ev = worker[w].ev /\ Alone(w)
    BY <1>1, <1>4 DEF Moves, WorkerRec, Alone
  <1>6. QED BY <1>1, <1>2, <1>3, <1>5 DEF e

LEMMA SendSegmentView ==
    ASSUME TypeInv, BoundInv, PhaseInv, NEW w \in Workers, SendSegment(w)
    PROVE  LET i == Replying(worker[w])
               s == worker[w].seg + 1 IN
           /\ worker[w].at = "deliver" /\ worker[w].ev \in Events /\ i \in Rows
           /\ s \in 1..Segments /\ worker[w].seg \in Nat
           /\ worker'[w].at = "sent" /\ worker'[w].reply = worker[w].reply
           /\ worker'[w].user = worker[w].user /\ worker'[w].ev = worker[w].ev
           /\ worker'[w].seg = worker[w].seg
           /\ SameTurns
           /\ \A j \in Rows : /\ turns'[j].excused = turns[j].excused
                              /\ turns'[j].posted = IF j = i THEN [turns[j].posted EXCEPT ![s] = @ + 1]
                                                             ELSE turns[j].posted
           /\ Alone(w) /\ UNCHANGED << row, source, batch >>
  <1> DEFINE i == Replying(worker[w])
             s == worker[w].seg + 1
  <1>1. worker[w] \in WorkerRec /\ worker[w].ev \in Events
    BY Busy DEF SendSegment, ToSend
  <1>2. UNCHANGED << row, source, batch >>
    BY DEF SendSegment
  <1>3. /\ worker[w].at = "deliver" /\ i \in Rows /\ worker[w].seg \in 0..Segments - 1
        /\ Len(turns') = Len(turns)
        /\ \A j \in Rows : turns'[j] = IF j = i THEN Posted(turns[i], s) ELSE turns[j]
        /\ Moves(w, [worker[w] EXCEPT !.at = "sent"])
    BY SendSegmentFacts
  <1>4. /\ worker'[w].at = "sent" /\ worker'[w].reply = worker[w].reply
        /\ worker'[w].user = worker[w].user /\ worker'[w].ev = worker[w].ev
        /\ worker'[w].seg = worker[w].seg /\ Alone(w)
    BY <1>1, <1>3 DEF Moves, WorkerRec, Alone
  <1>5. s \in 1..Segments /\ worker[w].seg \in Nat
    BY <1>3, ChannelConstants
  <1>6. turns[i] \in TurnRec
    BY <1>3 DEF TypeInv, Rows
  <1> HIDE DEF i, s
  <1>7. /\ Posted(turns[i], s).msg = turns[i].msg /\ Posted(turns[i], s).keyed = turns[i].keyed
        /\ Posted(turns[i], s).replied = turns[i].replied
        /\ Posted(turns[i], s).excused = turns[i].excused
        /\ Posted(turns[i], s).posted = [turns[i].posted EXCEPT ![s] = @ + 1]
    BY <1>5, <1>6, PostedFacts
  <1>8. SameTurns /\ \A j \in Rows :
           /\ turns'[j].excused = turns[j].excused
           /\ turns'[j].posted = IF j = i THEN [turns[j].posted EXCEPT ![s] = @ + 1]
                                          ELSE turns[j].posted
    BY <1>3, <1>7 DEF SameTurns
  <1>9. QED BY <1>1, <1>2, <1>3, <1>4, <1>5, <1>8 DEF i, s

\* A delivery that failed after its segment was posted.
LEMMA SendFailsView ==
    ASSUME TypeInv, BoundInv, PhaseInv, NEW w \in Workers, NEW fatal \in BOOLEAN,
           NEW posted \in BOOLEAN, SendFails(w, fatal, posted), turns' # turns
    PROVE  LET i == Replying(worker[w])
               s == worker[w].seg + 1
               e == worker[w].ev IN
           /\ worker[w].at = "deliver" /\ e \in Events /\ i \in Rows
           /\ s \in 1..Segments /\ worker[w].seg \in Nat
           /\ worker'[w] = Resting
           /\ \A d \in Events : d # e => row'[d] = row[d]
           /\ Tells(e) /\ row'[e].proc = row[e].proc
           /\ row'[e].deliv \in {"failed", "dead_letter"}
           /\ SameTurns
           /\ \A j \in Rows : /\ turns'[j].excused = IF j = i THEN [turns[j].excused EXCEPT ![s] = @ + 1]
                                                             ELSE turns[j].excused
                              /\ turns'[j].posted = IF j = i THEN [turns[j].posted EXCEPT ![s] = @ + 1]
                                                             ELSE turns[j].posted
           /\ Alone(w) /\ UNCHANGED << source, batch >>
  <1> DEFINE i == Replying(worker[w])
             s == worker[w].seg + 1
             e == worker[w].ev
  <1>1. worker[w] \in WorkerRec /\ e \in Events /\ row[e] \in RowRec
    BY Busy DEF SendFails, ToSend
  <1>2. UNCHANGED << source, batch >>
    BY DEF SendFails
  <1>3. /\ worker[w].at = "deliver" /\ i \in Rows /\ worker[w].seg \in 0..Segments - 1
        /\ Len(turns') = Len(turns)
        /\ \A j \in Rows : turns'[j] = IF j = i THEN Excused(turns[i], s) ELSE turns[j]
        /\ Moves(w, Resting)
    BY SendFailsFacts
  <1>4. PICK p \in {"failed", "dead_letter"} :
           Writes(e, [row[e] EXCEPT !.delivTries = row[e].delivTries + 1, !.deliv = p])
    BY SendFailsFacts
  <1>5. s \in 1..Segments /\ worker[w].seg \in Nat
    BY <1>3, ChannelConstants
  <1>6. turns[i] \in TurnRec
    BY <1>3 DEF TypeInv, Rows
  <1> HIDE DEF i, s, e
  <1>7. /\ Excused(turns[i], s).msg = turns[i].msg /\ Excused(turns[i], s).keyed = turns[i].keyed
        /\ Excused(turns[i], s).replied = turns[i].replied
        /\ Excused(turns[i], s).excused = [turns[i].excused EXCEPT ![s] = @ + 1]
        /\ Excused(turns[i], s).posted = [turns[i].posted EXCEPT ![s] = @ + 1]
    BY <1>5, <1>6, PostedFacts
  <1>8. SameTurns /\ \A j \in Rows :
           /\ turns'[j].excused = IF j = i THEN [turns[j].excused EXCEPT ![s] = @ + 1]
                                           ELSE turns[j].excused
           /\ turns'[j].posted = IF j = i THEN [turns[j].posted EXCEPT ![s] = @ + 1]
                                          ELSE turns[j].posted
    BY <1>3, <1>7 DEF SameTurns
  <1>9. /\ \A d \in Events : d # e => row'[d] = row[d]
        /\ Tells(e) /\ row'[e].proc = row[e].proc /\ row'[e].deliv \in {"failed", "dead_letter"}
    BY <1>1, <1>4 DEF Writes, Only, RowRec, Tells
  <1>10. worker'[w] = Resting /\ Alone(w)
    BY <1>3 DEF Moves, Alone
  <1>11. QED BY <1>1, <1>2, <1>3, <1>5, <1>8, <1>9, <1>10 DEF i, s, e

LEMMA CountSegmentView ==
    ASSUME TypeInv, BoundInv, PhaseInv, NEW w \in Workers, CountSegment(w)
    PROVE  LET e == worker[w].ev IN
           /\ worker[w].at = "sent" /\ e \in Events /\ worker[w].seg < Segments
           /\ worker[w].seg \in Nat
           /\ worker'[w].at = "deliver" /\ worker'[w].reply = worker[w].reply
           /\ worker'[w].user = worker[w].user /\ worker'[w].ev = e
           /\ worker'[w].seg = worker[w].seg + 1
           /\ \A d \in Events : d # e => row'[d] = row[d]
           /\ row'[e].message = row[e].message /\ row'[e].reply = row[e].reply
           /\ row'[e].segs = worker[w].seg + 1
           /\ row'[e].proc = row[e].proc /\ row'[e].deliv = row[e].deliv
           /\ Alone(w) /\ UNCHANGED << turns, source, batch >>
  <1> DEFINE e == worker[w].ev
  <1>1. worker[w] \in WorkerRec /\ e \in Events /\ row[e] \in RowRec /\ worker[w].at = "sent"
    BY Busy DEF CountSegment
  <1>2. UNCHANGED << turns, source, batch >> /\ worker[w].seg < Segments
    BY <1>1 DEF CountSegment, BoundInv
  <1>3. /\ Writes(e, [row[e] EXCEPT !.segs = worker[w].seg + 1])
        /\ Moves(w, [worker[w] EXCEPT !.at = "deliver", !.seg = worker[w].seg + 1])
    BY <1>2, CountSegmentFacts
  <1>4. worker[w].seg \in Nat
    <2>1. worker[w].seg \in 0..Segments
      BY <1>1 DEF WorkerRec
    <2>2. QED BY <2>1, ChannelConstants
  <1> HIDE DEF e
  <1>5. /\ worker'[w].at = "deliver" /\ worker'[w].reply = worker[w].reply
        /\ worker'[w].user = worker[w].user /\ worker'[w].ev = worker[w].ev
        /\ worker'[w].seg = worker[w].seg + 1 /\ Alone(w)
    BY <1>1, <1>3 DEF Moves, WorkerRec, Alone
  <1>6. /\ \A d \in Events : d # e => row'[d] = row[d]
        /\ row'[e].message = row[e].message /\ row'[e].reply = row[e].reply
        /\ row'[e].segs = worker[w].seg + 1
        /\ row'[e].proc = row[e].proc /\ row'[e].deliv = row[e].deliv
    BY <1>1, <1>3 DEF Writes, Only, RowRec
  <1>7. QED BY <1>1, <1>2, <1>4, <1>5, <1>6 DEF e

LEMMA SweepDeliversView ==
    ASSUME TypeInv, BoundInv, PhaseInv, NEW e \in Events, SweepDelivers(e), ~(worker' = worker)
    PROVE  /\ worker["sweep"].at = "idle" /\ e \in batch.deliv /\ "sweep" \in Workers
           /\ worker'["sweep"].at = "deliver" /\ worker'["sweep"].ev = e
           /\ worker'["sweep"].user = row[e].message
           /\ worker'["sweep"].seg = batch.segs[e]
           /\ TurnOf(e) \in Rows /\ TurnOf(e) # None
           /\ worker'["sweep"].reply = TurnOf(e)
           /\ \A d \in Events : d # e => row'[d] = row[d]
           /\ row'[e].message = row[e].message /\ row'[e].reply = TurnOf(e)
           /\ row'[e].segs = row[e].segs
           /\ row'[e].proc = row[e].proc /\ row'[e].deliv = row[e].deliv
           /\ batch'.deliv \subseteq batch.deliv
           /\ \A d \in batch'.deliv : batch'.segs[d] = batch.segs[d]
           /\ Alone("sweep") /\ UNCHANGED << turns, source >>
  <1>1. row[e] \in RowRec /\ batch.segs \in [Events -> 0..Segments] /\ batch.deliv \subseteq Events
    BY BatchFields DEF TypeInv, RowTable
  <1>2. /\ worker["sweep"].at = "idle" /\ e \in batch.deliv
        /\ batch'.deliv = batch.deliv \ {e} /\ batch'.segs = [batch.segs EXCEPT ![e] = 0]
    BY SweepDeliversFacts
  <1>3. PICK i \in Rows :
           /\ i = IF row[e].reply # None THEN row[e].reply ELSE row[e].message
           /\ row[e].reply = None => turns[i].replied
           /\ Writes(e, [row[e] EXCEPT !.reply = i])
           /\ Moves("sweep", [Resting EXCEPT !.at = "deliver", !.ev = e,
                                !.user = row[e].message, !.reply = i,
                                !.seg = batch.segs[e]])
    BY SweepDeliversFacts
  <1>4. i # None
    BY DEF Rows, None
  <1>5. TurnOf(e) = i
    BY <1>3, <1>4 DEF TurnOf
  <1>6. /\ worker'["sweep"].at = "deliver" /\ worker'["sweep"].ev = e
        /\ worker'["sweep"].user = row[e].message /\ worker'["sweep"].reply = i
        /\ worker'["sweep"].seg = batch.segs[e] /\ Alone("sweep")
    BY <1>3 DEF Moves, Resting, Alone
  <1>7. /\ \A d \in Events : d # e => row'[d] = row[d]
        /\ row'[e].message = row[e].message /\ row'[e].reply = i /\ row'[e].segs = row[e].segs
        /\ row'[e].proc = row[e].proc /\ row'[e].deliv = row[e].deliv
    BY <1>1, <1>3 DEF Writes, Only, RowRec
  <1>8. /\ batch'.deliv \subseteq batch.deliv
        /\ \A d \in batch'.deliv : batch'.segs[d] = batch.segs[d]
    BY <1>1, <1>2
  <1>9. UNCHANGED << turns, source >> /\ "sweep" \in Workers
    BY DEF SweepDelivers, Workers
  <1>10. QED BY <1>2, <1>3, <1>4, <1>5, <1>6, <1>7, <1>8, <1>9

LEMMA CrashView ==
    ASSUME TypeInv, Crash
    PROVE  /\ \A e \in Events : /\ Tells(e) /\ row'[e].proc = row[e].proc
                                /\ row'[e].deliv = row[e].deliv
           /\ SameTurns
           /\ \A i \in Rows :
                 /\ turns'[i].posted = turns[i].posted
                 /\ \A s \in 1..Segments : turns'[i].excused[s] =
                       turns[i].excused[s] + Cardinality(LostCounts(i, s))
           /\ \A i \in Rows, s \in 1..Segments :
                 IsFiniteSet(LostCounts(i, s)) /\ Cardinality(LostCounts(i, s)) \in Nat
           /\ \A w \in Workers : Unengaged(worker'[w]) /\ worker'[w].at = "idle"
           /\ batch'.deliv = {} /\ source' = source
  <1>1. \A e \in Events : row[e] \in RowRec /\ row'[e] = [row[e] EXCEPT !.old = row'[e].old]
    BY CrashFacts DEF TypeInv, RowTable
  <1>2. \A e \in Events : Tells(e) /\ row'[e].proc = row[e].proc /\ row'[e].deliv = row[e].deliv
    <2> TAKE e \in Events
    <2>1. row[e] \in RowRec /\ row'[e] = [row[e] EXCEPT !.old = row'[e].old]
      BY <1>1
    <2>2. QED BY <2>1 DEF RowRec, Tells
  <1>3. SameTurns
    BY CrashFacts DEF SameTurns
  <1>4. \A w \in Workers : Unengaged(worker'[w]) /\ worker'[w].at = "idle"
    BY CrashFacts, UnengagedFacts, RestingZero
  <1>5. source' = source
    BY DEF Crash
  <1>6. QED BY <1>2, <1>3, <1>4, <1>5, CrashFacts

-----------------------------------------------------------------------------
(* Every step is one of these.                                             *)

LEMMA Steps ==
    ASSUME TypeInv, BoundInv, PhaseInv, [Next]_vars
    PROVE  \/ Quiet
           \/ \E w \in Workers :
                 \/ Deduplicate(w) \/ Opens(w) \/ Closes(w) \/ EndTurn(w)
                 \/ Link(w) \/ Conclude(w) \/ SendSegment(w) \/ CountSegment(w)
                 \/ turns' # turns /\ \E fatal, posted \in BOOLEAN : SendFails(w, fatal, posted)
           \/ \E e \in Events : SweepDelivers(e) /\ ~(worker' = worker)
           \/ Crash
  <1>1. CASE \E e \in Events :
                RecordInbound(e) \/ Handle(e) \/ Sweep(e) \/ ReplayDeadLetter(e)
    BY <1>1, EventQuiet
  <1>2. ASSUME NEW w \in Workers, Turn(w)
        PROVE  \/ Quiet
               \/ Deduplicate(w) \/ Opens(w) \/ Closes(w) \/ EndTurn(w)
    BY <1>2, TurnQuiet DEF Opens, Closes
  <1>3. ASSUME NEW w \in Workers, Deliver(w)
        PROVE  \/ Quiet
               \/ Link(w) \/ Conclude(w) \/ SendSegment(w) \/ CountSegment(w)
               \/ turns' # turns /\ \E fatal, posted \in BOOLEAN : SendFails(w, fatal, posted)
    BY <1>3, DeliverQuiet
  <1>4. CASE Admit \/ StartSweep \/ OtherTurnStarts \/ OtherTurnEnds
               \/ RecoverOrphans \/ RecoverStranded \/ UNCHANGED vars
    BY <1>4, OtherQuiet
  <1>5. QED
    BY <1>1, <1>2, <1>3, <1>4 DEF Next

-----------------------------------------------------------------------------
(* KeyInv.                                                                 *)

\* No turn is added or answered, and no worker comes to a turn or a rerun.
TameKey ==
    /\ SameTurns /\ source' = source
    /\ \A x \in Workers : worker'[x].at = "turn" =>
          worker[x].at = "turn" /\ worker'[x].user = worker[x].user
    /\ \A x \in Workers : worker'[x].at = "start" /\ worker'[x].fresh => worker'[x] = worker[x]

LEMMA SameRows == ASSUME Len(turns') = Len(turns)
                  PROVE  Rows' = Rows
  BY DEF Rows

\* Which message a row is for, and whether it carries the key.
SameKeys ==
    /\ Len(turns') = Len(turns)
    /\ \A i \in Rows : turns'[i].msg = turns[i].msg /\ turns'[i].keyed = turns[i].keyed

LEMMA KeyKept ==
    ASSUME KeyInv, SameKeys, \A i \in Rows : turns[i].keyed /\ Barren(i) => Barren(i)',
           \A w \in Workers : worker'[w].at = "start" /\ worker'[w].fresh =>
              \E i \in KeyedRow(source'[worker'[w].ev]) : Barren(i)'
    PROVE  KeyInv'
  <1>1. Rows' = Rows
    BY SameRows DEF SameKeys
  <1>2. \A i \in Rows' : turns'[i].keyed => turns'[i].msg \in Keyed \ Commands
    BY <1>1 DEF KeyInv, SameKeys
  <1>3. \A i, j \in Rows' : i # j /\ turns'[i].msg = turns'[j].msg /\ turns'[i].keyed =>
           ~turns'[j].keyed /\ Barren(i)'
    BY <1>1 DEF KeyInv, SameKeys
  <1>4. \A j \in Rows' : turns'[j].msg \in Keyed \ Commands => KeyedRow(turns[j].msg)' # {}
    <2> TAKE j \in Rows'
    <2>1. turns'[j].msg = turns[j].msg
      BY <1>1 DEF SameKeys
    <2>2. KeyedRow(turns[j].msg)' = KeyedRow(turns'[j].msg)
      BY <1>1 DEF KeyedRow, SameKeys
    <2>3. QED BY <1>1, <2>1, <2>2 DEF KeyInv
  <1>5. ASSUME NEW w \in Workers, worker'[w].at = "start", worker'[w].fresh
        PROVE  \E i \in KeyedRow(source[worker[w].ev])' : Barren(i)'
    <2>1. KeyedRow(source[worker[w].ev])' = KeyedRow(source'[worker'[w].ev])
      BY <1>1 DEF KeyedRow, SameKeys
    <2>2. QED BY <1>5, <2>1
  <1>6. QED
    BY <1>2, <1>3, <1>4, <1>5 DEF KeyInv

LEMMA TameBarren ==
    ASSUME TameKey, NEW i \in Rows, Barren(i)
    PROVE  Barren(i)'
  BY DEF TameKey, SameTurns, Barren

LEMMA KeyTame ==
    ASSUME KeyInv, TameKey
    PROVE  KeyInv'
  <1>1. SameKeys
    BY DEF TameKey, SameTurns, SameKeys
  <1>2. ASSUME NEW w \in Workers, worker'[w].at = "start", worker'[w].fresh
        PROVE  \E i \in KeyedRow(source'[worker'[w].ev]) : Barren(i)'
    <2>1. worker'[w] = worker[w] /\ source' = source
      BY <1>2 DEF TameKey
    <2>2. PICK i \in KeyedRow(source[worker[w].ev]) : Barren(i)
      BY <1>2, <2>1 DEF KeyInv
    <2>3. i \in Rows
      BY DEF KeyedRow
    <2>4. QED BY <2>1, <2>2, <2>3, TameBarren
  <1>3. QED
    BY <1>1, <1>2, TameBarren, KeyKept

LEMMA KeyStartTurn ==
    ASSUME TypeInv, PhaseInv, KeyInv, NEW w \in Workers, StartTurn(w)
    PROVE  KeyInv'
  <1> DEFINE n == Len(turns) + 1
             m == source[worker[w].ev]
  <1>1. /\ worker[w].at = "start" /\ worker'[w].at = "turn" /\ worker'[w].user = n
        /\ Len(turns') = n /\ \A i \in Rows : turns'[i] = turns[i]
        /\ turns'[n].msg = m /\ turns'[n].keyed = CarriesKey(w) /\ turns'[n].replied = FALSE
        /\ (CarriesKey(w) => KeyedRow(m) = {}) /\ m \notin Commands
        /\ Alone(w) /\ UNCHANGED << row, source, batch >>
    BY StartTurnView DEF StartTurn
  <1>2. Rows' = Rows \cup {n} /\ n \notin Rows
    <2>1. Len(turns) \in Nat
      BY DEF TypeInv
    <2>2. QED BY <1>1, <2>1 DEF Rows
  <1> HIDE DEF n, m
  <1>3. ASSUME NEW i \in Rows, Barren(i)
        PROVE  Barren(i)'
    BY <1>1, <1>2, <1>3 DEF Barren, Alone
  <1>4. m \in Keyed /\ ~CarriesKey(w) => \E i \in KeyedRow(m) : Barren(i)
    BY <1>1 DEF CarriesKey, KeyInv, m
  <1>5. CarriesKey(w) => m \in Keyed /\ \A j \in Rows : turns[j].msg # m
    BY <1>1 DEF CarriesKey, KeyInv, m
  <1>6. \A i \in Rows' : turns'[i].keyed => turns'[i].msg \in Keyed \ Commands
    BY <1>1, <1>2, <1>5 DEF KeyInv
  <1>7. ASSUME NEW i \in Rows', NEW j \in Rows', i # j, turns'[i].msg = turns'[j].msg,
               turns'[i].keyed
        PROVE  ~turns'[j].keyed /\ Barren(i)'
    <2>1. CASE i \in Rows /\ j \in Rows
      BY <1>1, <1>3, <1>7, <2>1 DEF KeyInv
    <2>2. CASE i = n /\ j \in Rows
      BY <1>1, <1>5, <1>7, <2>2
    <2>3. CASE i \in Rows /\ j = n
      <3>1. i \in KeyedRow(m) /\ ~CarriesKey(w) /\ m \in Keyed
        BY <1>1, <1>7, <2>3 DEF KeyedRow, KeyInv
      <3>2. PICK k \in KeyedRow(m) : Barren(k)
        BY <1>4, <3>1
      <3>3. k = i
        BY <3>1 DEF KeyedRow, KeyInv
      <3>4. QED BY <1>1, <1>3, <2>3, <3>1, <3>2, <3>3
    <2>4. QED BY <1>2, <1>7, <2>1, <2>2, <2>3
  <1>8. \A x : KeyedRow(x) \subseteq KeyedRow(x)'
    BY <1>1, <1>2 DEF KeyedRow
  <1>9. ASSUME NEW j \in Rows', turns'[j].msg \in Keyed \ Commands
        PROVE  KeyedRow(turns[j].msg)' # {}
    <2>1. KeyedRow(turns[j].msg)' = {i \in Rows' : turns'[i].msg = turns'[j].msg /\ turns'[i].keyed}
      BY DEF KeyedRow
    <2>2. CASE j \in Rows
      BY <1>1, <1>2, <1>9, <2>1, <2>2 DEF KeyInv, KeyedRow
    <2>3. CASE j = n
      BY <1>1, <1>2, <1>4, <1>9, <2>1, <2>3 DEF KeyedRow
    <2>4. QED BY <1>2, <2>2, <2>3
  <1>10. ASSUME NEW x \in Workers, worker'[x].at = "start", worker'[x].fresh
         PROVE  \E i \in KeyedRow(source[worker[x].ev])' : Barren(i)'
    <2>1. worker'[x] = worker[x]
      BY <1>1, <1>10 DEF Alone
    <2>2. PICK i \in KeyedRow(source[worker[x].ev]) : Barren(i)
      BY <1>10, <2>1 DEF KeyInv
    <2>3. i \in Rows /\ turns[i].msg = source[worker[x].ev] /\ turns[i].keyed
      BY DEF KeyedRow
    <2>4. i \in KeyedRow(source[worker[x].ev])'
      BY <1>1, <1>2, <2>1, <2>3 DEF KeyedRow
    <2>5. QED BY <1>3, <2>2, <2>3, <2>4
  <1>11. QED
    BY <1>6, <1>7, <1>9, <1>10 DEF KeyInv

LEMMA KeyPersistReply ==
    ASSUME TypeInv, BoundInv, PhaseInv, KeyInv, NEW w \in Workers, PersistReply(w)
    PROVE  KeyInv'
  <1>1. /\ worker[w].at = "turn" /\ worker'[w].at = "replied"
        /\ worker'[w].user = worker[w].user /\ worker'[w].ev = worker[w].ev
        /\ Len(turns') = Len(turns)
        /\ \A i \in Rows : /\ turns'[i].msg = turns[i].msg
                           /\ turns'[i].keyed = turns[i].keyed
                           /\ turns'[i].replied = IF i = worker[w].user THEN TRUE
                                                                      ELSE turns[i].replied
        /\ Alone(w) /\ source' = source
    BY PersistReplyView
  <1>2. ASSUME NEW i \in Rows, Barren(i)
        PROVE  Barren(i)'
    BY <1>1, <1>2 DEF Barren, Alone
  <1>3. SameKeys
    BY <1>1 DEF SameKeys
  <1>4. ASSUME NEW x \in Workers, worker'[x].at = "start", worker'[x].fresh
        PROVE  \E i \in KeyedRow(source'[worker'[x].ev]) : Barren(i)'
    <2>1. worker'[x] = worker[x]
      BY <1>1, <1>4 DEF Alone
    <2>2. PICK i \in KeyedRow(source[worker[x].ev]) : Barren(i)
      BY <1>4, <2>1 DEF KeyInv
    <2>3. QED BY <1>1, <1>2, <2>1, <2>2 DEF KeyedRow
  <1>5. QED BY <1>2, <1>3, <1>4, KeyKept

\* The row of a command carries no key, and no keyed row is one of a command.
LEMMA KeyStartCommand ==
    ASSUME TypeInv, PhaseInv, KeyInv, NEW w \in Workers, StartCommand(w)
    PROVE  KeyInv'
  <1> DEFINE n == Len(turns) + 1
             m == source[worker[w].ev]
  <1>1. /\ worker[w].at = "start" /\ worker'[w].at = "command"
        /\ Len(turns') = n /\ \A i \in Rows : turns'[i] = turns[i]
        /\ turns'[n].msg = m /\ turns'[n].keyed = FALSE /\ m \in Commands
        /\ Alone(w) /\ UNCHANGED << row, source, batch >>
    BY StartCommandView
  <1>2. Rows' = Rows \cup {n} /\ n \notin Rows
    <2>1. Len(turns) \in Nat
      BY DEF TypeInv
    <2>2. QED BY <1>1, <2>1 DEF Rows
  <1> HIDE DEF n, m
  <1>3. ASSUME NEW i \in Rows, Barren(i)
        PROVE  Barren(i)'
    BY <1>1, <1>2, <1>3 DEF Barren, Alone
  <1>4. \A i \in Rows' : turns'[i].keyed => turns'[i].msg \in Keyed \ Commands /\ i \in Rows
    BY <1>1, <1>2 DEF KeyInv
  <1>5. ASSUME NEW i \in Rows', NEW j \in Rows', i # j, turns'[i].msg = turns'[j].msg,
               turns'[i].keyed
        PROVE  ~turns'[j].keyed /\ Barren(i)'
    <2>1. i \in Rows /\ j \in Rows
      BY <1>1, <1>2, <1>4, <1>5
    <2>2. QED BY <1>1, <1>3, <1>5, <2>1 DEF KeyInv
  <1>6. ASSUME NEW j \in Rows', turns'[j].msg \in Keyed \ Commands
        PROVE  KeyedRow(turns[j].msg)' # {}
    <2>1. KeyedRow(turns[j].msg)' = {i \in Rows' : turns'[i].msg = turns'[j].msg /\ turns'[i].keyed}
      BY DEF KeyedRow
    <2>2. j \in Rows
      BY <1>1, <1>2, <1>6
    <2>3. QED BY <1>1, <1>2, <1>6, <2>1, <2>2 DEF KeyInv, KeyedRow
  <1>7. ASSUME NEW x \in Workers, worker'[x].at = "start", worker'[x].fresh
        PROVE  \E i \in KeyedRow(source[worker[x].ev])' : Barren(i)'
    <2>1. worker'[x] = worker[x]
      BY <1>1, <1>7 DEF Alone
    <2>2. PICK i \in KeyedRow(source[worker[x].ev]) : Barren(i)
      BY <1>7, <2>1 DEF KeyInv
    <2>3. i \in Rows /\ turns[i].msg = source[worker[x].ev] /\ turns[i].keyed
      BY DEF KeyedRow
    <2>4. i \in KeyedRow(source[worker[x].ev])'
      BY <1>1, <1>2, <2>1, <2>3 DEF KeyedRow
    <2>5. QED BY <1>3, <2>2, <2>3, <2>4
  <1>8. QED
    BY <1>4, <1>5, <1>6, <1>7 DEF KeyInv

LEMMA KeyAnswerCommand ==
    ASSUME TypeInv, BoundInv, PhaseInv, KeyInv, UserInv, NEW w \in Workers, AnswerCommand(w)
    PROVE  KeyInv'
  <1>1. /\ worker[w].at = "command" /\ worker'[w].at = "returned"
        /\ worker'[w].user = worker[w].user /\ worker'[w].ev = worker[w].ev
        /\ Len(turns') = Len(turns)
        /\ \A i \in Rows : /\ turns'[i].msg = turns[i].msg
                           /\ turns'[i].keyed = turns[i].keyed
                           /\ turns'[i].replied = IF i = worker[w].user THEN TRUE
                                                                      ELSE turns[i].replied
        /\ Alone(w) /\ source' = source
    BY AnswerCommandView
  <1>2. ~turns[worker[w].user].keyed
    BY <1>1 DEF UserInv, Knows
  <1>3. ASSUME NEW i \in Rows, turns[i].keyed, Barren(i)
        PROVE  Barren(i)'
    BY <1>1, <1>2, <1>3 DEF Barren, Alone
  <1>4. SameKeys
    BY <1>1 DEF SameKeys
  <1>5. ASSUME NEW x \in Workers, worker'[x].at = "start", worker'[x].fresh
        PROVE  \E i \in KeyedRow(source'[worker'[x].ev]) : Barren(i)'
    <2>1. worker'[x] = worker[x]
      BY <1>1, <1>5 DEF Alone
    <2>2. PICK i \in KeyedRow(source[worker[x].ev]) : Barren(i)
      BY <1>5, <2>1 DEF KeyInv
    <2>3. QED BY <1>1, <1>3, <2>1, <2>2 DEF KeyedRow
  <1>6. QED BY <1>3, <1>4, <1>5, KeyKept

LEMMA KeyDeduplicate ==
    ASSUME TypeInv, PhaseInv, KeyInv, NEW w \in Workers, Deduplicate(w)
    PROVE  KeyInv'
  <1>1. PICK id \in KeyedRow(source[worker[w].ev]) :
           \/ ~turns[id].replied /\ worker'[w].at = "start"
           \/ worker'[w].at = "returned"
    BY DeduplicateView
  <1>2. /\ \A x \in Workers : worker[x].at # "turn"
        /\ worker'[w].ev = worker[w].ev
        /\ Alone(w) /\ UNCHANGED << turns, source >>
    BY DeduplicateView
  <1>3. \A x \in Workers : worker'[x].at # "turn"
    BY <1>1, <1>2 DEF Alone
  <1>4. SameKeys
    BY <1>2 DEF SameKeys
  <1>5. \A i \in Rows : Barren(i) => Barren(i)'
    BY <1>2, <1>3 DEF Barren
  <1>6. ASSUME NEW x \in Workers, worker'[x].at = "start", worker'[x].fresh
        PROVE  \E i \in KeyedRow(source'[worker'[x].ev]) : Barren(i)'
    <2>1. CASE x = w
      <3>1. ~turns[id].replied
        BY <1>1, <1>6, <2>1
      <3>2. Barren(id)'
        BY <1>2, <1>3, <3>1 DEF Barren
      <3>3. QED BY <1>2, <2>1, <3>2
    <2>2. CASE x # w
      <3>1. worker'[x] = worker[x]
        BY <1>2, <2>2 DEF Alone
      <3>2. PICK i \in KeyedRow(source[worker[x].ev]) : Barren(i)
        BY <1>6, <3>1 DEF KeyInv
      <3>3. QED BY <1>2, <1>5, <3>1, <3>2 DEF KeyedRow
    <2>3. QED BY <2>1, <2>2
  <1>7. QED BY <1>4, <1>5, <1>6, KeyKept

LEMMA KeyStep ==
    ASSUME TypeInv, BoundInv, PhaseInv, KeyInv, UserInv, [Next]_vars
    PROVE  KeyInv'
  <1>1. CASE Quiet
    <2>1. \A x \in Workers : worker'[x].at = "turn" =>
             worker[x].at = "turn" /\ worker'[x].user = worker[x].user
      BY <1>1 DEF Quiet, Unengaged
    <2>2. \A x \in Workers : worker'[x].at = "start" /\ worker'[x].fresh =>
             worker'[x] = worker[x]
      BY <1>1 DEF Quiet, Unengaged
    <2>3. SameTurns /\ source' = source
      BY <1>1 DEF Quiet, SameTurns
    <2>4. QED BY <2>1, <2>2, <2>3, KeyTame DEF TameKey
  <1>2. ASSUME NEW w \in Workers, EndTurn(w) \/ Link(w)
        PROVE  KeyInv'
    <2>1. /\ worker'[w].at \in {"returned", "marking"} /\ Alone(w)
          /\ UNCHANGED << turns, source >>
      BY <1>2, EndTurnView, LinkView
    <2>2. QED BY <2>1, KeyTame DEF TameKey, SameTurns, Alone
  <1>3. ASSUME NEW w \in Workers, Conclude(w)
        PROVE  KeyInv'
    <2>1. /\ worker'[w] = Resting \/ worker'[w].at = "deliver"
          /\ Alone(w) /\ UNCHANGED << turns, source >>
      BY <1>3, ConcludeView
    <2>2. worker'[w].at \in {"idle", "deliver"}
      BY <2>1, RestingZero
    <2>3. QED BY <2>1, <2>2, KeyTame DEF TameKey, SameTurns, Alone
  <1>4. ASSUME NEW w \in Workers, SendSegment(w) \/ CountSegment(w)
        PROVE  KeyInv'
    <2>1. /\ worker'[w].at \in {"sent", "deliver"} /\ Alone(w)
          /\ SameTurns /\ source' = source
      <3>1. CASE SendSegment(w)
        BY <3>1, SendSegmentView
      <3>2. CASE CountSegment(w)
        BY <3>2, CountSegmentView DEF SameTurns
      <3>3. QED BY <1>4, <3>1, <3>2
    <2>2. QED BY <2>1, KeyTame DEF TameKey, Alone
  <1>5. ASSUME NEW w \in Workers, NEW fatal \in BOOLEAN, NEW posted \in BOOLEAN,
               SendFails(w, fatal, posted), turns' # turns
        PROVE  KeyInv'
    <2>1. worker'[w] = Resting /\ Alone(w) /\ SameTurns /\ source' = source
      BY <1>5, SendFailsView
    <2>2. worker'[w].at = "idle"
      BY <2>1, RestingZero
    <2>3. QED BY <2>1, <2>2, KeyTame DEF TameKey, Alone
  <1>6. ASSUME NEW e \in Events, SweepDelivers(e), ~(worker' = worker)
        PROVE  KeyInv'
    <2>1. worker'["sweep"].at = "deliver" /\ Alone("sweep") /\ UNCHANGED << turns, source >>
      BY <1>6, SweepDeliversView
    <2>2. QED BY <2>1, KeyTame DEF TameKey, SameTurns, Alone
  <1>7. CASE Crash
    <2>1. SameTurns /\ source' = source /\ \A w \in Workers : worker'[w].at = "idle"
      BY <1>7, CrashView
    <2>2. QED BY <2>1, KeyTame DEF TameKey
  <1>8. QED
    BY <1>1, <1>2, <1>3, <1>4, <1>5, <1>6, <1>7, Steps, KeyDeduplicate, KeyStartTurn,
       KeyStartCommand, KeyPersistReply, KeyAnswerCommand DEF Opens, Closes

-----------------------------------------------------------------------------
(* LinkInv and UserInv.                                                    *)

\* The events the workers are on do not wait for the sweep.
LEMMA OffTheList ==
    ASSUME TypeInv, PhaseInv, NEW w \in Workers, worker[w].at # "idle"
    PROVE  worker[w].ev \notin batch.deliv
  <1>1. CASE w = "live"
    <2>1. row[worker[w].ev].proc = "pending" \/ row[worker[w].ev].deliv = "pending"
      BY <1>1 DEF PhaseInv, LiveInv, TypeInv, WorkerRec
    <2>2. worker[w].ev \in Events
      BY <1>1 DEF PhaseInv, LiveInv
    <2>3. QED BY <2>1, <2>2 DEF PhaseInv, RowInv
  <1>2. CASE w = "sweep"
    BY <1>2 DEF PhaseInv, SweepInv
  <1>3. QED BY <1>1, <1>2 DEF Workers

LEMMA ApartEvents ==
    ASSUME PhaseInv, NEW w \in Workers, NEW x \in Workers, w # x,
           worker[w].at # "idle", worker[x].at # "idle"
    PROVE  worker[w].ev # worker[x].ev
  BY DEF PhaseInv, ApartInv, Workers

\* The ids on record name turns.
LEMMA Ids ==
    ASSUME TypeInv, BoundInv
    PROVE  /\ \A e \in Events : /\ row[e].message # None => row[e].message \in Rows
                                /\ row[e].reply # None => row[e].reply \in Rows
                                /\ TurnOf(e) # None => TurnOf(e) \in Rows
                                /\ row[e].segs \in Nat
           /\ \A w \in Workers : /\ worker[w].user # None => worker[w].user \in Rows
                                 /\ worker[w].reply # None => worker[w].reply \in Rows
                                 /\ Replying(worker[w]) # None => Replying(worker[w]) \in Rows
                                 /\ worker[w].seg \in Nat
           /\ None \notin Rows
  <1>1. Len(turns) \in Nat
    BY DEF TypeInv
  <1>2. ASSUME NEW e \in Events
        PROVE  /\ row[e].message \in Nat /\ row[e].reply \in Nat /\ row[e].segs \in 0..Segments
               /\ row[e].message <= Len(turns) /\ row[e].reply <= Len(turns)
    BY RowFields DEF TypeInv, RowTable, BoundInv
  <1>3. ASSUME NEW w \in Workers
        PROVE  /\ worker[w].user \in Nat /\ worker[w].reply \in Nat /\ worker[w].seg \in 0..Segments
               /\ worker[w].user <= Len(turns) /\ worker[w].reply <= Len(turns)
    BY WorkerFields DEF TypeInv, BoundInv
  <1>4. \A e \in Events : /\ row[e].message # None => row[e].message \in Rows
                          /\ row[e].reply # None => row[e].reply \in Rows
                          /\ row[e].segs \in Nat
    BY <1>1, <1>2, ChannelConstants DEF Rows, None
  <1>5. \A w \in Workers : /\ worker[w].user # None => worker[w].user \in Rows
                           /\ worker[w].reply # None => worker[w].reply \in Rows
                           /\ worker[w].seg \in Nat
    BY <1>1, <1>3, ChannelConstants DEF Rows, None
  <1>6. QED
    BY <1>4, <1>5 DEF TurnOf, Replying, Rows, None

\* What a step leaves of turn i.
Kept(i) == /\ turns'[i].msg = turns[i].msg /\ turns'[i].keyed = turns[i].keyed
           /\ turns'[i].replied = turns[i].replied

RowTurnsKept(e) == /\ row[e].message # None => Kept(row[e].message)
                   /\ row[e].reply # None => Kept(row[e].reply)

WorkerTurnsKept(x) == /\ worker[x].user # None => Kept(worker[x].user)
                      /\ worker[x].reply # None => Kept(worker[x].reply)

LEMMA AllKept ==
    ASSUME TypeInv, BoundInv, \A i \in Rows : Kept(i)
    PROVE  /\ \A e \in Events : RowTurnsKept(e)
           /\ \A x \in Workers : WorkerTurnsKept(x)
  BY Ids DEF RowTurnsKept, WorkerTurnsKept

LEMMA TurnOfKept ==
    ASSUME NEW e \in Events, RowTurnsKept(e),
           row'[e].message = row[e].message /\ row'[e].reply = row[e].reply
    PROVE  TurnOf(e)' = TurnOf(e)
  BY DEF TurnOf, RowTurnsKept, Kept

LEMMA ReplyingKept ==
    ASSUME NEW x \in Workers, WorkerTurnsKept(x),
           worker'[x].user = worker[x].user /\ worker'[x].reply = worker[x].reply
    PROVE  Replying(worker[x])' = Replying(worker[x])
  BY DEF Replying, WorkerTurnsKept, Kept

LEMMA LinksKept ==
    ASSUME NEW e \in Events, Links(e), RowTurnsKept(e), Tells(e), source' = source,
           e \in batch'.deliv => \/ e \in batch.deliv /\ batch'.segs[e] = batch.segs[e]
                                 \/ batch'.segs[e] = row[e].segs
    PROVE  Links(e)'
  <1>1. TurnOf(e)' = TurnOf(e)
    BY TurnOfKept DEF Tells
  <1>2. QED
    BY <1>1 DEF Links, RowTurnsKept, Kept, Tells

\* A step of someone else, seen from worker x.
LEMMA KnowsKept ==
    ASSUME NEW x \in Workers, Knows(x), worker'[x] = worker[x], WorkerTurnsKept(x),
           source' = source,
           worker[x].at \in {"marking", "deliver", "sent"} =>
              RowTurnsKept(worker[x].ev) /\ Tells(worker[x].ev) /\ worker[x].ev \in Events,
           worker[x].at \in Underway => Private(x)'
    PROVE  Knows(x)'
  <1>1. Replying(worker[x])' = Replying(worker[x])
    BY ReplyingKept
  <1>2. worker[x].at \in {"marking", "deliver", "sent"} =>
           TurnOf(worker[x].ev)' = TurnOf(worker[x].ev)
    <2>1. ASSUME NEW e \in Events, RowTurnsKept(e), Tells(e), e = worker'[x].ev
          PROVE  TurnOf(worker[x].ev)' = TurnOf(e)
      BY <2>1, TurnOfKept DEF TurnOf, Tells
    <2>2. QED BY <2>1
  <1>3. worker[x].user # None => Kept(worker[x].user)
    BY DEF WorkerTurnsKept
  <1>4. QED
    BY <1>1, <1>2, <1>3 DEF Knows, Kept, Tells, Underway

\* A turn in progress stays private when what the others name, they named before.
LEMMA PrivateKept ==
    ASSUME NEW x \in Workers, Private(x), worker'[x] = worker[x], worker[x].user # None,
           \A e \in Events : \A i \in {row'[e].message, row'[e].reply} :
              \/ i = None
              \/ \E d \in Events : i \in {row[d].message, row[d].reply}
              \/ \E y \in Workers \ {x} : i \in {worker[y].user, worker[y].reply},
           \A z \in Workers \ {x} : \A i \in {worker'[z].user, worker'[z].reply} :
              \/ i = None
              \/ \E d \in Events : i \in {row[d].message, row[d].reply}
              \/ \E y \in Workers \ {x} : i \in {worker[y].user, worker[y].reply}
    PROVE  Private(x)'
  BY DEF Private

\* A step by which worker w writes, at most, what it knows into its own row.
LEMMA OthersKnow ==
    ASSUME TypeInv, BoundInv, PhaseInv, LinkInv, UserInv, NEW w \in Workers,
           worker[w].at # "idle", Alone(w), UNCHANGED << source, batch >>,
           \A i \in Rows : Kept(i),
           \A d \in Events : d # worker[w].ev => row'[d] = row[d],
           row'[worker[w].ev].message \in {row[worker[w].ev].message, worker[w].user},
           row'[worker[w].ev].reply \in {row[worker[w].ev].reply, worker[w].reply},
           worker'[w].user \in {None, worker[w].user},
           worker'[w].reply \in {None, worker[w].reply}
    PROVE  /\ \A x \in Workers \ {w} : Knows(x)'
           /\ \A d \in Events : d # worker[w].ev => Links(d)'
           /\ worker[w].ev \in Events /\ worker[w].ev \notin batch'.deliv
  <1>1. worker[w].ev \in Events /\ worker[w].ev \notin batch.deliv
    BY Busy, OffTheList
  <1>2. ASSUME NEW x \in Workers, x # w
        PROVE  Knows(x)'
    <2>1. worker'[x] = worker[x] /\ WorkerTurnsKept(x) /\ Knows(x)
      BY <1>2, AllKept DEF Alone, UserInv
    <2>2. ASSUME worker[x].at \in {"marking", "deliver", "sent"}
          PROVE  RowTurnsKept(worker[x].ev) /\ Tells(worker[x].ev) /\ worker[x].ev \in Events
      <3>1. worker[x].ev \in Events /\ worker[x].ev # worker[w].ev
        BY <1>2, <2>2, Busy, ApartEvents
      <3>2. QED BY <3>1, AllKept DEF Tells
    <2>3. ASSUME worker[x].at \in Underway
          PROVE  Private(x)'
      <3>1. Private(x) /\ worker[x].user # None
        BY <2>1, <2>3 DEF Knows
      <3>2. \A e \in Events : \A i \in {row'[e].message, row'[e].reply} :
               \/ \E d \in Events : i \in {row[d].message, row[d].reply}
               \/ i \in {worker[w].user, worker[w].reply}
        <4> TAKE e \in Events
        <4>1. CASE e # worker[w].ev
          BY <4>1
        <4>2. CASE e = worker[w].ev
          BY <4>2
        <4>3. QED BY <4>1, <4>2
      <3>3. \A z \in Workers \ {x} : z = w
        BY <1>2 DEF Workers
      <3>4. QED BY <1>2, <2>1, <3>1, <3>2, <3>3, PrivateKept
    <2>4. QED BY <2>1, <2>2, <2>3, KnowsKept
  <1>3. ASSUME NEW d \in Events, d # worker[w].ev
        PROVE  Links(d)'
    BY <1>3, AllKept, LinksKept DEF LinkInv, Tells
  <1>4. QED BY <1>1, <1>2, <1>3

LEMMA SameTurnsKept ==
    ASSUME SameTurns
    PROVE  \A i \in Rows : Kept(i)
  BY DEF SameTurns, Kept

LEMMA UserQuiet ==
    ASSUME TypeInv, BoundInv, PhaseInv, LinkInv, UserInv, Quiet
    PROVE  LinkInv' /\ UserInv'
  <1>1. \A i \in Rows : Kept(i)
    BY DEF Quiet, Kept
  <1>2. /\ \A e \in Events : RowTurnsKept(e)
        /\ \A x \in Workers : WorkerTurnsKept(x)
    BY <1>1, AllKept
  <1>3. \A e \in Events : Links(e)'
    BY <1>2, LinksKept DEF Quiet, LinkInv
  <1>4. ASSUME NEW x \in Workers
        PROVE  Knows(x)'
    <2>1. CASE worker'[x] = worker[x]
      <3>1. ASSUME worker[x].at \in {"marking", "deliver", "sent"}
            PROVE  RowTurnsKept(worker[x].ev) /\ Tells(worker[x].ev) /\ worker[x].ev \in Events
        BY <1>2, <3>1, Busy DEF Quiet
      <3>2. ASSUME worker[x].at \in Underway
            PROVE  Private(x)'
        <4>1. Private(x) /\ worker[x].user # None
          BY <3>2 DEF UserInv, Knows
        <4>2. \A z \in Workers : \A i \in {worker'[z].user, worker'[z].reply} :
                 i = None \/ i \in {worker[z].user, worker[z].reply}
          BY DEF Quiet, Unengaged
        <4>3. QED BY <2>1, <4>1, <4>2, PrivateKept DEF Quiet, Tells
      <3>3. QED BY <1>2, <2>1, <3>1, <3>2, KnowsKept DEF UserInv, Quiet
    <2>2. CASE Unengaged(worker'[x])
      BY <2>2 DEF Unengaged, Knows, Underway
    <2>3. QED BY <2>1, <2>2 DEF Quiet
  <1>5. QED BY <1>3, <1>4 DEF LinkInv, UserInv

LEMMA UserDeduplicate ==
    ASSUME TypeInv, BoundInv, PhaseInv, LinkInv, UserInv, NEW w \in Workers, Deduplicate(w)
    PROVE  LinkInv' /\ UserInv'
  <1>1. /\ worker[w].at = "start" /\ \A x \in Workers : worker[x].at # "turn"
        /\ worker'[w].ev = worker[w].ev /\ worker'[w].reply = worker[w].reply
        /\ Alone(w) /\ UNCHANGED << row, turns, source, batch >>
    BY DeduplicateView
  <1>2. PICK id \in KeyedRow(source[worker[w].ev]) :
           \/ worker'[w].at = "start" /\ worker'[w].user = worker[w].user
           \/ worker'[w].at = "returned" /\ worker'[w].user = id
    BY DeduplicateView
  <1>3. id # None /\ turns[id].msg = source[worker[w].ev] /\ turns[id].keyed
    BY DEF KeyedRow, Rows, None
  <1>4. worker[w].user = None /\ worker[w].reply = None
    BY <1>1 DEF UserInv, Knows
  <1>5. Knows(w)'
    BY <1>1, <1>2, <1>3, <1>4 DEF Knows, Underway
  <1>6. /\ \A e \in Events : RowTurnsKept(e) /\ Tells(e)
        /\ \A x \in Workers : WorkerTurnsKept(x)
    BY <1>1, AllKept DEF Kept, Tells
  <1>7. ASSUME NEW x \in Workers, x # w
        PROVE  Knows(x)'
    <2>1. worker'[x] = worker[x] /\ Knows(x)
      BY <1>1, <1>7 DEF Alone, UserInv
    <2>2. worker[x].at \in {"marking", "deliver", "sent"} => worker[x].ev \in Events
      BY Busy
    <2>3. ASSUME worker[x].at \in Underway
          PROVE  Private(x)'
      <3>1. Private(x) /\ worker[x].user # None /\ ~turns[worker[x].user].keyed
        BY <1>1, <2>1, <2>3 DEF Knows, Underway
      <3>2. \A z \in Workers \ {x} : z = w
        BY <1>7 DEF Workers
      <3>3. /\ worker'[w].user \in {None, id} /\ worker'[w].reply = None
            /\ worker[x].user # id
        BY <1>1, <1>2, <1>3, <1>4, <3>1
      <3>4. QED BY <1>1, <2>1, <3>1, <3>2, <3>3 DEF Private
    <2>4. QED BY <1>1, <1>6, <2>1, <2>2, <2>3, KnowsKept
  <1>8. \A e \in Events : Links(e)'
    BY <1>1, <1>6, LinksKept DEF LinkInv
  <1>9. QED BY <1>5, <1>7, <1>8 DEF LinkInv, UserInv

LEMMA UserOpens ==
    ASSUME TypeInv, BoundInv, PhaseInv, LinkInv, UserInv, NEW w \in Workers, Opens(w)
    PROVE  LinkInv' /\ UserInv'
  <1> DEFINE n == Len(turns) + 1
  <1>1. /\ worker[w].at = "start"
        /\ worker'[w].at \in Underway /\ worker'[w].user = n
        /\ worker'[w].reply = worker[w].reply /\ worker'[w].ev = worker[w].ev
        /\ \A i \in Rows : turns'[i] = turns[i]
        /\ turns'[n].msg = source[worker[w].ev] /\ turns'[n].replied = FALSE
        /\ worker'[w].at = "command" => turns'[n].keyed = FALSE
        /\ Alone(w) /\ UNCHANGED << row, source, batch >>
    BY OpenView
  <1>2. n # None /\ n \notin Rows
    <2>1. Len(turns) \in Nat
      BY DEF TypeInv
    <2>2. QED BY <2>1 DEF Rows, None
  <1> HIDE DEF n
  <1>3. worker[w].user = None /\ worker[w].reply = None
    BY <1>1 DEF UserInv, Knows
  <1>4. \A e \in Events : row[e].message # n /\ row[e].reply # n
    BY <1>2, Ids
  <1>5. \A x \in Workers : worker[x].user # n /\ worker[x].reply # n
    BY <1>2, Ids
  <1>6. Private(w)'
    BY <1>1, <1>4, <1>5 DEF Private, Alone
  <1>7. Knows(w)'
    BY <1>1, <1>2, <1>3, <1>6 DEF Knows, Underway
  <1>8. /\ \A e \in Events : RowTurnsKept(e) /\ Tells(e)
        /\ \A x \in Workers : WorkerTurnsKept(x)
    BY <1>1, AllKept DEF Kept, Tells
  <1>9. ASSUME NEW x \in Workers, x # w
        PROVE  Knows(x)'
    <2>1. worker'[x] = worker[x] /\ Knows(x)
      BY <1>1, <1>9 DEF Alone, UserInv
    <2>2. worker[x].at \in {"marking", "deliver", "sent"} => worker[x].ev \in Events
      BY Busy
    <2>3. ASSUME worker[x].at \in Underway
          PROVE  Private(x)'
      <3>1. Private(x) /\ worker[x].user # None /\ worker[x].user # n
        BY <1>5, <2>1, <2>3 DEF Knows
      <3>2. \A z \in Workers \ {x} : z = w
        BY <1>9 DEF Workers
      <3>3. QED BY <1>1, <1>3, <2>1, <3>1, <3>2 DEF Private
    <2>4. QED BY <1>1, <1>8, <2>1, <2>2, <2>3, KnowsKept
  <1>10. \A e \in Events : Links(e)'
    BY <1>1, <1>8, LinksKept DEF LinkInv
  <1>11. QED BY <1>7, <1>9, <1>10 DEF LinkInv, UserInv

LEMMA UserCloses ==
    ASSUME TypeInv, BoundInv, PhaseInv, LinkInv, UserInv, NEW w \in Workers, Closes(w)
    PROVE  LinkInv' /\ UserInv'
  <1> DEFINE u == worker[w].user
  <1>1. /\ worker[w].at \in Underway /\ worker'[w].at \in {"replied", "returned"}
        /\ worker'[w].reply = u /\ worker'[w].user = u /\ worker'[w].ev = worker[w].ev
        /\ Alone(w) /\ UNCHANGED << row, source, batch >>
    BY CloseView
  <1>2. \A i \in Rows : /\ turns'[i].msg = turns[i].msg /\ turns'[i].keyed = turns[i].keyed
                        /\ turns'[i].replied = IF i = u THEN TRUE ELSE turns[i].replied
    BY CloseView
  <1>3. u # None /\ turns[u].msg = source[worker[w].ev] /\ Private(w)
    BY <1>1 DEF UserInv, Knows
  <1>4. u \in Rows
    BY <1>3, Ids
  <1>5. \A i \in Rows : i # u => Kept(i)
    BY <1>2 DEF Kept
  <1> HIDE DEF u
  <1>6. \A e \in Events : row[e].message # u /\ row[e].reply # u
    BY <1>3 DEF Private, u
  <1>7. \A x \in Workers : x # w => worker[x].user # u /\ worker[x].reply # u
    BY <1>3 DEF Private, u
  <1>8. \A e \in Events : RowTurnsKept(e) /\ Tells(e)
    BY <1>1, <1>5, <1>6, Ids DEF RowTurnsKept, Tells
  <1>9. Knows(w)'
    BY <1>1, <1>2, <1>3, <1>4 DEF Knows, Underway
  <1>10. ASSUME NEW x \in Workers, x # w
        PROVE  Knows(x)'
    <2>1. worker'[x] = worker[x] /\ Knows(x) /\ WorkerTurnsKept(x)
      BY <1>1, <1>5, <1>7, <1>10, Ids DEF Alone, UserInv, WorkerTurnsKept
    <2>2. worker[x].at \in {"marking", "deliver", "sent"} => worker[x].ev \in Events
      BY Busy
    <2>3. ASSUME worker[x].at \in Underway
          PROVE  Private(x)'
      <3>1. Private(x) /\ worker[x].user # u
        BY <1>7, <1>10, <2>1, <2>3 DEF Knows
      <3>2. \A z \in Workers \ {x} : z = w
        BY <1>10 DEF Workers
      <3>3. QED BY <1>1, <2>1, <3>1, <3>2 DEF Private
    <2>4. QED BY <1>1, <1>8, <2>1, <2>2, <2>3, KnowsKept
  <1>11. \A e \in Events : Links(e)'
    BY <1>1, <1>8, LinksKept DEF LinkInv
  <1>12. QED BY <1>9, <1>10, <1>11 DEF LinkInv, UserInv

LEMMA UserEndTurn ==
    ASSUME TypeInv, BoundInv, PhaseInv, LinkInv, UserInv, NEW w \in Workers, EndTurn(w)
    PROVE  LinkInv' /\ UserInv'
  <1>1. /\ worker[w].at \in {"turn", "replied"} /\ worker'[w].at = "returned"
        /\ worker'[w].reply = worker[w].reply /\ worker'[w].user = worker[w].user
        /\ worker'[w].ev = worker[w].ev
        /\ Alone(w) /\ UNCHANGED << row, turns, source, batch >>
    BY EndTurnView
  <1>2. Knows(w)'
    BY <1>1 DEF UserInv, Knows, Underway
  <1>3. \A i \in Rows : Kept(i)
    BY <1>1 DEF Kept
  <1>4. /\ \A x \in Workers \ {w} : Knows(x)'
        /\ \A d \in Events : d # worker[w].ev => Links(d)'
        /\ worker[w].ev \in Events
    BY <1>1, <1>3, OthersKnow
  <1>6. \A e \in Events : Links(e)'
    BY <1>1, <1>3, AllKept, LinksKept DEF LinkInv, Tells
  <1>7. QED BY <1>2, <1>4, <1>6 DEF LinkInv, UserInv

LEMMA UserLink ==
    ASSUME TypeInv, BoundInv, PhaseInv, LinkInv, UserInv, NEW w \in Workers, Link(w)
    PROVE  LinkInv' /\ UserInv'
  <1>0. PICK e \in Events : e = worker[w].ev
    BY Busy DEF Link
  <1>1. /\ worker[w].at = "returned" /\ e \in Events
        /\ worker'[w].at = "marking" /\ worker'[w].reply = worker[w].reply
        /\ worker'[w].user = worker[w].user /\ worker'[w].ev = e
        /\ \A d \in Events : d # e => row'[d] = row[d]
        /\ row'[e].message = worker[w].user /\ row'[e].segs = row[e].segs
        /\ row'[e].reply = IF w = "live" /\ worker[w].reply # None THEN worker[w].reply
                                                              ELSE row[e].reply
        /\ Alone(w) /\ UNCHANGED << turns, source, batch >>
    BY <1>0, LinkView
  <1>2. \A i \in Rows : Kept(i)
    BY <1>1 DEF Kept
  <1>3. row[e].segs = 0
    <2>1. row[e].proc # "processed"
      BY <1>0, <1>1, Busy DEF Pre
    <2>2. QED BY <1>1, <2>1 DEF PhaseInv, RowInv
  <1>4. /\ \A x \in Workers \ {w} : Knows(x)'
        /\ \A d \in Events : d # e => Links(d)'
        /\ e \notin batch'.deliv
    BY <1>0, <1>1, <1>2, OthersKnow
  <1>5. /\ worker[w].user # None /\ turns[worker[w].user].msg = source[e]
        /\ worker[w].reply \in {None, worker[w].user}
        /\ worker[w].reply # None => turns[worker[w].user].replied
        /\ worker[w].reply = None /\ turns[worker[w].user].replied =>
              turns[worker[w].user].keyed
    BY <1>0, <1>1 DEF UserInv, Knows
  <1>6. Knows(w)'
    BY <1>1, <1>3, <1>5 DEF Knows, Underway
  <1>7. Links(e)'
    BY <1>1, <1>3, <1>4, <1>5 DEF Links, LinkInv
  <1>8. \A d \in Events : Links(d)'
    BY <1>4, <1>7
  <1>9. QED BY <1>4, <1>6, <1>8 DEF LinkInv, UserInv

LEMMA UserConclude ==
    ASSUME TypeInv, BoundInv, PhaseInv, KeyInv, LinkInv, UserInv,
           NEW w \in Workers, Conclude(w)
    PROVE  LinkInv' /\ UserInv'
  <1> DEFINE u == worker[w].user
             r == worker[w].reply
  <1>0. PICK e \in Events : e = worker[w].ev
    BY Busy DEF Conclude
  <1>1. /\ worker[w].at = "marking" /\ e \in Events
        /\ \A d \in Events : d # e => row'[d] = row[d]
        /\ row'[e].message = row[e].message
        /\ row'[e].reply = IF w = "sweep" /\ r # None THEN r ELSE row[e].reply
        /\ Alone(w) /\ UNCHANGED << turns, source, batch >>
    BY <1>0, ConcludeView
  <1>2. \/ row'[e].segs = row[e].segs /\ worker'[w] = Resting
        \/ /\ row'[e].segs = 0
           /\ worker'[w].at = "deliver" /\ worker'[w].seg = 0
           /\ worker'[w].reply = r /\ worker'[w].user = u /\ worker'[w].ev = e
    BY <1>0, ConcludeView
  <1>3. \A i \in Rows : Kept(i)
    BY <1>1 DEF Kept
  <1>4. /\ \A x \in Workers \ {w} : Knows(x)'
        /\ \A d \in Events : d # e => Links(d)'
        /\ e \notin batch'.deliv
    <2>1. /\ worker'[w].user \in {None, u} /\ worker'[w].reply \in {None, r}
      BY <1>2, RestingZero DEF None
    <2>2. QED BY <1>0, <1>1, <1>3, <2>1, OthersKnow
  <1>5. /\ u # None /\ turns[u].msg = source[e] /\ r \in {None, u}
        /\ r # None => turns[u].replied
        /\ r = None /\ turns[u].replied => turns[u].keyed
        /\ row[e].message = u /\ row[e].segs = 0
        /\ w = "live" /\ r # None => row[e].reply = r
    BY <1>0, <1>1 DEF UserInv, Knows
  <1>6. u \in Rows /\ (row[e].reply # None => row[e].reply \in Rows)
    BY <1>1, <1>5, Ids
  <1>7. r = None /\ turns[u].replied /\ row[e].reply # None => row[e].reply = u
    <2>1. ASSUME r = None, turns[u].replied, row[e].reply # None, row[e].reply # u
          PROVE  FALSE
      <3>1. turns[u].keyed /\ turns[row[e].reply].msg = turns[u].msg
        BY <1>1, <1>5, <2>1 DEF LinkInv, Links
      <3>2. Barren(u)
        BY <1>6, <2>1, <3>1 DEF KeyInv
      <3>3. QED BY <2>1, <3>2 DEF Barren
    <2>2. QED BY <2>1
  <1>8. w = "live" \/ w = "sweep"
    BY DEF Workers
  <1> HIDE DEF u, r
  <1>9. Links(e)'
    <2>1. row'[e].segs = 0
      BY <1>2, <1>5
    <2>2. /\ row'[e].message # None => turns'[row'[e].message].msg = source'[e]
          /\ row'[e].reply # None => /\ turns'[row'[e].reply].msg = source'[e]
                                     /\ turns'[row'[e].reply].replied
      BY <1>1, <1>5 DEF LinkInv, Links
    <2>3. QED BY <1>4, <2>1, <2>2 DEF Links
  <1>10. Knows(w)'
    <2>1. CASE worker'[w] = Resting
      BY <2>1, RestingZero DEF Knows, Underway
    <2>2. CASE /\ row'[e].segs = 0
               /\ worker'[w].at = "deliver" /\ worker'[w].seg = 0
               /\ worker'[w].reply = r /\ worker'[w].user = u /\ worker'[w].ev = e
      <3>1. Replying(worker[w])' = IF r # None THEN r ELSE IF turns[u].replied THEN u ELSE None
        BY <1>1, <1>5, <2>2 DEF Replying
      <3>2. TurnOf(e)' = IF row'[e].reply # None THEN row'[e].reply
                         ELSE IF turns[u].replied THEN u ELSE None
        BY <1>1, <1>5 DEF TurnOf
      <3>3. Replying(worker[w])' # None => Replying(worker[w])' = TurnOf(e)'
        BY <1>1, <1>5, <1>7, <1>8, <3>1, <3>2
      <3>4. TurnOf(worker[w].ev)' = TurnOf(e)'
        BY <1>0, <2>2 DEF TurnOf
      <3>5. QED BY <1>1, <1>5, <2>2, <3>3, <3>4 DEF Knows, Underway
    <2>3. QED BY <1>2, <2>1, <2>2
  <1>11. \A d \in Events : Links(d)'
    BY <1>4, <1>9
  <1>12. QED BY <1>4, <1>10, <1>11 DEF LinkInv, UserInv

LEMMA UserSendSegment ==
    ASSUME TypeInv, BoundInv, PhaseInv, LinkInv, UserInv, NEW w \in Workers, SendSegment(w)
    PROVE  LinkInv' /\ UserInv'
  <1>0. PICK e \in Events : e = worker[w].ev
    BY Busy DEF SendSegment, ToSend
  <1>1. /\ worker[w].at = "deliver" /\ e \in Events /\ Replying(worker[w]) \in Rows
        /\ worker'[w].at = "sent" /\ worker'[w].reply = worker[w].reply
        /\ worker'[w].user = worker[w].user /\ worker'[w].ev = e
        /\ worker'[w].seg = worker[w].seg /\ SameTurns
        /\ Alone(w) /\ UNCHANGED << row, source, batch >>
    BY <1>0, SendSegmentView
  <1>2. \A i \in Rows : Kept(i)
    BY <1>1, SameTurnsKept
  <1>3. /\ \A d \in Events : RowTurnsKept(d) /\ Tells(d)
        /\ WorkerTurnsKept(w)
    BY <1>1, <1>2, AllKept DEF Tells
  <1>4. \A x \in Workers \ {w} : Knows(x)'
    BY <1>0, <1>1, <1>2, OthersKnow
  <1>5. \A d \in Events : Links(d)'
    BY <1>1, <1>3, LinksKept DEF LinkInv
  <1>6. /\ worker[w].user = row[e].message /\ worker[w].seg = row[e].segs
        /\ Replying(worker[w]) = TurnOf(e) /\ Replying(worker[w]) # None
    BY <1>0, <1>1, Ids DEF UserInv, Knows
  <1>7. Replying(worker[w])' = TurnOf(e) /\ TurnOf(e)' = TurnOf(e)
    BY <1>1, <1>3, <1>6, ReplyingKept, TurnOfKept
  <1>8. TurnOf(worker[w].ev)' = TurnOf(e)'
    BY <1>1 DEF TurnOf
  <1>9. Knows(w)'
    BY <1>1, <1>6, <1>7, <1>8 DEF Knows, Underway
  <1>10. QED BY <1>4, <1>5, <1>9 DEF LinkInv, UserInv

LEMMA UserCountSegment ==
    ASSUME TypeInv, BoundInv, PhaseInv, LinkInv, UserInv, NEW w \in Workers, CountSegment(w)
    PROVE  LinkInv' /\ UserInv'
  <1>0. PICK e \in Events : e = worker[w].ev
    BY Busy DEF CountSegment
  <1>1. /\ worker[w].at = "sent" /\ e \in Events
        /\ worker'[w].at = "deliver" /\ worker'[w].reply = worker[w].reply
        /\ worker'[w].user = worker[w].user /\ worker'[w].ev = e
        /\ worker'[w].seg = worker[w].seg + 1
        /\ \A d \in Events : d # e => row'[d] = row[d]
        /\ row'[e].message = row[e].message /\ row'[e].reply = row[e].reply
        /\ row'[e].segs = worker[w].seg + 1
        /\ Alone(w) /\ UNCHANGED << turns, source, batch >>
    BY <1>0, CountSegmentView
  <1>2. \A i \in Rows : Kept(i)
    BY <1>1 DEF Kept
  <1>3. RowTurnsKept(e) /\ WorkerTurnsKept(w)
    BY <1>1, <1>2, AllKept
  <1>4. /\ \A x \in Workers \ {w} : Knows(x)'
        /\ \A d \in Events : d # e => Links(d)'
        /\ e \notin batch'.deliv
    BY <1>0, <1>1, <1>2, OthersKnow
  <1>5. /\ worker[w].user = row[e].message
        /\ Replying(worker[w]) = TurnOf(e) /\ Replying(worker[w]) # None
    BY <1>0, <1>1 DEF UserInv, Knows
  <1>6. Replying(worker[w])' = TurnOf(e) /\ TurnOf(e)' = TurnOf(e)
    BY <1>1, <1>3, <1>5, ReplyingKept, TurnOfKept
  <1>7. TurnOf(worker[w].ev)' = TurnOf(e)'
    BY <1>1 DEF TurnOf
  <1>8. Knows(w)'
    BY <1>1, <1>5, <1>6, <1>7 DEF Knows, Underway
  <1>9. Links(e)'
    BY <1>1, <1>4, <1>5, <1>6 DEF LinkInv, Links
  <1>10. \A d \in Events : Links(d)'
    BY <1>4, <1>9
  <1>11. QED BY <1>4, <1>8, <1>10 DEF LinkInv, UserInv

LEMMA UserSendFails ==
    ASSUME TypeInv, BoundInv, PhaseInv, LinkInv, UserInv, NEW w \in Workers,
           NEW fatal \in BOOLEAN, NEW posted \in BOOLEAN, SendFails(w, fatal, posted),
           turns' # turns
    PROVE  LinkInv' /\ UserInv'
  <1>0. PICK e \in Events : e = worker[w].ev
    BY Busy DEF SendFails, ToSend
  <1>1. /\ worker[w].at = "deliver" /\ e \in Events /\ worker'[w] = Resting
        /\ \A d \in Events : d # e => row'[d] = row[d]
        /\ Tells(e) /\ SameTurns /\ Alone(w) /\ UNCHANGED << source, batch >>
    BY <1>0, SendFailsView
  <1>2. \A i \in Rows : Kept(i)
    BY <1>1, SameTurnsKept
  <1>3. \A x \in Workers \ {w} : Knows(x)'
    <2>1. worker'[w].user = None /\ worker'[w].reply = None
      BY <1>1, RestingZero DEF None
    <2>2. row'[e].message = row[e].message /\ row'[e].reply = row[e].reply
      BY <1>1 DEF Tells
    <2>3. QED BY <1>0, <1>1, <1>2, <2>1, <2>2, OthersKnow
  <1>4. \A d \in Events : Links(d)'
    <2> TAKE d \in Events
    <2>1. Tells(d)
      BY <1>1 DEF Tells
    <2>2. QED BY <1>1, <1>2, <2>1, AllKept, LinksKept DEF LinkInv
  <1>5. Knows(w)'
    BY <1>1, RestingZero DEF Knows, Underway
  <1>6. QED BY <1>3, <1>4, <1>5 DEF LinkInv, UserInv

LEMMA UserSweepDelivers ==
    ASSUME TypeInv, BoundInv, PhaseInv, LinkInv, UserInv, NEW e \in Events,
           SweepDelivers(e), ~(worker' = worker)
    PROVE  LinkInv' /\ UserInv'
  <1>1. /\ e \in batch.deliv /\ "sweep" \in Workers
        /\ worker'["sweep"].at = "deliver" /\ worker'["sweep"].ev = e
        /\ worker'["sweep"].user = row[e].message
        /\ worker'["sweep"].seg = batch.segs[e]
        /\ TurnOf(e) \in Rows /\ TurnOf(e) # None
        /\ worker'["sweep"].reply = TurnOf(e)
        /\ \A d \in Events : d # e => row'[d] = row[d]
        /\ row'[e].message = row[e].message /\ row'[e].reply = TurnOf(e)
        /\ row'[e].segs = row[e].segs
        /\ batch'.deliv \subseteq batch.deliv
        /\ \A d \in batch'.deliv : batch'.segs[d] = batch.segs[d]
        /\ Alone("sweep") /\ UNCHANGED << turns, source >>
    BY SweepDeliversView
  <1>2. \A i \in Rows : Kept(i)
    BY <1>1 DEF Kept
  <1>3. TurnOf(e)' = TurnOf(e)
    BY <1>1 DEF TurnOf
  <1>4. batch.segs[e] = row[e].segs
    BY <1>1 DEF LinkInv, Links
  <1>5. turns[TurnOf(e)].msg = source[e] /\ turns[TurnOf(e)].replied
    BY <1>1 DEF LinkInv, Links, TurnOf
  <1>6. Links(e)'
    BY <1>1, <1>3, <1>4, <1>5 DEF LinkInv, Links
  <1>7. ASSUME NEW d \in Events, d # e
        PROVE  Links(d)'
    BY <1>1, <1>2, <1>7, AllKept, LinksKept DEF LinkInv, Tells
  <1>8. Knows("sweep")'
    <2>1. Replying(worker["sweep"])' = TurnOf(e)
      BY <1>1 DEF Replying
    <2>2. TurnOf(worker["sweep"].ev)' = TurnOf(e)
      BY <1>1, <1>3 DEF TurnOf
    <2>3. QED BY <1>1, <1>4, <2>1, <2>2 DEF Knows, Underway
  <1>9. ASSUME NEW x \in Workers, x # "sweep"
        PROVE  Knows(x)'
    <2>1. worker'[x] = worker[x] /\ WorkerTurnsKept(x) /\ Knows(x)
      BY <1>1, <1>2, <1>9, AllKept DEF Alone, UserInv
    <2>2. ASSUME worker[x].at \in {"marking", "deliver", "sent"}
          PROVE  RowTurnsKept(worker[x].ev) /\ Tells(worker[x].ev) /\ worker[x].ev \in Events
      <3>1. worker[x].ev \in Events /\ worker[x].ev # e
        BY <1>1, <2>2, Busy, OffTheList
      <3>2. QED BY <1>1, <1>2, <3>1, AllKept DEF Tells
    <2>3. ASSUME worker[x].at \in Underway
          PROVE  Private(x)'
      <3>1. Private(x) /\ worker[x].user # None
        BY <2>1, <2>3 DEF Knows
      <3>2. TurnOf(e) \in {row[e].message, row[e].reply}
        BY <1>1 DEF TurnOf
      <3>3. \A d \in Events : \A i \in {row'[d].message, row'[d].reply} :
               \E c \in Events : i \in {row[c].message, row[c].reply}
        <4> TAKE d \in Events
        <4>1. CASE d = e
          BY <1>1, <3>2, <4>1
        <4>2. CASE d # e
          BY <1>1, <4>2
        <4>3. QED BY <4>1, <4>2
      <3>4. \A z \in Workers \ {x} : z = "sweep"
        BY <1>9 DEF Workers
      <3>5. \A i \in {worker'["sweep"].user, worker'["sweep"].reply} :
               i \in {row[e].message, row[e].reply}
        BY <1>1, <3>2
      <3>6. QED BY <2>1, <3>1, <3>3, <3>4, <3>5, PrivateKept
    <2>4. QED BY <1>1, <2>1, <2>2, <2>3, KnowsKept
  <1>10. \A d \in Events : Links(d)'
    BY <1>6, <1>7
  <1>11. QED BY <1>8, <1>9, <1>10 DEF LinkInv, UserInv

LEMMA UserCrash ==
    ASSUME TypeInv, BoundInv, PhaseInv, LinkInv, UserInv, Crash
    PROVE  LinkInv' /\ UserInv'
  <1>1. /\ \A e \in Events : Tells(e)
        /\ SameTurns /\ batch'.deliv = {} /\ source' = source
        /\ \A w \in Workers : worker'[w].at = "idle"
    BY CrashView
  <1>2. \A e \in Events : RowTurnsKept(e)
    BY <1>1, SameTurnsKept, AllKept
  <1>3. \A e \in Events : Links(e)'
    BY <1>1, <1>2, LinksKept DEF LinkInv
  <1>4. \A w \in Workers : Knows(w)'
    BY <1>1 DEF Knows, Underway
  <1>5. QED BY <1>3, <1>4 DEF LinkInv, UserInv

LEMMA UserStep ==
    ASSUME TypeInv, BoundInv, PhaseInv, KeyInv, LinkInv, UserInv, [Next]_vars
    PROVE  LinkInv' /\ UserInv'
  BY Steps, UserQuiet, UserDeduplicate, UserOpens, UserCloses, UserEndTurn, UserLink,
     UserConclude, UserSendSegment, UserCountSegment, UserSendFails, UserSweepDelivers, UserCrash

-----------------------------------------------------------------------------
(* PostInv.                                                                *)

\* Nothing is counted of an event's reply, and nothing was.
Blank(e) == /\ row[e].segs = 0 /\ row'[e].segs = 0
            /\ \A x \in Workers : worker[x].at = "sent" => worker[x].ev # e

\* Nothing is posted, and no record of a post is made or lost.
Steady ==
    /\ source' = source
    /\ Rows \subseteq Rows'
    /\ \A i \in Rows : /\ turns'[i].posted = turns[i].posted
                       /\ turns'[i].excused = turns[i].excused /\ turns'[i].msg = turns[i].msg
    /\ \A i \in Rows' : i \in Rows \/ \A s \in 1..Segments : /\ turns'[i].posted[s] = 0
                                                              /\ turns'[i].excused[s] = 0
    /\ \A e \in Events : \/ Blank(e)
                         \/ TurnOf(e)' = TurnOf(e) /\ row'[e].segs = row[e].segs
    /\ \A x \in Workers : worker[x].at = "sent" \/ worker'[x].at = "sent" =>
          worker'[x] = worker[x] /\ Replying(worker[x])' = Replying(worker[x])

\* The counters of the turns are numbers.
LEMMA Counters ==
    ASSUME TypeInv
    PROVE  \A i \in Rows, s \in 1..Segments : /\ turns[i].posted[s] \in Nat
                                              /\ turns[i].excused[s] \in Nat
  <1>1. \A i \in Rows : turns[i] \in TurnRec
    BY DEF TypeInv, Rows
  <1>2. QED BY <1>1 DEF TurnRec

LEMMA PostSteady ==
    ASSUME TypeInv, BoundInv, LinkInv, UserInv, PostInv, Steady
    PROVE  PostInv'
  <1>1. ASSUME NEW i \in Rows'
        PROVE  InOrder(i)'
    <2>1. CASE i \in Rows
      BY <2>1 DEF PostInv, InOrder, Steady
    <2>2. CASE i \notin Rows
      BY <2>2 DEF InOrder, Steady
    <2>3. QED BY <2>1, <2>2
  <1>2. ASSUME NEW e \in Events
        PROVE  CountedIsOut(e)'
    <2>1. CASE Blank(e)
      BY <2>1 DEF Blank, CountedIsOut
    <2>2. CASE TurnOf(e)' = TurnOf(e) /\ row'[e].segs = row[e].segs
      <3> SUFFICES ASSUME NEW s \in 1..Segments, s <= row[e].segs
                   PROVE  turns'[TurnOf(e)].posted[s] > 0
        BY <2>2 DEF CountedIsOut
      <3>1. row[e].segs > 0
        BY Ids
      <3>2. TurnOf(e) \in Rows
        BY <3>1, Ids DEF LinkInv, Links
      <3>3. QED BY <3>2 DEF Steady, PostInv, CountedIsOut
    <2>3. QED BY <2>1, <2>2 DEF Steady
  <1>3. ASSUME NEW w \in Workers
        PROVE  SentIsOut(w)'
    <2> SUFFICES ASSUME worker'[w].at = "sent"
                 PROVE  SentIsOut(w)'
      BY DEF SentIsOut
    <2>1. worker'[w] = worker[w] /\ Replying(worker[w])' = Replying(worker[w])
      BY DEF Steady
    <2>2. Replying(worker[w]) \in Rows
      BY <2>1, Ids DEF UserInv, Knows
    <2>3. QED BY <2>1, <2>2 DEF Steady, PostInv, SentIsOut
  <1>4. ASSUME NEW e \in Events
        PROVE  OnRecord(e)'
    <2> SUFFICES ASSUME Siblings(e)' = {e}, NEW i \in Rows', NEW s \in 1..Segments,
                        turns'[i].msg = source'[e]
                 PROVE  turns'[i].posted[s] <= turns'[i].excused[s]
                                                 + IF Credit(e, i, s)' THEN 1 ELSE 0
      BY DEF OnRecord
    <2>1. CASE i \notin Rows
      BY <2>1 DEF Steady
    <2>2. CASE i \in Rows
      <3>1. Siblings(e) = {e} /\ turns[i].msg = source[e]
        BY <2>2 DEF Siblings, Steady
      <3>2. turns[i].posted[s] <= turns[i].excused[s] + IF Credit(e, i, s) THEN 1 ELSE 0
        BY <2>2, <3>1 DEF PostInv, OnRecord
      <3>3. Credit(e, i, s) => Credit(e, i, s)'
        <4>1. CASE Blank(e)
          <5>1. ~(s <= row[e].segs)
            BY <4>1 DEF Blank
          <5>2. QED BY <4>1, <5>1 DEF Blank, Credit
        <4>2. CASE TurnOf(e)' = TurnOf(e) /\ row'[e].segs = row[e].segs
          BY <4>2 DEF Credit, Steady
        <4>3. QED BY <4>1, <4>2 DEF Steady
      <3>4. /\ turns'[i].posted[s] = turns[i].posted[s]
            /\ turns'[i].excused[s] = turns[i].excused[s]
        BY <2>2 DEF Steady
      <3>5. turns[i].posted[s] \in Nat /\ turns[i].excused[s] \in Nat
        BY <2>2, Counters
      <3>6. QED BY <3>2, <3>3, <3>4, <3>5
    <2>3. QED BY <2>1, <2>2
  <1>5. QED BY <1>1, <1>2, <1>3, <1>4 DEF PostInv

\* The steps that only touch the row of the event worker w is on.
LEMMA SteadyTurn ==
    ASSUME TypeInv, BoundInv, NEW w \in Workers, Alone(w), source' = source,
           worker[w].at # "sent", worker'[w].at # "sent",
           \A i \in Rows : Kept(i) /\ turns'[i].posted = turns[i].posted
                                   /\ turns'[i].excused = turns[i].excused,
           Len(turns') = Len(turns),
           \A e \in Events : \/ Blank(e)
                             \/ TurnOf(e)' = TurnOf(e) /\ row'[e].segs = row[e].segs
    PROVE  Steady
  <1>1. Rows' = Rows
    BY SameRows
  <1>2. \A x \in Workers : x # w => Replying(worker[x])' = Replying(worker[x])
    BY AllKept, ReplyingKept DEF Alone
  <1>3. QED
    BY <1>1, <1>2 DEF Steady, Alone, Kept

LEMMA QuietSteady ==
    ASSUME TypeInv, BoundInv, Quiet
    PROVE  Steady
  <1>1. \A i \in Rows : Kept(i)
    BY DEF Quiet, Kept
  <1>2. Rows' = Rows
    BY DEF Quiet, Rows
  <1>3. \A e \in Events : TurnOf(e)' = TurnOf(e) /\ row'[e].segs = row[e].segs
    BY <1>1, AllKept, TurnOfKept DEF Quiet, Tells
  <1>4. ASSUME NEW x \in Workers, worker[x].at = "sent" \/ worker'[x].at = "sent"
        PROVE  worker'[x] = worker[x] /\ Replying(worker[x])' = Replying(worker[x])
    <2>1. worker'[x] = worker[x]
      BY <1>4 DEF Quiet, Unengaged
    <2>2. QED BY <1>1, <2>1, AllKept, ReplyingKept
  <1>5. QED BY <1>2, <1>3, <1>4 DEF Steady, Quiet

LEMMA TurnSteady ==
    ASSUME TypeInv, BoundInv, PhaseInv, UserInv, NEW w \in Workers,
           \/ Deduplicate(w) \/ EndTurn(w)
    PROVE  Steady
  <1>1. /\ worker[w].at # "sent" /\ worker'[w].at # "sent"
        /\ Alone(w) /\ UNCHANGED << row, turns, source >>
    BY DeduplicateView, EndTurnView
  <1>2. \A e \in Events : TurnOf(e)' = TurnOf(e) /\ row'[e].segs = row[e].segs
    BY <1>1 DEF TurnOf
  <1>3. QED BY <1>1, <1>2, SteadyTurn DEF Kept

LEMMA OpenSteady ==
    ASSUME TypeInv, BoundInv, PhaseInv, NEW w \in Workers, Opens(w)
    PROVE  Steady
  <1> DEFINE n == Len(turns) + 1
  <1>1. /\ worker[w].at = "start" /\ worker'[w].at # "sent"
        /\ Len(turns') = n /\ \A i \in Rows : turns'[i] = turns[i]
        /\ \A s \in 1..Segments : turns'[n].posted[s] = 0 /\ turns'[n].excused[s] = 0
        /\ Alone(w) /\ UNCHANGED << row, source >>
    BY OpenView DEF Underway
  <1>2. Rows' = Rows \cup {n}
    <2>1. Len(turns) \in Nat
      BY DEF TypeInv
    <2>2. QED BY <1>1, <2>1 DEF Rows
  <1> HIDE DEF n
  <1>3. \A i \in Rows : Kept(i)
    BY <1>1 DEF Kept
  <1>4. \A e \in Events : TurnOf(e)' = TurnOf(e) /\ row'[e].segs = row[e].segs
    BY <1>1, <1>3, AllKept, TurnOfKept
  <1>5. \A x \in Workers : x # w => Replying(worker[x])' = Replying(worker[x])
    BY <1>1, <1>3, AllKept, ReplyingKept DEF Alone
  <1>6. \A x \in Workers : worker[x].at = "sent" \/ worker'[x].at = "sent" =>
           worker'[x] = worker[x] /\ Replying(worker[x])' = Replying(worker[x])
    BY <1>1, <1>5 DEF Alone
  <1>7. QED BY <1>1, <1>2, <1>4, <1>6 DEF Steady

LEMMA CloseSteady ==
    ASSUME TypeInv, BoundInv, PhaseInv, UserInv, NEW w \in Workers, Closes(w)
    PROVE  Steady
  <1> DEFINE u == worker[w].user
  <1>1. /\ worker[w].at \in Underway /\ worker[w].at # "sent" /\ worker'[w].at # "sent"
        /\ Len(turns') = Len(turns)
        /\ \A i \in Rows : /\ turns'[i].msg = turns[i].msg /\ turns'[i].keyed = turns[i].keyed
                           /\ turns'[i].posted = turns[i].posted
                           /\ turns'[i].excused = turns[i].excused
                           /\ turns'[i].replied = IF i = u THEN TRUE ELSE turns[i].replied
        /\ Alone(w) /\ UNCHANGED << row, source >>
    BY CloseView DEF Underway
  <1>2. Private(w)
    BY <1>1 DEF UserInv, Knows
  <1>3. \A i \in Rows : i # u => Kept(i)
    BY <1>1 DEF Kept
  <1>4. \A e \in Events : RowTurnsKept(e)
    BY <1>2, <1>3, Ids DEF Private, RowTurnsKept
  <1>5. \A x \in Workers : x # w => WorkerTurnsKept(x)
    BY <1>2, <1>3, Ids DEF Private, WorkerTurnsKept
  <1> HIDE DEF u
  <1>6. \A e \in Events : TurnOf(e)' = TurnOf(e) /\ row'[e].segs = row[e].segs
    BY <1>1, <1>4, TurnOfKept
  <1>7. \A x \in Workers : x # w => Replying(worker[x])' = Replying(worker[x])
    BY <1>1, <1>5, ReplyingKept DEF Alone
  <1>8. \A x \in Workers : worker[x].at = "sent" \/ worker'[x].at = "sent" =>
           worker'[x] = worker[x] /\ Replying(worker[x])' = Replying(worker[x])
    BY <1>1, <1>7 DEF Alone
  <1>9. Rows' = Rows
    BY <1>1, SameRows
  <1>10. QED BY <1>1, <1>6, <1>8, <1>9 DEF Steady

LEMMA BookkeepingSteady ==
    ASSUME TypeInv, BoundInv, PhaseInv, UserInv, NEW w \in Workers, Link(w) \/ Conclude(w)
    PROVE  Steady
  <1>0. PICK e \in Events : e = worker[w].ev
    BY Busy DEF Link, Conclude
  <1>1. /\ worker[w].at \in {"returned", "marking"} /\ worker'[w].at # "sent"
        /\ \A d \in Events : d # e => row'[d] = row[d]
        /\ row'[e].segs \in {row[e].segs, 0}
        /\ Alone(w) /\ UNCHANGED << turns, source >>
    <2>1. CASE Link(w)
      BY <1>0, <2>1, LinkView
    <2>2. CASE Conclude(w)
      <3>1. worker'[w] = Resting \/ worker'[w].at = "deliver"
        BY <2>2, ConcludeView
      <3>2. worker'[w].at # "sent"
        BY <3>1, RestingZero
      <3>3. QED BY <1>0, <2>2, <3>2, ConcludeView
    <2>3. QED BY <2>1, <2>2
  <1>2. row[e].segs = 0
    <2>1. CASE worker[w].at = "returned"
      <3>1. row[e].proc # "processed"
        BY <1>0, <2>1, Busy DEF Pre
      <3>2. QED BY <3>1 DEF PhaseInv, RowInv
    <2>2. CASE worker[w].at = "marking"
      BY <1>0, <2>2 DEF UserInv, Knows
    <2>3. QED BY <1>1, <2>1, <2>2
  <1>3. Blank(e)
    <2>1. \A x \in Workers : worker[x].at = "sent" => worker[x].ev # e
      BY <1>0, <1>1, ApartEvents
    <2>2. QED BY <1>1, <1>2, <2>1 DEF Blank
  <1>4. \A d \in Events : d # e => TurnOf(d)' = TurnOf(d) /\ row'[d].segs = row[d].segs
    BY <1>1 DEF TurnOf
  <1>5. worker[w].at # "sent"
    BY <1>1
  <1>6. QED BY <1>1, <1>3, <1>4, <1>5, SteadyTurn DEF Kept

LEMMA SweepDeliversSteady ==
    ASSUME TypeInv, BoundInv, PhaseInv, NEW e \in Events, SweepDelivers(e), ~(worker' = worker)
    PROVE  Steady
  <1>1. /\ worker["sweep"].at = "idle" /\ worker'["sweep"].at = "deliver" /\ "sweep" \in Workers
        /\ TurnOf(e) # None
        /\ \A d \in Events : d # e => row'[d] = row[d]
        /\ row'[e].reply = TurnOf(e) /\ row'[e].segs = row[e].segs
        /\ Alone("sweep") /\ UNCHANGED << turns, source >>
    BY SweepDeliversView
  <1>2. TurnOf(e)' = TurnOf(e)
    BY <1>1 DEF TurnOf
  <1>3. \A d \in Events : d # e => TurnOf(d)' = TurnOf(d) /\ row'[d].segs = row[d].segs
    BY <1>1 DEF TurnOf
  <1>4. QED BY <1>1, <1>2, <1>3, SteadyTurn DEF Kept

\* Segment s of turn i is posted.
LEMMA PostOne ==
    ASSUME TypeInv, BoundInv, LinkInv, UserInv, PostInv, SameTurns,
           NEW i \in Rows, NEW s \in 1..Segments,
           \A j \in Rows : turns'[j].posted = IF j = i THEN [turns[j].posted EXCEPT ![s] = @ + 1]
                                                       ELSE turns[j].posted,
           s > 1 => turns[i].posted[s - 1] > 0,
           \A e \in Events : Tells(e)
    PROVE  /\ Rows' = Rows
           /\ \A j \in Rows, t \in 1..Segments : turns'[j].posted[t] =
                 IF j = i /\ t = s THEN turns[j].posted[t] + 1 ELSE turns[j].posted[t]
           /\ \A j \in Rows : InOrder(j)'
           /\ \A e \in Events : TurnOf(e)' = TurnOf(e) /\ CountedIsOut(e)'
           /\ \A x \in Workers : worker'[x] = worker[x] =>
                 SentIsOut(x)' /\ Replying(worker[x])' = Replying(worker[x])
  <1>1. Rows' = Rows
    BY SameRows DEF SameTurns
  <1>2. ASSUME NEW j \in Rows, NEW t \in 1..Segments
        PROVE  turns'[j].posted[t] =
                  IF j = i /\ t = s THEN turns[j].posted[t] + 1 ELSE turns[j].posted[t]
    <2>1. turns[j].posted \in [1..Segments -> Nat]
      <3>1. turns[j] \in TurnRec
        BY DEF TypeInv, Rows
      <3>2. QED BY <3>1 DEF TurnRec
    <2>2. QED BY <2>1
  <1>3. \A j \in Rows, t \in 1..Segments : turns[j].posted[t] > 0 => turns'[j].posted[t] > 0
    BY <1>2, Counters
  <1>4. ASSUME NEW j \in Rows
        PROVE  InOrder(j)'
    <2> SUFFICES ASSUME NEW t \in 1..Segments, turns'[j].posted[t] > 0, t > 1
                 PROVE  turns'[j].posted[t - 1] > 0
      BY DEF InOrder
    <2>1. t - 1 \in 1..Segments
      BY ChannelConstants
    <2>2. turns[j].posted[t - 1] > 0
      <3>1. CASE j = i /\ t = s
        BY <3>1
      <3>2. CASE ~(j = i /\ t = s)
        BY <1>2, <3>2 DEF PostInv, InOrder
      <3>3. QED BY <3>1, <3>2
    <2>3. QED BY <1>3, <2>1, <2>2
  <1>5. /\ \A e \in Events : RowTurnsKept(e)
        /\ \A x \in Workers : WorkerTurnsKept(x)
    BY SameTurnsKept, AllKept
  <1>6. ASSUME NEW e \in Events
        PROVE  TurnOf(e)' = TurnOf(e) /\ CountedIsOut(e)'
    <2>1. TurnOf(e)' = TurnOf(e)
      BY <1>5, TurnOfKept DEF Tells
    <2>2. ASSUME NEW t \in 1..Segments, t <= row[e].segs
          PROVE  turns'[TurnOf(e)].posted[t] > 0
      <3>1. row[e].segs > 0
        BY <2>2, Ids
      <3>2. TurnOf(e) \in Rows
        BY <3>1, Ids DEF LinkInv, Links
      <3>3. QED BY <1>3, <2>2, <3>2 DEF PostInv, CountedIsOut
    <2>3. QED BY <2>1, <2>2 DEF CountedIsOut, Tells
  <1>7. ASSUME NEW x \in Workers, worker'[x] = worker[x]
        PROVE  SentIsOut(x)' /\ Replying(worker[x])' = Replying(worker[x])
    <2>1. Replying(worker[x])' = Replying(worker[x])
      BY <1>5, <1>7, ReplyingKept
    <2>2. ASSUME worker[x].at = "sent"
          PROVE  turns'[Replying(worker[x])].posted[worker[x].seg + 1] > 0
      <3>1. Replying(worker[x]) \in Rows
        BY <2>2, Ids DEF UserInv, Knows
      <3>2. worker[x].seg + 1 \in 1..Segments
        BY <2>2, Ids, ChannelConstants DEF BoundInv
      <3>3. QED BY <1>3, <2>2, <3>1, <3>2 DEF PostInv, SentIsOut
    <2>3. QED BY <1>7, <2>1, <2>2 DEF SentIsOut
  <1>8. QED BY <1>1, <1>2, <1>4, <1>6, <1>7

\* The worker that posts, and what the record says of the segment.
LEMMA Poster ==
    ASSUME TypeInv, BoundInv, PhaseInv, LinkInv, UserInv, PostInv,
           NEW w \in Workers, worker[w].at = "deliver", Replying(worker[w]) \in Rows,
           NEW d \in Events, d = worker[w].ev, NEW s \in 1..Segments, s = worker[w].seg + 1
    PROVE  LET i == Replying(worker[w]) IN
           /\ TurnOf(d) = i /\ turns[i].msg = source[d]
           /\ s > 1 => turns[i].posted[s - 1] > 0
           /\ ~Credit(d, i, s)
           /\ \A e \in Events : Siblings(e) = {e} /\ turns[i].msg = source[e] => e = d
  <1> DEFINE i == Replying(worker[w])
  <1>1. TurnOf(d) = i /\ worker[w].seg = row[d].segs
    BY Ids DEF UserInv, Knows
  <1>2. turns[i].msg = source[d]
    BY <1>1, Ids DEF LinkInv, Links, TurnOf
  <1>3. s > 1 => turns[i].posted[s - 1] > 0
    <2>1. s - 1 <= row[d].segs /\ (s > 1 => s - 1 \in 1..Segments)
      BY <1>1, Ids, ChannelConstants
    <2>2. QED BY <1>1, <2>1 DEF PostInv, CountedIsOut
  <1>4. ~Credit(d, i, s)
    <2>1. ~(s <= row[d].segs)
      BY <1>1, Ids
    <2>2. \A x \in Workers : worker[x].at = "sent" => worker[x].ev # d
      BY ApartEvents
    <2>3. QED BY <2>1, <2>2 DEF Credit
  <1>5. \A e \in Events : Siblings(e) = {e} /\ turns[i].msg = source[e] => e = d
    BY <1>2 DEF Siblings
  <1>6. QED BY <1>1, <1>2, <1>3, <1>4, <1>5

LEMMA PostSendSegment ==
    ASSUME TypeInv, BoundInv, PhaseInv, LinkInv, UserInv, PostInv,
           NEW w \in Workers, SendSegment(w)
    PROVE  PostInv'
  <1>0. PICK d \in Events : d = worker[w].ev
    BY SendSegmentView
  <1>a. PICK i \in Rows : i = Replying(worker[w])
    BY SendSegmentView
  <1>b. PICK s \in 1..Segments : s = worker[w].seg + 1
    BY SendSegmentView
  <1>1. /\ worker[w].at = "deliver"
        /\ worker'[w].at = "sent" /\ worker'[w].reply = worker[w].reply
        /\ worker'[w].user = worker[w].user /\ worker'[w].ev = worker[w].ev
        /\ worker'[w].seg = worker[w].seg
        /\ SameTurns
        /\ \A j \in Rows : /\ turns'[j].excused = turns[j].excused
                           /\ turns'[j].posted = IF j = i THEN [turns[j].posted EXCEPT ![s] = @ + 1]
                                                          ELSE turns[j].posted
        /\ Alone(w) /\ UNCHANGED << row, source, batch >>
    BY <1>0, <1>a, <1>b, SendSegmentView
  <1>2. /\ TurnOf(d) = i
        /\ s > 1 => turns[i].posted[s - 1] > 0
        /\ ~Credit(d, i, s)
        /\ \A e \in Events : Siblings(e) = {e} /\ turns[i].msg = source[e] => e = d
    BY <1>0, <1>a, <1>b, <1>1, Poster
  <1>3. \A e \in Events : Tells(e)
    BY <1>1 DEF Tells
  <1>4. /\ Rows' = Rows
        /\ \A j \in Rows, t \in 1..Segments : turns'[j].posted[t] =
              IF j = i /\ t = s THEN turns[j].posted[t] + 1 ELSE turns[j].posted[t]
        /\ \A j \in Rows : InOrder(j)'
        /\ \A e \in Events : TurnOf(e)' = TurnOf(e) /\ CountedIsOut(e)'
        /\ \A x \in Workers : worker'[x] = worker[x] => SentIsOut(x)'
    <2>1. \A j \in Rows : turns'[j].posted =
             IF j = i THEN [turns[j].posted EXCEPT ![s] = @ + 1] ELSE turns[j].posted
      BY <1>1
    <2>2. SameTurns
      BY <1>1
    <2>3. QED BY <1>2, <1>3, <2>1, <2>2, PostOne
  <1>5. SentIsOut(w)'
    <2>1. Replying(worker[w])' = i
      BY <1>a, <1>1, SameTurnsKept, AllKept, ReplyingKept
    <2>2. turns'[i].posted[s] > 0
      BY <1>4, Counters
    <2>3. QED BY <1>b, <1>1, <2>1, <2>2 DEF SentIsOut
  <1>6. ASSUME NEW e \in Events
        PROVE  OnRecord(e)'
    <2> SUFFICES ASSUME Siblings(e)' = {e}, NEW j \in Rows, NEW t \in 1..Segments,
                        turns'[j].msg = source'[e]
                 PROVE  turns'[j].posted[t] <= turns'[j].excused[t]
                                                 + IF Credit(e, j, t)' THEN 1 ELSE 0
      BY <1>4 DEF OnRecord
    <2>1. Siblings(e) = {e} /\ turns[j].msg = source[e] /\ turns'[j].excused[t] = turns[j].excused[t]
      BY <1>1 DEF Siblings, SameTurns
    <2>2. turns[j].posted[t] <= turns[j].excused[t] + IF Credit(e, j, t) THEN 1 ELSE 0
      BY <2>1 DEF PostInv, OnRecord
    <2>3. turns[j].posted[t] \in Nat /\ turns[j].excused[t] \in Nat
      BY Counters
    <2>4. CASE j = i /\ t = s
      <3>1. e = d /\ ~Credit(e, j, t)
        BY <1>2, <2>1, <2>4
      <3>2. Credit(e, j, t)'
        BY <1>0, <1>b, <1>1, <1>2, <1>4, <2>4, <3>1 DEF Credit
      <3>3. QED BY <1>4, <2>1, <2>2, <2>3, <2>4, <3>1, <3>2
    <2>5. CASE ~(j = i /\ t = s)
      <3>1. Credit(e, j, t) => Credit(e, j, t)'
        BY <1>1, <1>4 DEF Credit, Alone
      <3>2. QED BY <1>4, <2>1, <2>2, <2>3, <2>5, <3>1
    <2>6. QED BY <2>4, <2>5
  <1>7. QED BY <1>1, <1>4, <1>5, <1>6 DEF PostInv, Alone

LEMMA PostSendFails ==
    ASSUME TypeInv, BoundInv, PhaseInv, LinkInv, UserInv, PostInv, NEW w \in Workers,
           NEW fatal \in BOOLEAN, NEW posted \in BOOLEAN, SendFails(w, fatal, posted),
           turns' # turns
    PROVE  PostInv'
  <1>0. PICK d \in Events : d = worker[w].ev
    BY SendFailsView
  <1>a. PICK i \in Rows : i = Replying(worker[w])
    BY SendFailsView
  <1>b. PICK s \in 1..Segments : s = worker[w].seg + 1
    BY SendFailsView
  <1>1. /\ worker[w].at = "deliver" /\ worker'[w] = Resting
        /\ \A e \in Events : e # d => row'[e] = row[e]
        /\ Tells(d) /\ SameTurns
        /\ \A j \in Rows : /\ turns'[j].excused = IF j = i THEN [turns[j].excused EXCEPT ![s] = @ + 1]
                                                          ELSE turns[j].excused
                           /\ turns'[j].posted = IF j = i THEN [turns[j].posted EXCEPT ![s] = @ + 1]
                                                          ELSE turns[j].posted
        /\ Alone(w) /\ UNCHANGED << source, batch >>
    BY <1>0, <1>a, <1>b, SendFailsView
  <1>2. s > 1 => turns[i].posted[s - 1] > 0
    BY <1>0, <1>a, <1>b, <1>1, Poster
  <1>3. \A e \in Events : Tells(e)
    BY <1>1 DEF Tells
  <1>4. /\ Rows' = Rows
        /\ \A j \in Rows, t \in 1..Segments : turns'[j].posted[t] =
              IF j = i /\ t = s THEN turns[j].posted[t] + 1 ELSE turns[j].posted[t]
        /\ \A j \in Rows : InOrder(j)'
        /\ \A e \in Events : TurnOf(e)' = TurnOf(e) /\ CountedIsOut(e)'
        /\ \A x \in Workers : worker'[x] = worker[x] => SentIsOut(x)'
    <2>1. \A j \in Rows : turns'[j].posted =
             IF j = i THEN [turns[j].posted EXCEPT ![s] = @ + 1] ELSE turns[j].posted
      BY <1>1
    <2>2. SameTurns
      BY <1>1
    <2>3. QED BY <1>2, <1>3, <2>1, <2>2, PostOne
  <1>5. SentIsOut(w)'
    BY <1>1, RestingZero DEF SentIsOut
  <1>6. ASSUME NEW j \in Rows, NEW t \in 1..Segments
        PROVE  turns'[j].excused[t] =
                  IF j = i /\ t = s THEN turns[j].excused[t] + 1 ELSE turns[j].excused[t]
    <2>1. turns[j].excused \in [1..Segments -> Nat]
      <3>1. turns[j] \in TurnRec
        BY DEF TypeInv, Rows
      <3>2. QED BY <3>1 DEF TurnRec
    <2>2. QED BY <1>1, <2>1
  <1>7. ASSUME NEW e \in Events
        PROVE  OnRecord(e)'
    <2> SUFFICES ASSUME Siblings(e)' = {e}, NEW j \in Rows, NEW t \in 1..Segments,
                        turns'[j].msg = source'[e]
                 PROVE  turns'[j].posted[t] <= turns'[j].excused[t]
                                                 + IF Credit(e, j, t)' THEN 1 ELSE 0
      BY <1>4 DEF OnRecord
    <2>1. Siblings(e) = {e} /\ turns[j].msg = source[e]
      BY <1>1 DEF Siblings, SameTurns
    <2>2. turns[j].posted[t] <= turns[j].excused[t] + IF Credit(e, j, t) THEN 1 ELSE 0
      BY <2>1 DEF PostInv, OnRecord
    <2>3. turns[j].posted[t] \in Nat /\ turns[j].excused[t] \in Nat
      BY Counters
    <2>4. Credit(e, j, t) => Credit(e, j, t)'
      BY <1>1, <1>3, <1>4 DEF Credit, Alone, Tells
    <2>5. QED BY <1>4, <1>6, <2>2, <2>3, <2>4
  <1>8. QED BY <1>1, <1>4, <1>5, <1>7 DEF PostInv, Alone

LEMMA PostCountSegment ==
    ASSUME TypeInv, BoundInv, PhaseInv, LinkInv, UserInv, PostInv,
           NEW w \in Workers, CountSegment(w)
    PROVE  PostInv'
  <1>0. PICK d \in Events : d = worker[w].ev
    BY Busy DEF CountSegment
  <1>1. /\ worker[w].at = "sent" /\ worker[w].seg \in Nat
        /\ worker'[w].at = "deliver"
        /\ \A e \in Events : e # d => row'[e] = row[e]
        /\ row'[d].message = row[d].message /\ row'[d].reply = row[d].reply
        /\ row'[d].segs = worker[w].seg + 1
        /\ Alone(w) /\ UNCHANGED << turns, source, batch >>
    BY <1>0, CountSegmentView
  <1>2. /\ worker[w].seg = row[d].segs /\ Replying(worker[w]) = TurnOf(d)
    BY <1>0, <1>1 DEF UserInv, Knows
  <1>3. \A e \in Events : TurnOf(e)' = TurnOf(e)
    BY <1>1 DEF TurnOf
  <1>4. ASSUME NEW e \in Events
        PROVE  CountedIsOut(e)'
    <2>1. CASE e # d
      BY <1>1, <1>3, <2>1 DEF PostInv, CountedIsOut
    <2>2. CASE e = d
      <3> SUFFICES ASSUME NEW s \in 1..Segments, s <= row[d].segs + 1
                   PROVE  turns[TurnOf(d)].posted[s] > 0
        BY <1>1, <1>2, <1>3, <2>2 DEF CountedIsOut
      <3>1. CASE s <= row[d].segs
        BY <3>1 DEF PostInv, CountedIsOut
      <3>2. CASE s = worker[w].seg + 1
        BY <1>1, <1>2, <3>2 DEF PostInv, SentIsOut
      <3>3. QED BY <1>1, <1>2, <3>1, <3>2
    <2>3. QED BY <2>1, <2>2
  <1>5. \A x \in Workers : SentIsOut(x)'
    BY <1>1 DEF PostInv, SentIsOut, Alone, Replying
  <1>6. ASSUME NEW e \in Events
        PROVE  OnRecord(e)'
    <2>1. \A i \in Rows, s \in 1..Segments : Credit(e, i, s) => Credit(e, i, s)'
      <3>1. CASE e # d
        BY <1>0, <1>1, <1>3, <3>1 DEF Credit, Alone
      <3>2. CASE e = d
        <4> SUFFICES ASSUME NEW i \in Rows, NEW s \in 1..Segments, Credit(d, i, s)
                     PROVE  Credit(d, i, s)'
          BY <3>2
        <4>1. \A x \in Workers : worker[x].at = "sent" /\ worker[x].ev = d => x = w
          BY <1>0, <1>1, ApartEvents
        <4>2. s <= row[d].segs \/ s = worker[w].seg + 1
          BY <4>1 DEF Credit
        <4>3. s <= row'[d].segs
          BY <1>1, <1>2, <4>2
        <4>4. QED BY <1>3, <4>3 DEF Credit
      <3>3. QED BY <3>1, <3>2
    <2> SUFFICES ASSUME Siblings(e)' = {e}, NEW j \in Rows', NEW t \in 1..Segments,
                        turns'[j].msg = source'[e]
                 PROVE  turns'[j].posted[t] <= turns'[j].excused[t]
                                                 + IF Credit(e, j, t)' THEN 1 ELSE 0
      BY DEF OnRecord
    <2>2. j \in Rows /\ Siblings(e) = {e} /\ turns[j].msg = source[e]
      BY <1>1 DEF Rows, Siblings
    <2>3. turns[j].posted[t] <= turns[j].excused[t] + IF Credit(e, j, t) THEN 1 ELSE 0
      BY <2>2 DEF PostInv, OnRecord
    <2>4. turns[j].posted[t] \in Nat /\ turns[j].excused[t] \in Nat
      BY <2>2, Counters
    <2>5. QED BY <1>1, <2>1, <2>2, <2>3, <2>4
  <1>7. \A i \in Rows' : InOrder(i)'
    BY <1>1 DEF PostInv, InOrder, Rows
  <1>8. QED BY <1>4, <1>5, <1>6, <1>7 DEF PostInv

LEMMA PostCrash ==
    ASSUME TypeInv, BoundInv, PhaseInv, LinkInv, UserInv, PostInv, Crash
    PROVE  PostInv'
  <1>1. /\ \A e \in Events : Tells(e)
        /\ SameTurns
        /\ \A i \in Rows : turns'[i].posted = turns[i].posted
        /\ \A i \in Rows, s \in 1..Segments :
              /\ turns'[i].excused[s] = turns[i].excused[s] + Cardinality(LostCounts(i, s))
              /\ IsFiniteSet(LostCounts(i, s)) /\ Cardinality(LostCounts(i, s)) \in Nat
        /\ \A w \in Workers : worker'[w].at = "idle"
        /\ source' = source
    BY CrashView
  <1>2. Rows' = Rows
    BY <1>1, SameRows DEF SameTurns
  <1>3. \A e \in Events : TurnOf(e)' = TurnOf(e) /\ row'[e].segs = row[e].segs
    BY <1>1, SameTurnsKept, AllKept, TurnOfKept DEF Tells
  <1>4. \A i \in Rows' : InOrder(i)'
    BY <1>1, <1>2 DEF PostInv, InOrder
  <1>5. \A w \in Workers : SentIsOut(w)'
    BY <1>1 DEF SentIsOut
  <1>6. ASSUME NEW e \in Events
        PROVE  CountedIsOut(e)'
    <2> SUFFICES ASSUME NEW s \in 1..Segments, s <= row[e].segs
                 PROVE  turns'[TurnOf(e)].posted[s] > 0
      BY <1>3 DEF CountedIsOut
    <2>1. row[e].segs > 0
      BY Ids
    <2>2. TurnOf(e) \in Rows
      BY <2>1, Ids DEF LinkInv, Links
    <2>3. QED BY <1>1, <2>2 DEF PostInv, CountedIsOut
  <1>7. ASSUME NEW e \in Events
        PROVE  OnRecord(e)'
    <2> SUFFICES ASSUME Siblings(e)' = {e}, NEW i \in Rows, NEW s \in 1..Segments,
                        turns'[i].msg = source'[e]
                 PROVE  turns'[i].posted[s] <= turns'[i].excused[s]
                                                 + IF Credit(e, i, s)' THEN 1 ELSE 0
      BY <1>2 DEF OnRecord
    <2>1. Siblings(e) = {e} /\ turns[i].msg = source[e]
      BY <1>1 DEF Siblings, SameTurns
    <2>2. turns[i].posted[s] <= turns[i].excused[s] + IF Credit(e, i, s) THEN 1 ELSE 0
      BY <2>1 DEF PostInv, OnRecord
    <2>3. turns[i].posted[s] \in Nat /\ turns[i].excused[s] \in Nat
      BY Counters
    <2>4. CASE Credit(e, i, s) => Credit(e, i, s)'
      BY <1>1, <2>2, <2>3, <2>4
    <2>5. CASE Credit(e, i, s) /\ ~Credit(e, i, s)'
      <3>1. PICK w \in Workers : /\ worker[w].at = "sent" /\ worker[w].ev = e
                                 /\ worker[w].seg + 1 = s /\ TurnOf(e) = i
        BY <1>3, <2>5 DEF Credit
      <3>2. Replying(worker[w]) = i
        BY <3>1 DEF UserInv, Knows
      <3>3. w \in LostCounts(i, s)
        BY <3>1, <3>2 DEF LostCounts
      <3>4. Cardinality(LostCounts(i, s)) >= 1
        <4>1. LostCounts(i, s) # {} /\ IsFiniteSet(LostCounts(i, s))
          BY <1>1, <3>3
        <4>2. Cardinality(LostCounts(i, s)) # 0
          BY <4>1, FS_EmptySet
        <4>3. QED BY <1>1, <4>2
      <3>5. QED BY <1>1, <2>2, <2>3, <3>4
    <2>6. QED BY <2>4, <2>5
  <1>8. QED BY <1>4, <1>5, <1>6, <1>7 DEF PostInv

LEMMA PostStep ==
    ASSUME TypeInv, BoundInv, PhaseInv, LinkInv, UserInv, PostInv, [Next]_vars
    PROVE  PostInv'
  <1>1. CASE Steady
    BY <1>1, PostSteady
  <1>2. QED
    BY <1>1, Steps, QuietSteady, TurnSteady, OpenSteady, CloseSteady,
       BookkeepingSteady, SweepDeliversSteady, PostSendSegment, PostSendFails,
       PostCountSegment, PostCrash

-----------------------------------------------------------------------------
(* DoneInv.                                                                *)

\* How a worker comes to the end of a turn or to a delivery: by going on with
\* what it has, or by taking a delivery retry that names a reply.
Flow(x) ==
    worker'[x].at \in {"marking", "deliver", "sent"} =>
        \/ /\ worker[x].at # "idle" /\ worker'[x].ev = worker[x].ev
           /\ worker'[x].user = worker[x].user /\ worker'[x].reply = worker[x].reply
           /\ worker'[x].at = "marking" => worker[x].at \in {"returned", "marking"}
        \/ worker'[x].at = "deliver" /\ worker'[x].reply # None

\* What is written and posted stays so, and a row that is settled keeps its turn.
Grows ==
    /\ source' = source /\ Rows \subseteq Rows'
    /\ \A i \in Rows : /\ turns'[i].msg = turns[i].msg
                       /\ turns[i].replied => turns'[i].replied
                       /\ \A s \in 1..Segments : turns[i].posted[s] > 0 => turns'[i].posted[s] > 0
    /\ \A x \in Workers : Flow(x)
    /\ \A e \in Events : row[e].deliv = "delivered" =>
          /\ row'[e].message = row[e].message
          /\ row[e].message # None /\ turns'[row[e].message].replied =>
                turns[row[e].message].replied

LEMMA FlowSame ==
    ASSUME NEW x \in Workers, worker'[x] = worker[x]
    PROVE  Flow(x)
  <1>1. CASE worker[x].at \in {"marking", "deliver", "sent"}
    BY <1>1 DEF Flow
  <1>2. CASE worker[x].at \notin {"marking", "deliver", "sent"}
    BY <1>2 DEF Flow
  <1>3. QED BY <1>1, <1>2

LEMMA FlowOn ==
    ASSUME NEW w \in Workers, Alone(w), worker[w].at # "idle", worker'[w].ev = worker[w].ev,
           worker'[w].user = worker[w].user, worker'[w].reply = worker[w].reply,
           worker'[w].at = "marking" => worker[w].at = "returned"
    PROVE  \A x \in Workers : Flow(x)
  <1>1. Flow(w)
    BY DEF Flow
  <1>2. QED BY <1>1, FlowSame DEF Alone

LEMMA FlowOut ==
    ASSUME NEW w \in Workers, Alone(w), worker'[w].at \notin {"marking", "deliver", "sent"}
    PROVE  \A x \in Workers : Flow(x)
  <1>1. Flow(w)
    BY DEF Flow
  <1>2. QED BY <1>1, FlowSame DEF Alone

LEMMA GrowsStep ==
    ASSUME TypeInv, BoundInv, PhaseInv, LinkInv, UserInv, PostInv, [Next]_vars
    PROVE  Grows
  <1>1. ASSUME NEW w \in Workers, worker[w].at # "idle"
        PROVE  worker[w].ev \in Events /\ row[worker[w].ev].deliv # "delivered"
    <2>1. CASE w = "live"
      <3>1. row[worker[w].ev].proc = "pending" \/ row[worker[w].ev].deliv = "pending"
        BY <1>1, <2>1 DEF PhaseInv, LiveInv, TypeInv, WorkerRec
      <3>2. QED BY <1>1, <2>1, <3>1, Busy DEF PhaseInv, RowInv
    <2>2. CASE w = "sweep"
      <3>1. row[worker[w].ev].proc = "failed" \/ row[worker[w].ev].deliv \in {"pending", "failed"}
        BY <1>1, <2>2 DEF PhaseInv, SweepInv, TypeInv, WorkerRec
      <3>2. QED BY <1>1, <2>2, <3>1, Busy DEF PhaseInv, RowInv
    <2>3. QED BY <2>1, <2>2 DEF Workers
  <1>2. CASE Quiet
    <2>1. \A x \in Workers : Flow(x)
      <3> TAKE x \in Workers
      <3>1. CASE worker'[x] = worker[x]
        BY <3>1, FlowSame
      <3>2. CASE Unengaged(worker'[x])
        BY <3>2 DEF Unengaged, Flow
      <3>3. QED BY <1>2, <3>1, <3>2 DEF Quiet
    <2>2. QED BY <1>2, <2>1 DEF Quiet, Grows, Tells, Rows
  <1>3. ASSUME NEW w \in Workers, Deduplicate(w) \/ EndTurn(w)
        PROVE  Grows
    <2>1. /\ worker'[w].at \in {"start", "returned"}
          /\ Alone(w) /\ UNCHANGED << row, turns, source >>
      BY <1>3, DeduplicateView, EndTurnView
    <2>2. \A x \in Workers : Flow(x)
      BY <2>1, FlowOut
    <2>3. QED BY <2>1, <2>2 DEF Grows, Rows
  <1>4. ASSUME NEW w \in Workers, Opens(w)
        PROVE  Grows
    <2>1. /\ worker'[w].at \notin {"marking", "deliver", "sent"} /\ Len(turns') = Len(turns) + 1
          /\ \A i \in Rows : turns'[i] = turns[i]
          /\ Alone(w) /\ UNCHANGED << row, source >>
      BY <1>4, OpenView DEF Underway
    <2>2. \A x \in Workers : Flow(x)
      BY <2>1, FlowOut
    <2>3. Rows \subseteq Rows'
      <3>1. Len(turns) \in Nat
        BY DEF TypeInv
      <3>2. QED BY <2>1, <3>1 DEF Rows
    <2>4. \A e \in Events : row[e].message # None => row[e].message \in Rows
      BY Ids
    <2>5. QED BY <2>1, <2>2, <2>3, <2>4 DEF Grows
  <1>5. ASSUME NEW w \in Workers, Closes(w)
        PROVE  Grows
    <2>1. /\ worker[w].at \in Underway /\ worker'[w].at \in {"replied", "returned"}
          /\ Len(turns') = Len(turns)
          /\ \A i \in Rows : /\ turns'[i].msg = turns[i].msg
                             /\ turns'[i].posted = turns[i].posted
                             /\ turns'[i].replied = IF i = worker[w].user THEN TRUE
                                                                        ELSE turns[i].replied
          /\ Alone(w) /\ UNCHANGED << row, source >>
      BY <1>5, CloseView
    <2>2. \A x \in Workers : Flow(x)
      BY <2>1, FlowOut
    <2>3. \A e \in Events : row[e].message # worker[w].user
      BY <2>1 DEF UserInv, Knows, Private
    <2>4. \A e \in Events : row[e].message # None => row[e].message \in Rows
      BY Ids
    <2>5. Rows' = Rows
      BY <2>1, SameRows
    <2>6. QED BY <2>1, <2>2, <2>3, <2>4, <2>5 DEF Grows
  <1>6. ASSUME NEW w \in Workers, Link(w)
        PROVE  Grows
    <2>1. /\ worker[w].at = "returned" /\ worker'[w].reply = worker[w].reply
          /\ worker'[w].user = worker[w].user /\ worker'[w].ev = worker[w].ev
          /\ \A d \in Events : d # worker[w].ev => row'[d] = row[d]
          /\ Alone(w) /\ UNCHANGED << turns, source >>
      BY <1>6, LinkView
    <2>2. \A x \in Workers : Flow(x)
      BY <2>1, FlowOn
    <2>3. row[worker[w].ev].deliv # "delivered"
      BY <1>1, <2>1
    <2>4. QED BY <2>1, <2>2, <2>3 DEF Grows, Rows
  <1>7. ASSUME NEW w \in Workers, Conclude(w)
        PROVE  Grows
    <2>1. /\ worker[w].at = "marking"
          /\ \A d \in Events : d # worker[w].ev => row'[d] = row[d]
          /\ row'[worker[w].ev].message = row[worker[w].ev].message
          /\ Alone(w) /\ UNCHANGED << turns, source >>
          /\ \/ worker'[w] = Resting
             \/ /\ worker'[w].at = "deliver" /\ worker'[w].reply = worker[w].reply
                /\ worker'[w].user = worker[w].user /\ worker'[w].ev = worker[w].ev
      BY <1>7, ConcludeView
    <2>2. \A x \in Workers : Flow(x)
      BY <2>1, FlowOn, FlowOut, RestingZero
    <2>3. row[worker[w].ev].deliv # "delivered"
      BY <1>1, <2>1
    <2>4. QED BY <2>1, <2>2, <2>3 DEF Grows, Rows
  <1>8. ASSUME NEW w \in Workers, CountSegment(w)
        PROVE  Grows
    <2>1. /\ worker[w].at = "sent" /\ worker'[w].at = "deliver"
          /\ worker'[w].reply = worker[w].reply
          /\ worker'[w].user = worker[w].user /\ worker'[w].ev = worker[w].ev
          /\ \A d \in Events : d # worker[w].ev => row'[d] = row[d]
          /\ row'[worker[w].ev].message = row[worker[w].ev].message
          /\ Alone(w) /\ UNCHANGED << turns, source >>
      BY <1>8, CountSegmentView
    <2>2. \A x \in Workers : Flow(x)
      BY <2>1, FlowOn
    <2>3. row[worker[w].ev].deliv # "delivered"
      BY <1>1, <2>1
    <2>4. QED BY <2>1, <2>2, <2>3 DEF Grows, Rows
  <1>9. ASSUME SameTurns, \A e \in Events : Tells(e), source' = source,
               \A x \in Workers : Flow(x),
               \A i \in Rows, s \in 1..Segments : turns[i].posted[s] > 0 => turns'[i].posted[s] > 0
        PROVE  Grows
    <2>1. Rows' = Rows
      BY <1>9, SameRows DEF SameTurns
    <2>2. \A e \in Events : row[e].message # None => row[e].message \in Rows
      BY Ids
    <2>3. \A e \in Events : row'[e].message = row[e].message
      BY <1>9 DEF Tells
    <2>4. QED BY <1>9, <2>1, <2>2, <2>3 DEF Grows, SameTurns
  <1>10. ASSUME NEW w \in Workers, NEW s \in 1..Segments, NEW i \in Rows,
                \A j \in Rows : turns'[j].posted = IF j = i THEN [turns[j].posted EXCEPT ![s] = @ + 1]
                                                            ELSE turns[j].posted
         PROVE  \A j \in Rows, t \in 1..Segments : turns[j].posted[t] > 0 => turns'[j].posted[t] > 0
    <2> TAKE j \in Rows, t \in 1..Segments
    <2>1. turns[j].posted \in [1..Segments -> Nat]
      <3>1. turns[j] \in TurnRec
        BY DEF TypeInv, Rows
      <3>2. QED BY <3>1 DEF TurnRec
    <2>2. CASE j = i
      <3>1. turns'[j].posted = [turns[j].posted EXCEPT ![s] = @ + 1]
        BY <1>10, <2>2
      <3>2. turns'[j].posted[t] = IF t = s THEN turns[j].posted[t] + 1 ELSE turns[j].posted[t]
        BY <2>1, <3>1
      <3>3. QED BY <3>2, Counters
    <2>3. CASE j # i
      BY <1>10, <2>3
    <2>4. QED BY <2>2, <2>3
  <1>11. ASSUME NEW w \in Workers, SendSegment(w)
         PROVE  Grows
    <2>1. /\ worker[w].at = "deliver" /\ worker'[w].at = "sent"
          /\ worker'[w].reply = worker[w].reply
          /\ worker'[w].user = worker[w].user /\ worker'[w].ev = worker[w].ev
          /\ SameTurns /\ Alone(w) /\ UNCHANGED << row, source >>
      BY <1>11, SendSegmentView
    <2>2. PICK i \in Rows : i = Replying(worker[w])
      BY <1>11, SendSegmentView
    <2>3. PICK s \in 1..Segments : s = worker[w].seg + 1
      BY <1>11, SendSegmentView
    <2>4. \A j \in Rows : turns'[j].posted = IF j = i THEN [turns[j].posted EXCEPT ![s] = @ + 1]
                                                      ELSE turns[j].posted
      BY <1>11, <2>2, <2>3, SendSegmentView
    <2>5. \A x \in Workers : Flow(x)
      BY <2>1, FlowOn
    <2>6. \A e \in Events : Tells(e)
      BY <2>1 DEF Tells
    <2>7. QED BY <1>9, <1>10, <2>1, <2>4, <2>5, <2>6
  <1>12. ASSUME NEW w \in Workers, NEW fatal \in BOOLEAN, NEW posted \in BOOLEAN,
                SendFails(w, fatal, posted), turns' # turns
         PROVE  Grows
    <2>1. /\ worker'[w] = Resting /\ Tells(worker[w].ev)
          /\ \A d \in Events : d # worker[w].ev => row'[d] = row[d]
          /\ SameTurns /\ Alone(w) /\ source' = source
      BY <1>12, SendFailsView
    <2>2. PICK i \in Rows : i = Replying(worker[w])
      BY <1>12, SendFailsView
    <2>3. PICK s \in 1..Segments : s = worker[w].seg + 1
      BY <1>12, SendFailsView
    <2>4. \A j \in Rows : turns'[j].posted = IF j = i THEN [turns[j].posted EXCEPT ![s] = @ + 1]
                                                      ELSE turns[j].posted
      BY <1>12, <2>2, <2>3, SendFailsView
    <2>5. \A x \in Workers : Flow(x)
      BY <2>1, FlowOut, RestingZero
    <2>6. \A e \in Events : Tells(e)
      BY <2>1 DEF Tells
    <2>7. QED BY <1>9, <1>10, <2>1, <2>4, <2>5, <2>6
  <1>13. ASSUME NEW e \in Events, SweepDelivers(e), ~(worker' = worker)
         PROVE  Grows
    <2>1. /\ worker'["sweep"].at = "deliver" /\ TurnOf(e) # None
          /\ worker'["sweep"].reply = TurnOf(e) /\ "sweep" \in Workers
          /\ \A d \in Events : d # e => row'[d] = row[d]
          /\ row'[e].message = row[e].message
          /\ Alone("sweep") /\ UNCHANGED << turns, source >>
      BY <1>13, SweepDeliversView
    <2>2. Flow("sweep")
      BY <2>1 DEF Flow
    <2>3. \A x \in Workers : x # "sweep" => Flow(x)
      BY <2>1, FlowSame DEF Alone
    <2>4. \A d \in Events : row'[d].message = row[d].message
      BY <2>1
    <2>5. QED BY <2>1, <2>2, <2>3, <2>4 DEF Grows, Rows
  <1>14. CASE Crash
    <2>1. /\ \A e \in Events : Tells(e)
          /\ SameTurns /\ source' = source
          /\ \A i \in Rows : turns'[i].posted = turns[i].posted
          /\ \A w \in Workers : worker'[w].at = "idle"
      BY <1>14, CrashView
    <2>2. \A x \in Workers : Flow(x)
      BY <2>1 DEF Flow
    <2>3. QED BY <1>9, <2>1, <2>2
  <1>15. QED
    BY <1>2, <1>3, <1>4, <1>5, <1>6, <1>7, <1>8, <1>11, <1>12, <1>13, <1>14, Steps

\* What may happen to the delivery status of an event.
Marks(e) ==
    \/ row'[e].deliv = row[e].deliv
    \/ row'[e].deliv \in {"failed", "dead_letter"}
    \/ \E w \in Workers : worker[w].ev = e /\ (FinishDelivery(w) \/ Conclude(w))

LEMMA MarksStep ==
    ASSUME TypeInv, BoundInv, PhaseInv, [Next]_vars
    PROVE  \A e \in Events : Marks(e)
  <1>1. \A e \in Events : row[e] \in RowRec
    BY DEF TypeInv, RowTable
  <1>2. ASSUME NEW w \in Workers, Turn(w)
        PROVE  \A e \in Events : Marks(e)
    <2>1. CASE row' = row
      BY <2>1 DEF Marks
    <2>2. CASE HitBusy(w)
      <3>1. PICK e \in Events : e = worker[w].ev
        BY <2>2, Busy DEF HitBusy
      <3>2. Writes(e, [row[e] EXCEPT !.proc = "failed"])
        BY <2>2, <3>1, HitBusyFacts
      <3>3. row'[e].deliv = row[e].deliv
        BY <1>1, <3>2 DEF Writes, RowRec
      <3>4. QED BY <3>2, <3>3 DEF Writes, Only, Marks
    <2>3. ASSUME NEW fatal \in BOOLEAN, Throws(w, fatal)
          PROVE  \A e \in Events : Marks(e)
      <3>1. worker[w].at \in Pre /\ worker[w].at # "idle" /\ Fails(w, fatal)
        BY <2>3 DEF Throws, FailEarly, BreakTurn, BreakCommand, BoundaryThrows, Pre
      <3>2. PICK e \in Events : e = worker[w].ev
        BY <3>1, Busy
      <3>3. PICK p \in {"failed", "dead_letter"} :
               Writes(e, [row[e] EXCEPT !.procTries = row[e].procTries + 1, !.proc = p])
        BY <3>1, <3>2, FailsFacts
      <3>4. row'[e].deliv = row[e].deliv
        BY <1>1, <3>3 DEF Writes, RowRec
      <3>5. QED BY <3>3, <3>4 DEF Writes, Only, Marks
    <2>4. QED
      BY <1>2, <2>1, <2>2, <2>3 DEF Turn, Deduplicate, StartTurn, PersistReply, EndTurn,
         StartCommand, AnswerCommand
  <1>3. ASSUME NEW w \in Workers, Deliver(w)
        PROVE  \A e \in Events : Marks(e)
    <2>1. PICK e \in Events : e = worker[w].ev
      BY <1>3, Busy DEF Deliver, Link, Conclude, SendSegment, SendFails, ToSend, CountSegment,
                        FinishDelivery
    <2>2. CASE Link(w)
      BY <2>1, <2>2, LinkView DEF Marks
    <2>3. CASE Conclude(w)
      BY <2>1, <2>3, ConcludeView DEF Marks
    <2>4. CASE SendSegment(w)
      BY <2>4 DEF SendSegment, Marks
    <2>5. CASE CountSegment(w)
      BY <2>1, <2>5, CountSegmentView DEF Marks
    <2>6. CASE FinishDelivery(w)
      BY <2>1, <2>6, FinishDeliveryFacts DEF Writes, Only, Marks
    <2>7. ASSUME NEW fatal \in BOOLEAN, NEW posted \in BOOLEAN, SendFails(w, fatal, posted)
          PROVE  \A d \in Events : Marks(d)
      <3>1. PICK p \in {"failed", "dead_letter"} :
               Writes(e, [row[e] EXCEPT !.delivTries = row[e].delivTries + 1, !.deliv = p])
        BY <2>1, <2>7, SendFailsFacts
      <3>2. row'[e].deliv \in {"failed", "dead_letter"}
        BY <1>1, <3>1 DEF Writes, RowRec
      <3>3. QED BY <3>1, <3>2 DEF Writes, Only, Marks
    <2>8. QED BY <1>3, <2>2, <2>3, <2>4, <2>5, <2>6, <2>7 DEF Deliver
  <1>5. ASSUME NEW e \in Events,
               RecordInbound(e) \/ Handle(e) \/ Sweep(e) \/ ReplayDeadLetter(e)
        PROVE  \A d \in Events : Marks(d)
    <2>1. CASE row' = row
      BY <2>1 DEF Marks
    <2>2. CASE RecordInbound(e) \/ StorePayload(e)
      <3>1. \/ row' = [row EXCEPT ![e] = [row[e] EXCEPT !.proc = "pending"]]
            \/ row' = [row EXCEPT ![e] = [row[e] EXCEPT !.payload = TRUE]]
        BY <2>2 DEF RecordInbound, StorePayload
      <3>2. \/ row'[e] = [row[e] EXCEPT !.proc = "pending"]
            \/ row'[e] = [row[e] EXCEPT !.payload = TRUE]
        BY <3>1 DEF TypeInv, RowTable
      <3>3. row'[e].deliv = row[e].deliv
        BY <1>1, <3>2 DEF RowRec
      <3>4. \A d \in Events : d # e => row'[d] = row[d]
        BY <3>1 DEF TypeInv, RowTable
      <3>5. QED BY <3>3, <3>4 DEF Marks
    <2>3. CASE IngressBlocked(e) \/ SweepBlocked(e)
      <3>1. Writes(e, [row[e] EXCEPT !.payload = FALSE, !.proc = "processed"])
        BY <2>3, IngressBlockedFacts, SweepBlockedFacts
      <3>2. row'[e].deliv = row[e].deliv
        BY <1>1, <3>1 DEF Writes, RowRec
      <3>3. QED BY <3>1, <3>2 DEF Writes, Only, Marks
    <2>4. CASE SweepDefers(e)
      <3>1. Writes(e, [row[e] EXCEPT !.proc = "failed"])
        <4>1. row' = DeferRetryUntilIdle(row, e) /\ row \in RowTable
          BY <2>4 DEF SweepDefers, TypeInv
        <4>2. QED BY <4>1, DeferFacts DEF Writes
      <3>2. row'[e].deliv = row[e].deliv
        BY <1>1, <3>1 DEF Writes, RowRec
      <3>3. QED BY <3>1, <3>2 DEF Writes, Only, Marks
    <2>5. CASE SweepDelivers(e)
      <3>1. \/ Writes(e, [row[e] EXCEPT !.delivTries = row[e].delivTries + 1,
                                        !.deliv = "dead_letter"])
            \/ \E i \in Rows : Writes(e, [row[e] EXCEPT !.reply = i])
        BY <2>5, SweepDeliversFacts
      <3>2. row'[e].deliv \in {row[e].deliv, "dead_letter"} /\ Only(row, row', e)
        BY <1>1, <3>1 DEF Writes, RowRec
      <3>3. QED BY <3>2 DEF Only, Marks
    <2>6. CASE ReplayDeadLetter(e)
      <3>1. \/ Writes(e, [row[e] EXCEPT !.proc = "failed", !.procTries = 0])
            \/ Writes(e, [row[e] EXCEPT !.deliv = "failed", !.delivTries = 0])
        BY <2>6, ReplayFacts
      <3>2. row'[e].deliv \in {row[e].deliv, "failed"} /\ Only(row, row', e)
        BY <1>1, <3>1 DEF Writes, RowRec
      <3>3. QED BY <3>2 DEF Only, Marks
    <2>7. QED
      BY <1>5, <2>1, <2>2, <2>3, <2>4, <2>5, <2>6 DEF Handle, Sweep, Dispatch, SweepReplays
  <1>6. CASE RecoverOrphans \/ RecoverStranded
    <2> TAKE e \in Events
    <2>1. \/ row'[e] = row[e]
          \/ row'[e] = [row[e] EXCEPT !.proc = "failed"]
          \/ row'[e] = [row[e] EXCEPT !.deliv = "failed"]
      BY <1>6, RecoverOrphansFacts, RecoverStrandedFacts
    <2>2. row'[e].deliv \in {row[e].deliv, "failed"}
      BY <1>1, <2>1 DEF RowRec
    <2>3. QED BY <2>2 DEF Marks
  <1>7. CASE Crash
    BY <1>7, CrashView DEF Marks
  <1>8. CASE Admit \/ StartSweep \/ OtherTurnStarts \/ OtherTurnEnds \/ UNCHANGED vars
    BY <1>8 DEF Admit, StartSweep, OtherTurnStarts, OtherTurnEnds, vars, Marks
  <1>9. QED
    BY <1>2, <1>3, <1>5, <1>6, <1>7, <1>8 DEF Next

\* The delivery of a reply ends with all of it told.
LEMMA FinishTells ==
    ASSUME TypeInv, BoundInv, PhaseInv, LinkInv, UserInv, PostInv, NEW w \in Workers,
           FinishDelivery(w), Replying(worker[w]) # None
    PROVE  Told(source[worker[w].ev])
  <1>0. PICK e \in Events : e = worker[w].ev
    BY Busy DEF FinishDelivery
  <1>1. worker[w].at = "deliver" /\ ~(worker[w].seg < Segments)
    BY DEF FinishDelivery, ToSend
  <1>2. worker[w].seg = row[e].segs /\ Replying(worker[w]) = TurnOf(e)
    BY <1>0, <1>1 DEF UserInv, Knows
  <1>3. TurnOf(e) \in Rows /\ turns[TurnOf(e)].msg = source[e]
    BY <1>2, Ids DEF LinkInv, Links, TurnOf
  <1>4. \A s \in 1..Segments : s <= row[e].segs
    BY <1>1, <1>2, Ids, ChannelConstants
  <1>5. QED BY <1>0, <1>3, <1>4 DEF Told, PostInv, CountedIsOut

\* A promise to deliver is kept up until it is fulfilled.
LEMMA OwesLasts ==
    ASSUME TypeInv, BoundInv, PhaseInv, LinkInv, UserInv, PostInv, [Next]_vars,
           TypeInv', PhaseInv', Grows, NEW d \in Events, Owes(d)
    PROVE  Owes(d)' \/ Told(source[d])
  <1>1. row[d].deliv \in {"failed", "dead_letter"} /\ Marks(d)
    BY MarksStep DEF Owes
  <1>2. CASE \E w \in Workers : worker[w].ev = d /\ (FinishDelivery(w) \/ Conclude(w))
    <2>1. PICK w \in Workers : worker[w].ev = d /\ (FinishDelivery(w) \/ Conclude(w))
      BY <1>2
    <2>2. worker[w].at \in {"deliver", "sent"} /\ Replying(worker[w]) # None
      BY <2>1 DEF Owes, FinishDelivery, Conclude
    <2>3. FinishDelivery(w)
      BY <2>1, <2>2 DEF Conclude
    <2>4. QED BY <2>1, <2>2, <2>3, FinishTells
  <1>3. CASE row'[d].deliv \in {"failed", "dead_letter"}
    <2> SUFFICES ASSUME NEW x \in Workers, worker'[x].at # "idle", worker'[x].ev = d
                 PROVE  worker'[x].at \in {"deliver", "sent"} /\ Replying(worker[x])' # None
      BY <1>3 DEF Owes
    <2>1. worker'[x].at \in {"marking", "deliver", "sent"}
      <3>1. row'[d].proc = "processed"
        BY <1>3 DEF PhaseInv, RowInv
      <3>2. worker'[x].at \notin Pre
        <4>1. CASE x = "live"
          BY <3>1, <4>1 DEF PhaseInv, LiveInv
        <4>2. CASE x = "sweep"
          BY <3>1, <4>2 DEF PhaseInv, SweepInv
        <4>3. QED BY <4>1, <4>2 DEF Workers
      <3>3. worker'[x] \in WorkerRec
        BY DEF TypeInv
      <3>4. QED BY <3>2, <3>3 DEF WorkerRec
    <2>2. CASE worker'[x].at = "deliver" /\ worker'[x].reply # None
      BY <2>2 DEF Replying
    <2>3. CASE /\ worker[x].at # "idle" /\ worker'[x].ev = worker[x].ev
               /\ worker'[x].user = worker[x].user /\ worker'[x].reply = worker[x].reply
               /\ worker'[x].at = "marking" => worker[x].at \in {"returned", "marking"}
      <3>1. worker[x].at \in {"deliver", "sent"} /\ Replying(worker[x]) # None
        BY <2>3 DEF Owes
      <3>2. Replying(worker[x])' # None
        BY <2>3, <3>1, Ids DEF Replying, Grows
      <3>3. QED BY <2>1, <2>3, <3>1, <3>2
    <2>4. QED BY <2>1, <2>2, <2>3 DEF Grows, Flow
  <1>4. QED BY <1>1, <1>2, <1>3 DEF Marks

\* Nobody owes what a worker is still keeping the books of.
LEMMA BookkeeperOwesNothing ==
    ASSUME NEW w \in Workers, worker[w].at = "marking"
    PROVE  ~Owes(worker[w].ev)
  BY DEF Owes

\* The other half of DeliveredIsComplete, for the event whose status changes.
LEMMA DoneNow ==
    ASSUME TypeInv, BoundInv, PhaseInv, LinkInv, UserInv, PostInv, DoneInv, [Next]_vars,
           NEW e \in Events, row[e].deliv # "delivered", row'[e].deliv = "delivered",
           row'[e].message # None, turns'[row'[e].message].replied
    PROVE  Told(source[e]) \/ \E d \in Siblings(e) \ {e} : Owes(d)
  <1>1. PICK w \in Workers : worker[w].ev = e /\ (FinishDelivery(w) \/ Conclude(w))
    BY MarksStep DEF Marks
  <1>2. CASE FinishDelivery(w)
    <2>1. row'[e].message = row[e].message /\ turns' = turns /\ worker[w].at = "deliver"
      <3>1. row'[e] = [row[e] EXCEPT !.deliv = "delivered"]
        BY <1>1, <1>2, FinishDeliveryFacts DEF Writes
      <3>2. row[e] \in RowRec
        BY DEF TypeInv, RowTable
      <3>3. QED BY <1>2, <3>1, <3>2 DEF RowRec, FinishDelivery
    <2>2. worker[w].user = row[e].message
      BY <1>1, <2>1 DEF UserInv, Knows
    <2>3. Replying(worker[w]) # None
      BY <2>1, <2>2 DEF Replying
    <2>4. QED BY <1>1, <1>2, <2>3, FinishTells
  <1>3. CASE Conclude(w)
    <2>1. /\ worker[w].at = "marking" /\ row'[e].message = row[e].message
          /\ OwnedBySibling(row, worker[w].user, e) /\ UNCHANGED << turns, source >>
      BY <1>1, <1>3, ConcludeView
    <2>2. worker[w].user = row[e].message /\ turns[worker[w].user].msg = source[e]
      BY <1>1, <2>1 DEF UserInv, Knows
    <2>3. PICK s \in Events \ {e} : row[s].message = worker[w].user /\ row[s].deliv \in Terminal
      BY <2>1 DEF OwnedBySibling
    <2>4. source[s] = source[e] /\ turns[row[s].message].replied /\ row[s].message # None
      BY <2>1, <2>2, <2>3 DEF LinkInv, Links
    <2>5. CASE row[s].deliv = "delivered"
      <3>1. Told(source[s]) \/ \E d \in Siblings(s) \ {s} : Owes(d)
        BY <2>4, <2>5 DEF DoneInv
      <3>2. ~Owes(e)
        BY <1>1, <2>1, BookkeeperOwesNothing
      <3>3. QED BY <2>4, <3>1, <3>2 DEF Siblings
    <2>6. CASE row[s].deliv \in {"failed", "dead_letter"}
      <3>1. ASSUME NEW x \in Workers, worker[x].at # "idle", worker[x].ev = s
            PROVE  worker[x].at \in {"deliver", "sent"} /\ Replying(worker[x]) # None
        <4>1. row[s].proc = "processed"
          BY <2>6 DEF PhaseInv, RowInv
        <4>2. worker[x].at \notin Pre
          <5>1. CASE x = "live"
            BY <3>1, <4>1, <5>1 DEF PhaseInv, LiveInv
          <5>2. CASE x = "sweep"
            BY <3>1, <4>1, <5>2 DEF PhaseInv, SweepInv
          <5>3. QED BY <5>1, <5>2 DEF Workers
        <4>3. x # w /\ worker[x].at # "marking"
          BY <1>1, <2>1, <3>1 DEF PhaseInv, ApartInv, Workers
        <4>4. worker[x].at \in {"deliver", "sent"}
          BY <3>1, <4>2, <4>3 DEF TypeInv, WorkerRec
        <4>5. worker[x].user = row[s].message
          BY <3>1, <4>4 DEF UserInv, Knows
        <4>6. QED BY <2>4, <4>4, <4>5 DEF Replying
      <3>2. Owes(s)
        BY <2>6, <3>1 DEF Owes
      <3>3. QED BY <2>4, <3>2 DEF Siblings
    <2>7. QED BY <2>3, <2>5, <2>6 DEF Terminal, DelivStatuses
  <1>4. QED BY <1>1, <1>2, <1>3

LEMMA DoneStep ==
    ASSUME TypeInv, BoundInv, PhaseInv, LinkInv, UserInv, PostInv, DoneInv, [Next]_vars,
           TypeInv', PhaseInv'
    PROVE  DoneInv'
  <1>1. Grows
    BY GrowsStep
  <1> SUFFICES ASSUME NEW e \in Events, row'[e].deliv = "delivered", row'[e].message # None,
                      turns'[row'[e].message].replied
               PROVE  Told(source[e])' \/ \E d \in Siblings(e)' \ {e} : Owes(d)'
    BY DEF DoneInv
  <1>2. Told(source[e]) \/ \E d \in Siblings(e) \ {e} : Owes(d)
    <2>1. CASE row[e].deliv = "delivered"
      BY <1>1, <2>1 DEF Grows, DoneInv
    <2>2. CASE row[e].deliv # "delivered"
      BY <2>2, DoneNow
    <2>3. QED BY <2>1, <2>2
  <1>3. source' = source /\ Siblings(e)' = Siblings(e)
    BY <1>1 DEF Grows, Siblings
  <1>5. Told(source[e])' <=> \E i \in Rows' : /\ turns'[i].msg = source'[e]
                                              /\ \A s \in 1..Segments : turns'[i].posted[s] > 0
    BY DEF Told
  <1>6. CASE Told(source[e])
    <2>1. PICK i \in Rows : /\ turns[i].msg = source[e]
                            /\ \A s \in 1..Segments : turns[i].posted[s] > 0
      BY <1>6 DEF Told
    <2>2. QED BY <1>1, <1>5, <2>1 DEF Grows
  <1>7. ASSUME NEW d \in Siblings(e) \ {e}, Owes(d)
        PROVE  Told(source[e])' \/ \E c \in Siblings(e)' \ {e} : Owes(c)'
    <2>1. d \in Events /\ source[d] = source[e]
      BY DEF Siblings
    <2>2. Owes(d)' \/ Told(source[d])
      BY <1>1, <1>7, <2>1, OwesLasts
    <2>3. CASE Owes(d)'
      BY <1>3, <2>3
    <2>4. CASE Told(source[d])
      <3>1. PICK i \in Rows : /\ turns[i].msg = source[e]
                              /\ \A s \in 1..Segments : turns[i].posted[s] > 0
        BY <2>1, <2>4 DEF Told
      <3>2. QED BY <1>1, <1>5, <3>1 DEF Grows
    <2>5. QED BY <2>2, <2>3, <2>4
  <1>8. QED BY <1>2, <1>6, <1>7

-----------------------------------------------------------------------------
(* The theorems.                                                           *)

ReplyInv == KeyInv /\ LinkInv /\ UserInv /\ PostInv /\ DoneInv

LEMMA ReplyInit == Init => ReplyInv
  <1> SUFFICES ASSUME Init
               PROVE  ReplyInv
    OBVIOUS
  <1>1. Rows = {} /\ \A w \in Workers : worker[w] = Resting
    BY DEF Init, Rows
  <1>2. \A w \in Workers : worker[w].at = "idle" /\ worker[w].user = None /\ worker[w].reply = None
    BY <1>1, RestingZero DEF None
  <1>3. \A e \in Events : /\ row[e].message = None /\ row[e].reply = None /\ row[e].segs = 0
                          /\ row[e].deliv = "pending"
    BY DEF Init, NewRow
  <1>4. batch.deliv = {}
    BY DEF Init, NoBatch
  <1>5. KeyInv
    BY <1>1, <1>2 DEF KeyInv
  <1>6. LinkInv
    BY <1>3, <1>4 DEF LinkInv, Links
  <1>7. UserInv
    BY <1>2 DEF UserInv, Knows, Underway
  <1>8. PostInv
    <2>1. \A e \in Events : CountedIsOut(e) /\ OnRecord(e)
      BY <1>1, <1>3 DEF CountedIsOut, OnRecord
    <2>2. QED BY <1>1, <1>2, <2>1 DEF PostInv, SentIsOut
  <1>9. DoneInv
    BY <1>3 DEF DoneInv
  <1>10. QED BY <1>5, <1>6, <1>7, <1>8, <1>9 DEF ReplyInv

LEMMA ReplyInductive == Spec => [](TypeInv /\ BoundInv /\ PhaseInv /\ ReplyInv)
  <1>1. Init => TypeInv /\ BoundInv /\ PhaseInv /\ ReplyInv
    BY TypeInit, PhaseInit, ReplyInit
  <1>2. TypeInv /\ BoundInv /\ PhaseInv /\ ReplyInv /\ [Next]_vars
          => (TypeInv /\ BoundInv /\ PhaseInv /\ ReplyInv)'
    <2> SUFFICES ASSUME TypeInv, BoundInv, PhaseInv, ReplyInv, [Next]_vars
                 PROVE  (TypeInv /\ BoundInv /\ PhaseInv /\ ReplyInv)'
      OBVIOUS
    <2>1. (TypeInv /\ BoundInv /\ PhaseInv)'
      BY TypeStep, PhaseStep
    <2>2. KeyInv'
      BY KeyStep DEF ReplyInv
    <2>3. LinkInv' /\ UserInv'
      BY UserStep DEF ReplyInv
    <2>4. PostInv'
      BY PostStep DEF ReplyInv
    <2>5. DoneInv'
      BY <2>1, DoneStep DEF ReplyInv
    <2>6. QED BY <2>1, <2>2, <2>3, <2>4, <2>5 DEF ReplyInv
  <1>3. QED BY <1>1, <1>2, PTL DEF Spec

LEMMA OneEvent ==
    ASSUME NEW m, Cardinality({e \in Events : source[e] = m}) = 1
    PROVE  \E e \in Events : source[e] = m /\ Siblings(e) = {e}
  <1> DEFINE S == {e \in Events : source[e] = m}
  <1>1. IsFiniteSet(S)
    BY ChannelConstants, FS_Subset
  <1>2. PICK e : S = {e}
    BY <1>1, FS_Singleton
  <1>3. QED BY <1>2 DEF Siblings

\* The channel sees a reply as it was written, whatever crashes, failed
\* callbacks, retries and siblings come in between: no segment before the one
\* it follows, and, for a message that one event announces, none more often
\* than the callback failures and crashes that ate its record explain
\* (deliverReplyViaCallback, updateDeliveredSegmentCount, the resumption of
\* the retry sweep).
THEOREM RepliesArePostedInOrder == Spec => []PostedInOrderOnce
  <1>1. TypeInv /\ BoundInv /\ ReplyInv => PostedInOrderOnce
    <2> SUFFICES ASSUME TypeInv, ReplyInv, NEW i \in Rows, NEW s \in 1..Segments
                 PROVE  /\ turns[i].posted[s] > 0 /\ s > 1 => turns[i].posted[s - 1] > 0
                        /\ Cardinality({e \in Events : source[e] = turns[i].msg}) = 1
                               => turns[i].posted[s] <= 1 + turns[i].excused[s]
      BY DEF PostedInOrderOnce
    <2>1. turns[i].posted[s] > 0 /\ s > 1 => turns[i].posted[s - 1] > 0
      BY DEF ReplyInv, PostInv, InOrder
    <2>2. ASSUME Cardinality({e \in Events : source[e] = turns[i].msg}) = 1
          PROVE  turns[i].posted[s] <= 1 + turns[i].excused[s]
      <3>1. PICK e \in Events : source[e] = turns[i].msg /\ Siblings(e) = {e}
        BY <2>2, OneEvent
      <3>2. turns[i].posted[s] <= turns[i].excused[s] + IF Credit(e, i, s) THEN 1 ELSE 0
        BY <3>1 DEF ReplyInv, PostInv, OnRecord
      <3>3. QED BY <3>2, Counters
    <2>3. QED BY <2>1, <2>2
  <1>2. QED BY <1>1, ReplyInductive, PTL

\* An answer is settled only when it has been told: no order of crashes,
\* failures, deduplicated siblings and retries leaves an event marked delivered
\* while a reply its turn wrote was never posted in full and no sibling still
\* owes it (markDeliveryDelivered; the ownership question of a deduplicated
\* event).
THEOREM DeliveredMeansTold == Spec => []DeliveredIsComplete
  <1>1. ReplyInv => DeliveredIsComplete
    BY DEF ReplyInv, DoneInv, DeliveredIsComplete, Told, Owes
  <1>2. QED BY <1>1, ReplyInductive, PTL

-----------------------------------------------------------------------------
(* How many turns answer a message.                                        *)

\* An event whose turn has its reply, on record or in a worker's hands.
Answered(e) ==
    \/ row[e].proc = "processed"
    \/ \E w \in Workers : /\ worker[w].at \in {"replied", "returned", "marking"}
                          /\ worker[w].ev = e /\ worker[w].reply # None

EventsOf(m) == {e \in Events : source[e] = m}

AnsweredEvents(m) == {e \in EventsOf(m) : Answered(e)}

\* The key of the message will be recognised as answered.
Recognised(m) == \E i \in KeyedRow(m) : turns[i].replied

\* Every reply has an event that will not ask for another, or was forgotten;
\* unless the key stands for it.
AnswerInv ==
    /\ rework \in [Messages -> Nat]
    /\ \A i \in Rows : EventsOf(turns[i].msg) # {}
    /\ \A m \in Messages :
          Recognised(m) \/ Cardinality(RepliedRows(m)) <= rework[m] + Cardinality(AnsweredEvents(m))

\* The steps that forget an answered turn.
Forgets == Crash \/ \E w \in Workers, fatal \in BOOLEAN : BoundaryThrows(w, fatal)

LEMMA ReworkKept ==
    ASSUME [Next]_vars, ~Forgets
    PROVE  rework' = rework
  <1>1. ASSUME NEW e \in Events, RecordInbound(e) \/ Handle(e) \/ Sweep(e) \/ ReplayDeadLetter(e)
        PROVE  rework' = rework
    BY <1>1 DEF RecordInbound, Handle, StorePayload, IngressBlocked, Dispatch, Sweep,
                SweepBlocked, SweepDefers, SweepReplays, SweepDelivers, ReplayDeadLetter
  <1>2. ASSUME NEW w \in Workers, Turn(w)
        PROVE  rework' = rework
    BY <1>2 DEF Forgets, Turn, HitBusy, Deduplicate, StartTurn, PersistReply, EndTurn,
                StartCommand, AnswerCommand, Throws, FailEarly, BreakTurn, BreakCommand
  <1>3. ASSUME NEW w \in Workers, Deliver(w)
        PROVE  rework' = rework
    BY <1>3 DEF Deliver, Link, Conclude, SendSegment, SendFails, CountSegment, FinishDelivery
  <1>4. CASE Admit \/ StartSweep \/ OtherTurnStarts \/ OtherTurnEnds
               \/ RecoverOrphans \/ RecoverStranded \/ UNCHANGED vars
    BY <1>4 DEF Admit, StartSweep, OtherTurnStarts, OtherTurnEnds, RecoverOrphans,
                RecoverStranded, vars
  <1>5. QED BY <1>1, <1>2, <1>3, <1>4 DEF Next, Forgets

LEMMA ProcessedStays ==
    ASSUME TypeInv, BoundInv, PhaseInv, [Next]_vars, NEW e \in Events, row[e].proc = "processed"
    PROVE  row'[e].proc = "processed"
  <1>1. \A d \in Events : row[d] \in RowRec
    BY DEF TypeInv, RowTable
  <1>2. CASE row' = row
    BY <1>2
  <1>3. ASSUME NEW w \in Workers, Turn(w)
        PROVE  row'[e].proc = "processed"
    <2>1. CASE HitBusy(w) \/ \E fatal \in BOOLEAN : Throws(w, fatal)
      <3>1. worker[w].at \in Pre /\ worker[w].at # "idle"
        BY <2>1 DEF HitBusy, Throws, FailEarly, BreakTurn, BreakCommand, BoundaryThrows, Pre
      <3>2. worker[w].ev \in Events /\ row[worker[w].ev].proc # "processed"
        BY <3>1, Busy
      <3>3. Only(row, row', worker[w].ev)
        <4>1. CASE HitBusy(w)
          BY <4>1, HitBusyFacts DEF Writes
        <4>2. ASSUME NEW fatal \in BOOLEAN, Throws(w, fatal)
              PROVE  Only(row, row', worker[w].ev)
          BY <3>1, <4>2, FailsFacts DEF Writes, Throws, FailEarly, BreakTurn, BreakCommand, BoundaryThrows
        <4>3. QED BY <2>1, <4>1, <4>2
      <3>4. QED BY <3>2, <3>3 DEF Only
    <2>2. QED
      BY <1>2, <1>3, <2>1 DEF Turn, Deduplicate, StartTurn, PersistReply, EndTurn,
         StartCommand, AnswerCommand
  <1>4. ASSUME NEW w \in Workers, Deliver(w)
        PROVE  row'[e].proc = "processed"
    <2>1. PICK d \in Events : d = worker[w].ev
      BY <1>4, Busy DEF Deliver, Link, Conclude, SendSegment, SendFails, ToSend, CountSegment,
                        FinishDelivery
    <2>2. CASE Link(w)
      BY <2>1, <2>2, LinkView
    <2>3. CASE Conclude(w)
      BY <2>1, <2>3, ConcludeView
    <2>4. CASE CountSegment(w)
      BY <2>1, <2>4, CountSegmentView
    <2>5. CASE FinishDelivery(w)
      <3>1. Writes(d, [row[d] EXCEPT !.deliv = "delivered"])
        BY <2>1, <2>5, FinishDeliveryFacts
      <3>2. row'[d].proc = row[d].proc
        BY <1>1, <3>1 DEF Writes, RowRec
      <3>3. QED BY <3>1, <3>2 DEF Writes, Only
    <2>6. ASSUME NEW fatal \in BOOLEAN, NEW posted \in BOOLEAN, SendFails(w, fatal, posted)
          PROVE  row'[e].proc = "processed"
      <3>1. PICK p \in {"failed", "dead_letter"} :
               Writes(d, [row[d] EXCEPT !.delivTries = row[d].delivTries + 1, !.deliv = p])
        BY <2>1, <2>6, SendFailsFacts
      <3>2. row'[d].proc = row[d].proc
        BY <1>1, <3>1 DEF Writes, RowRec
      <3>3. QED BY <3>1, <3>2 DEF Writes, Only
    <2>7. QED BY <1>2, <1>4, <2>2, <2>3, <2>4, <2>5, <2>6 DEF Deliver, SendSegment
  <1>5. ASSUME NEW d \in Events,
               RecordInbound(d) \/ Handle(d) \/ Sweep(d) \/ ReplayDeadLetter(d)
        PROVE  row'[e].proc = "processed"
    <2>1. CASE RecordInbound(d) \/ StorePayload(d)
      <3>1. \/ row' = [row EXCEPT ![d] = [row[d] EXCEPT !.proc = "pending"]] /\ row[d].proc = "absent"
            \/ row' = [row EXCEPT ![d] = [row[d] EXCEPT !.payload = TRUE]]
        BY <2>1 DEF RecordInbound, IsDuplicate, StorePayload
      <3>2. row \in RowTable /\ row[d] \in RowRec
        BY <1>1 DEF TypeInv
      <3>3. CASE e # d
        BY <3>1, <3>2, <3>3 DEF RowTable
      <3>4. CASE e = d
        <4>1. row'[d] = [row[d] EXCEPT !.payload = TRUE]
          BY <3>1, <3>2, <3>4 DEF RowTable
        <4>2. QED BY <3>2, <3>4, <4>1 DEF RowRec
      <3>5. QED BY <3>3, <3>4
    <2>2. CASE IngressBlocked(d) \/ SweepBlocked(d)
      <3>1. Writes(d, [row[d] EXCEPT !.payload = FALSE, !.proc = "processed"])
        BY <2>2, IngressBlockedFacts, SweepBlockedFacts
      <3>2. row'[d].proc = "processed"
        BY <1>1, <3>1 DEF Writes, RowRec
      <3>3. QED BY <3>1, <3>2 DEF Writes, Only
    <2>3. CASE SweepDefers(d)
      <3>1. Only(row, row', d)
        <4>1. row' = DeferRetryUntilIdle(row, d) /\ row \in RowTable
          BY <2>3 DEF SweepDefers, TypeInv
        <4>2. QED BY <4>1, DeferFacts
      <3>2. row[d].proc = "failed"
        BY <2>3 DEF SweepDefers, NextReplay, PhaseInv, RowInv
      <3>3. QED BY <3>1, <3>2 DEF Only
    <2>4. CASE SweepDelivers(d)
      <3>1. \/ Writes(d, [row[d] EXCEPT !.delivTries = row[d].delivTries + 1,
                                        !.deliv = "dead_letter"])
            \/ \E i \in Rows : Writes(d, [row[d] EXCEPT !.reply = i])
        BY <2>4, SweepDeliversFacts
      <3>2. row'[d].proc = row[d].proc /\ Only(row, row', d)
        BY <1>1, <3>1 DEF Writes, RowRec
      <3>3. QED BY <3>2 DEF Only
    <2>5. CASE ReplayDeadLetter(d)
      <3>1. \/ row[d].proc = "dead_letter" /\ Only(row, row', d)
            \/ Writes(d, [row[d] EXCEPT !.deliv = "failed", !.delivTries = 0])
        BY <2>5, ReplayFacts DEF Writes
      <3>2. (row[d].proc = "dead_letter" \/ row'[d].proc = row[d].proc) /\ Only(row, row', d)
        BY <1>1, <3>1 DEF Writes, RowRec
      <3>3. QED BY <3>2 DEF Only
    <2>6. QED
      BY <1>2, <1>5, <2>1, <2>2, <2>3, <2>4, <2>5 DEF Handle, Sweep, Dispatch, SweepReplays
  <1>6. CASE RecoverOrphans \/ RecoverStranded
    <2>1. row'[e] = row[e] \/ row'[e] = [row[e] EXCEPT !.deliv = "failed"]
      BY <1>6, RecoverOrphansFacts, RecoverStrandedFacts
    <2>2. QED BY <1>1, <2>1 DEF RowRec
  <1>7. CASE Crash
    BY <1>7, CrashView
  <1>8. CASE Admit \/ StartSweep \/ OtherTurnStarts \/ OtherTurnEnds \/ UNCHANGED vars
    BY <1>2, <1>8 DEF Admit, StartSweep, OtherTurnStarts, OtherTurnEnds, vars
  <1>9. QED
    BY <1>3, <1>4, <1>5, <1>6, <1>7, <1>8 DEF Next

LEMMA AnswerSets ==
    ASSUME TypeInv
    PROVE  \A m : /\ IsFiniteSet(EventsOf(m)) /\ IsFiniteSet(AnsweredEvents(m))
                  /\ IsFiniteSet(RepliedRows(m))
                  /\ Cardinality(EventsOf(m)) \in Nat /\ Cardinality(AnsweredEvents(m)) \in Nat
                  /\ Cardinality(RepliedRows(m)) \in Nat
                  /\ Cardinality(AnsweredEvents(m)) <= Cardinality(EventsOf(m))
  <1> TAKE m
  <1>1. IsFiniteSet(EventsOf(m))
    BY ChannelConstants, FS_Subset DEF EventsOf
  <1>2. /\ IsFiniteSet(AnsweredEvents(m))
        /\ Cardinality(AnsweredEvents(m)) <= Cardinality(EventsOf(m))
    BY <1>1, FS_Subset DEF AnsweredEvents
  <1>3. IsFiniteSet(RepliedRows(m))
    <2>1. Len(turns) \in Nat
      BY DEF TypeInv
    <2>2. IsFiniteSet(Rows)
      BY <2>1, FS_Interval DEF Rows
    <2>3. QED BY <2>2, FS_Subset DEF RepliedRows
  <1>4. QED BY <1>1, <1>2, <1>3, FS_CardinalityType

\* A step that answers nothing and forgets nothing.
LEMMA AnswerKept ==
    ASSUME TypeInv, TypeInv', AnswerInv, rework' = rework, source' = source,
           \A e \in Events : Answered(e) => Answered(e)',
           \A i \in Rows' : EventsOf(turns[i].msg)' # {},
           NEW m \in Messages, Recognised(m) => Recognised(m)',
           RepliedRows(m)' = RepliedRows(m)
    PROVE  \/ Recognised(m)'
           \/ Cardinality(RepliedRows(m)') <= rework'[m] + Cardinality(AnsweredEvents(m)')
  <1>1. AnsweredEvents(m) \subseteq AnsweredEvents(m)'
    BY DEF AnsweredEvents, EventsOf
  <1>2. IsFiniteSet(AnsweredEvents(m)')
    <2>1. AnsweredEvents(m)' \subseteq Events
      BY DEF AnsweredEvents, EventsOf
    <2>2. QED BY <2>1, ChannelConstants, FS_Subset
  <1>3. Cardinality(AnsweredEvents(m)) <= Cardinality(AnsweredEvents(m)')
    BY <1>1, <1>2, FS_Subset
  <1>4. /\ Cardinality(AnsweredEvents(m)) \in Nat /\ Cardinality(AnsweredEvents(m)') \in Nat
        /\ Cardinality(RepliedRows(m)) \in Nat /\ rework[m] \in Nat
    BY <1>2, AnswerSets, FS_CardinalityType DEF AnswerInv
  <1>5. Recognised(m) \/ Cardinality(RepliedRows(m)) <= rework[m] + Cardinality(AnsweredEvents(m))
    BY DEF AnswerInv
  <1>6. QED BY <1>3, <1>4, <1>5

\* A worker with a reply in hand goes on to its bookkeeping, or throws.
LEMMA LetsGo ==
    ASSUME TypeInv, BoundInv, PhaseInv, [Next]_vars, ~Crash, NEW w \in Workers,
           worker[w].at \in {"replied", "returned", "marking"}, ~(worker'[w] = worker[w])
    PROVE  \/ EndTurn(w) \/ Link(w) \/ Conclude(w)
           \/ \E fatal \in BOOLEAN : BoundaryThrows(w, fatal)
  <1>1. \A x \in Workers : worker[x] \in WorkerRec
    BY DEF TypeInv
  <1>2. ASSUME NEW e \in Events, RecordInbound(e) \/ Handle(e) \/ Sweep(e) \/ ReplayDeadLetter(e)
        PROVE  FALSE
    <2>1. worker' # worker
      OBVIOUS
    <2>2. SweepReplays(e) \/ SweepDelivers(e)
      BY <1>2, <2>1 DEF RecordInbound, Handle, StorePayload, IngressBlocked, Dispatch, Sweep,
         SweepBlocked, SweepDefers, ReplayDeadLetter
    <2>3. worker["sweep"].at = "idle" /\ Alone("sweep")
      <3>1. CASE SweepReplays(e)
        <4>1. worker["sweep"].at = "idle"
          BY <3>1 DEF SweepReplays, NextReplay
        <4>2. worker' = [worker EXCEPT !["sweep"] = [Resting EXCEPT !.at = "start", !.ev = e]]
          BY <3>1 DEF SweepReplays
        <4>3. QED BY <4>1, <4>2 DEF TypeInv, Alone
      <3>2. CASE SweepDelivers(e)
        BY <2>1, <3>2, SweepDeliversView
      <3>3. QED BY <2>2, <3>1, <3>2
    <2>4. QED BY <2>3 DEF Alone
  <1>3. ASSUME NEW x \in Workers, Turn(x) \/ Deliver(x), x # w
        PROVE  FALSE
    <2>1. worker' = [worker EXCEPT ![x] = worker'[x]]
      <3>1. CASE Turn(x)
        BY <1>1, <1>3, <3>1 DEF Turn, HitBusy, Deduplicate, StartTurn, PersistReply, EndTurn,
           StartCommand, AnswerCommand, Throws, FailEarly, BreakTurn, BreakCommand,
           BoundaryThrows, Fails, Rest, TypeInv
      <3>2. CASE Deliver(x)
        BY <1>1, <1>3, <3>2 DEF Deliver, Link, Conclude, SendSegment, SendFails, CountSegment,
           FinishDelivery, Rest, TypeInv
      <3>3. QED BY <1>3, <3>1, <3>2
    <2>2. QED BY <1>3, <2>1 DEF TypeInv
  <1>4. CASE Turn(w)
    BY <1>4 DEF Turn, HitBusy, Deduplicate, StartTurn, PersistReply, StartCommand,
       AnswerCommand, Throws, FailEarly, BreakTurn, BreakCommand
  <1>5. CASE Deliver(w)
    BY <1>5 DEF Deliver, SendSegment, SendFails, ToSend, CountSegment, FinishDelivery
  <1>6. CASE Admit
    <2>1. worker["live"].at = "idle" /\ \A x \in Workers : x # "live" => worker'[x] = worker[x]
      BY <1>6 DEF Admit, TypeInv
    <2>2. QED BY <2>1
  <1>7. CASE StartSweep \/ OtherTurnStarts \/ OtherTurnEnds
               \/ RecoverOrphans \/ RecoverStranded \/ UNCHANGED vars
    BY <1>7 DEF StartSweep, OtherTurnStarts, OtherTurnEnds, RecoverOrphans,
                RecoverStranded, vars
  <1>8. QED BY <1>2, <1>3, <1>4, <1>5, <1>6, <1>7 DEF Next

LEMMA AnsweredLasts ==
    ASSUME TypeInv, BoundInv, PhaseInv, [Next]_vars, ~Crash, NEW e \in Events, Answered(e),
           \A w \in Workers, fatal \in BOOLEAN : BoundaryThrows(w, fatal) => worker[w].ev # e
    PROVE  Answered(e)'
  <1>1. CASE row[e].proc = "processed"
    BY <1>1, ProcessedStays DEF Answered
  <1>2. ASSUME NEW w \in Workers, worker[w].at \in {"replied", "returned", "marking"},
               worker[w].ev = e, worker[w].reply # None
        PROVE  Answered(e)'
    <2>1. CASE worker'[w] = worker[w]
      BY <1>2, <2>1 DEF Answered
    <2>2. CASE EndTurn(w)
      BY <1>2, <2>2, EndTurnView DEF Answered
    <2>3. CASE Link(w)
      BY <1>2, <2>3, LinkView DEF Answered
    <2>4. CASE Conclude(w)
      BY <1>2, <2>4, ConcludeView DEF Answered
    <2>5. QED BY <1>2, <2>1, <2>2, <2>3, <2>4, LetsGo
  <1>3. QED BY <1>1, <1>2 DEF Answered

LEMMA RecognisedLasts ==
    ASSUME NEW m, Recognised(m), Rows \subseteq Rows',
           \A i \in Rows : /\ turns'[i].msg = turns[i].msg /\ turns'[i].keyed = turns[i].keyed
                           /\ turns[i].replied => turns'[i].replied
    PROVE  Recognised(m)'
  BY DEF Recognised, KeyedRow

LEMMA AnswerTame ==
    ASSUME TypeInv, BoundInv, PhaseInv, TypeInv', AnswerInv, [Next]_vars, ~Forgets,
           source' = source, SameTurns
    PROVE  AnswerInv'
  <1>1. Rows' = Rows
    BY SameRows DEF SameTurns
  <1>2. rework' = rework
    BY ReworkKept
  <1>3. \A m : EventsOf(m)' = EventsOf(m)
    BY DEF EventsOf
  <1>4. ASSUME NEW i \in Rows'
        PROVE  EventsOf(turns[i].msg)' # {}
    <2>1. EventsOf(turns[i].msg)' = EventsOf(turns[i].msg)
      BY <1>1 DEF EventsOf, SameTurns
    <2>2. QED BY <1>1, <2>1 DEF AnswerInv
  <1>5. ASSUME NEW m \in Messages
        PROVE  \/ Recognised(m)'
               \/ Cardinality(RepliedRows(m)') <= rework'[m] + Cardinality(AnsweredEvents(m)')
    <2>1. RepliedRows(m)' = RepliedRows(m)
      BY <1>1 DEF RepliedRows, SameTurns
    <2>2. Recognised(m) => Recognised(m)'
      BY <1>1, RecognisedLasts DEF SameTurns
    <2>3. QED BY <1>2, <1>4, <2>1, <2>2, AnsweredLasts, AnswerKept DEF Forgets
  <1>6. QED BY <1>2, <1>4, <1>5 DEF AnswerInv

LEMMA AnswerOpens ==
    ASSUME TypeInv, BoundInv, PhaseInv, TypeInv', AnswerInv, [Next]_vars, ~Forgets,
           NEW w \in Workers, Opens(w)
    PROVE  AnswerInv'
  <1> DEFINE n == Len(turns) + 1
  <1>1. /\ Len(turns') = n /\ \A i \in Rows : turns'[i] = turns[i]
        /\ turns'[n].msg = source[worker[w].ev] /\ turns'[n].replied = FALSE
        /\ worker[w].ev \in Events /\ source' = source
    BY OpenView
  <1>2. Rows' = Rows \cup {n} /\ n \notin Rows
    <2>1. Len(turns) \in Nat
      BY DEF TypeInv
    <2>2. QED BY <1>1, <2>1 DEF Rows
  <1> HIDE DEF n
  <1>3. rework' = rework
    BY ReworkKept
  <1>4. ASSUME NEW i \in Rows'
        PROVE  EventsOf(turns[i].msg)' # {}
    <2>1. CASE i \in Rows
      <3>1. EventsOf(turns[i].msg)' = EventsOf(turns[i].msg)
        BY <1>1, <2>1 DEF EventsOf
      <3>2. QED BY <2>1, <3>1 DEF AnswerInv
    <2>2. CASE i = n
      <3>1. worker[w].ev \in EventsOf(turns[i].msg)'
        BY <1>1, <2>2 DEF EventsOf
      <3>2. QED BY <3>1
    <2>3. QED BY <1>2, <2>1, <2>2
  <1>5. ASSUME NEW m \in Messages
        PROVE  \/ Recognised(m)'
               \/ Cardinality(RepliedRows(m)') <= rework'[m] + Cardinality(AnsweredEvents(m)')
    <2>1. RepliedRows(m)' = RepliedRows(m)
      BY <1>1, <1>2 DEF RepliedRows
    <2>2. Recognised(m) => Recognised(m)'
      BY <1>1, <1>2, RecognisedLasts
    <2>3. QED BY <1>1, <1>3, <1>4, <2>1, <2>2, AnsweredLasts, AnswerKept DEF Forgets
  <1>6. QED BY <1>3, <1>4, <1>5 DEF AnswerInv

LEMMA AnswerCloses ==
    ASSUME TypeInv, BoundInv, PhaseInv, TypeInv', UserInv, AnswerInv, [Next]_vars, ~Forgets,
           NEW w \in Workers, Closes(w)
    PROVE  AnswerInv'
  <1>0. PICK d \in Events : d = worker[w].ev
    BY CloseView
  <1>a. PICK u \in Rows : u = worker[w].user
    BY CloseView, Ids DEF UserInv, Knows, Underway
  <1>1. /\ worker[w].at \in Underway /\ worker'[w].at \in {"replied", "returned"}
        /\ worker'[w].reply = u
        /\ worker'[w].ev = d /\ Len(turns') = Len(turns)
        /\ \A i \in Rows : /\ turns'[i].msg = turns[i].msg /\ turns'[i].keyed = turns[i].keyed
                           /\ turns'[i].replied = IF i = u THEN TRUE ELSE turns[i].replied
        /\ source' = source
    BY <1>0, <1>a, CloseView
  <1>2. turns[u].msg = source[d] /\ ~turns[u].replied /\ u # None
    BY <1>0, <1>a, <1>1, Ids DEF UserInv, Knows, Underway
  <1>3. Rows' = Rows /\ rework' = rework
    BY <1>1, SameRows, ReworkKept
  <1>4. ~Answered(d) /\ Answered(d)'
    <2>1. row[d].proc # "processed"
      BY <1>0, <1>1, Busy DEF Pre, Underway
    <2>2. \A x \in Workers : worker[x].at \in {"replied", "returned", "marking"} => worker[x].ev # d
      BY <1>0, <1>1, ApartEvents DEF Underway
    <2>3. QED BY <1>1, <1>2, <2>1, <2>2 DEF Answered
  <1>5. ASSUME NEW i \in Rows'
        PROVE  EventsOf(turns[i].msg)' # {}
    <2>1. EventsOf(turns[i].msg)' = EventsOf(turns[i].msg)
      <3>1. turns'[i].msg = turns[i].msg
        BY <1>1, <1>3
      <3>2. source' = source
        BY <1>1
      <3>3. QED BY <3>1, <3>2 DEF EventsOf
    <2>2. QED BY <1>3, <2>1 DEF AnswerInv
  <1>6. ASSUME NEW m \in Messages
        PROVE  \/ Recognised(m)'
               \/ Cardinality(RepliedRows(m)') <= rework'[m] + Cardinality(AnsweredEvents(m)')
    <2>1. Recognised(m) => Recognised(m)'
      BY <1>1, <1>3, RecognisedLasts
    <2>2. CASE m # source[d]
      <3>1. RepliedRows(m)' = RepliedRows(m)
        BY <1>1, <1>2, <1>3, <2>2 DEF RepliedRows
      <3>2. QED BY <1>1, <1>3, <1>5, <2>1, <3>1, AnsweredLasts, AnswerKept DEF Forgets
    <2>3. CASE m = source[d] /\ ~Recognised(m)
      <3>1. RepliedRows(m)' = RepliedRows(m) \cup {u} /\ u \notin RepliedRows(m)
        BY <1>1, <1>2, <1>3, <2>3 DEF RepliedRows
      <3>2. Cardinality(RepliedRows(m)') = Cardinality(RepliedRows(m)) + 1
        BY <3>1, AnswerSets, FS_AddElement
      <3>3. d \notin AnsweredEvents(m) /\ AnsweredEvents(m) \cup {d} \subseteq AnsweredEvents(m)'
        BY <1>1, <1>4, <2>3, AnsweredLasts DEF AnsweredEvents, EventsOf, Forgets
      <3>4. IsFiniteSet(AnsweredEvents(m)')
        <4>1. AnsweredEvents(m)' \subseteq Events
          BY DEF AnsweredEvents, EventsOf
        <4>2. QED BY <4>1, ChannelConstants, FS_Subset
      <3>5. Cardinality(AnsweredEvents(m) \cup {d}) <= Cardinality(AnsweredEvents(m)')
        BY <3>3, <3>4, FS_Subset
      <3>6. Cardinality(AnsweredEvents(m) \cup {d}) = Cardinality(AnsweredEvents(m)) + 1
        BY <3>3, AnswerSets, FS_AddElement
      <3>7. Cardinality(RepliedRows(m)) <= rework[m] + Cardinality(AnsweredEvents(m))
        BY <2>3 DEF AnswerInv
      <3>8. /\ Cardinality(AnsweredEvents(m)) \in Nat /\ Cardinality(AnsweredEvents(m)') \in Nat
            /\ Cardinality(RepliedRows(m)) \in Nat /\ rework[m] \in Nat
        BY <3>4, AnswerSets, FS_CardinalityType DEF AnswerInv
      <3>9. QED BY <1>3, <3>2, <3>5, <3>6, <3>7, <3>8
    <2>4. QED BY <2>1, <2>2, <2>3
  <1>7. QED BY <1>3, <1>5, <1>6 DEF AnswerInv

\* The workers a crash catches with an answer that no key will recognise.
ForgottenOf(m) == {w \in Workers : /\ worker[w].at # "idle" /\ source[worker[w].ev] = m
                                   /\ Forgotten(w)}

LEMMA ForgottenSets ==
    \A m : IsFiniteSet(ForgottenOf(m)) /\ Cardinality(ForgottenOf(m)) \in Nat
  <1>1. IsFiniteSet(Workers)
    <2>1. IsFiniteSet({"live"}) /\ IsFiniteSet({"sweep"}) /\ Workers = {"live"} \cup {"sweep"}
      BY FS_Singleton DEF Workers
    <2>2. QED BY <2>1, FS_Union
  <1>2. \A m : ForgottenOf(m) \subseteq Workers
    BY DEF ForgottenOf
  <1>3. QED BY <1>1, <1>2, FS_Subset, FS_CardinalityType

LEMMA AnswerCrash ==
    ASSUME TypeInv, BoundInv, PhaseInv, TypeInv', UserInv, AnswerInv, Crash
    PROVE  AnswerInv'
  <1>1. /\ \A e \in Events : row'[e].proc = row[e].proc
        /\ SameTurns /\ source' = source
    BY CrashView
  <1>2. Rows' = Rows
    BY <1>1, SameRows DEF SameTurns
  <1>3. rework' = [m \in Messages |-> rework[m] + Cardinality(ForgottenOf(m))]
    BY DEF Crash, ForgottenOf
  <1>4. rework' \in [Messages -> Nat]
    BY <1>3, ForgottenSets DEF AnswerInv
  <1>5. ASSUME NEW i \in Rows'
        PROVE  EventsOf(turns[i].msg)' # {}
    <2>1. EventsOf(turns[i].msg)' = EventsOf(turns[i].msg)
      BY <1>1, <1>2 DEF EventsOf, SameTurns
    <2>2. QED BY <1>2, <2>1 DEF AnswerInv
  <1>6. ASSUME NEW m \in Messages
        PROVE  \/ Recognised(m)'
               \/ Cardinality(RepliedRows(m)') <= rework'[m] + Cardinality(AnsweredEvents(m)')
    <2>1. Recognised(m) => Recognised(m)'
      BY <1>1, <1>2, RecognisedLasts DEF SameTurns
    <2> SUFFICES ASSUME ~Recognised(m)
                 PROVE  Cardinality(RepliedRows(m)') <= rework'[m] + Cardinality(AnsweredEvents(m)')
      BY <2>1
    <2> DEFINE F == ForgottenOf(m)
               T == {worker[w].ev : w \in F}
               f == [w \in F |-> worker[w].ev]
    <2>2. IsFiniteSet(T) /\ Cardinality(T) <= Cardinality(F)
      <3>1. f \in Surjection(F, T)
        BY DEF Surjection
      <3>2. IsFiniteSet(F)
        BY ForgottenSets
      <3> HIDE DEF F, T, f
      <3>3. QED BY <3>1, <3>2, FS_Surjection
    <2>3. RepliedRows(m)' = RepliedRows(m)
      BY <1>1, <1>2 DEF RepliedRows, SameTurns
    <2>4. ASSUME NEW e \in AnsweredEvents(m), row[e].proc # "processed"
          PROVE  e \in T
      <3>1. PICK w \in Workers : /\ worker[w].at \in {"replied", "returned", "marking"}
                                 /\ worker[w].ev = e /\ worker[w].reply # None
        BY <2>4 DEF AnsweredEvents, Answered
      <3>2. e \in Events /\ source[e] = m
        BY DEF AnsweredEvents, EventsOf
      <3>3. worker[w].at = "marking" => w = "live"
        BY <2>4, <3>1 DEF PhaseInv, SweepInv, Workers
      <3>4. /\ worker[w].user # None /\ turns[worker[w].user].msg = m
            /\ turns[worker[w].user].replied
        BY <3>1, <3>2 DEF UserInv, Knows
      <3>5. ~turns[worker[w].user].keyed
        BY <3>4, Ids DEF Recognised, KeyedRow
      <3>6. w \in F
        BY <3>1, <3>2, <3>3, <3>4, <3>5 DEF ForgottenOf, Forgotten
      <3>7. QED BY <3>1, <3>6
    <2>5. AnsweredEvents(m) \subseteq AnsweredEvents(m)' \cup T
      <3>1. ASSUME NEW e \in AnsweredEvents(m), row[e].proc = "processed"
            PROVE  e \in AnsweredEvents(m)'
        BY <1>1, <3>1 DEF AnsweredEvents, EventsOf, Answered
      <3> HIDE DEF T
      <3>2. QED BY <2>4, <3>1
    <2>6. IsFiniteSet(AnsweredEvents(m)')
      <3>1. AnsweredEvents(m)' \subseteq Events
        BY DEF AnsweredEvents, EventsOf
      <3>2. QED BY <3>1, ChannelConstants, FS_Subset
    <2>7. /\ Cardinality(AnsweredEvents(m)) \in Nat /\ Cardinality(AnsweredEvents(m)') \in Nat
          /\ Cardinality(RepliedRows(m)) \in Nat /\ rework[m] \in Nat
          /\ Cardinality(F) \in Nat /\ Cardinality(T) \in Nat
      BY <2>2, <2>6, AnswerSets, ForgottenSets, FS_CardinalityType DEF AnswerInv
    <2>8. Cardinality(RepliedRows(m)) <= rework[m] + Cardinality(AnsweredEvents(m))
      BY DEF AnswerInv
    <2>9. rework'[m] = rework[m] + Cardinality(F)
      BY <1>3
    <2> HIDE DEF F, T
    <2>10. Cardinality(AnsweredEvents(m)) <= Cardinality(AnsweredEvents(m)') + Cardinality(T)
      <3>1. /\ IsFiniteSet(AnsweredEvents(m)' \cup T)
            /\ Cardinality(AnsweredEvents(m)' \cup T) =
                  Cardinality(AnsweredEvents(m)') + Cardinality(T)
                     - Cardinality(AnsweredEvents(m)' \cap T)
        BY <2>2, <2>6, FS_Union
      <3>2. Cardinality(AnsweredEvents(m)) <= Cardinality(AnsweredEvents(m)' \cup T)
        BY <2>5, <3>1, FS_Subset
      <3>3. Cardinality(AnsweredEvents(m)' \cap T) \in Nat
        BY <2>2, FS_Subset, FS_CardinalityType
      <3>4. QED BY <2>7, <3>1, <3>2, <3>3
    <2>11. QED BY <2>2, <2>3, <2>7, <2>8, <2>9, <2>10
  <1>7. QED BY <1>4, <1>5, <1>6 DEF AnswerInv

\* The event whose turn threw may be answered again; the others may not.
LEMMA AnswerBoundaryThrows ==
    ASSUME TypeInv, BoundInv, PhaseInv, TypeInv', UserInv, AnswerInv, [Next]_vars, ~Crash,
           NEW w \in Workers, NEW fatal \in BOOLEAN, BoundaryThrows(w, fatal)
    PROVE  AnswerInv'
  <1>1. /\ worker[w].at = "returned" /\ turns' = turns /\ source' = source
        /\ rework' = [rework EXCEPT ![source[worker[w].ev]] =
                         IF Forgotten(w) THEN rework[source[worker[w].ev]] + 1
                                         ELSE rework[source[worker[w].ev]]]
    BY DEF BoundaryThrows
  <1>2. PICK d \in Events : d = worker[w].ev /\ row[d].proc # "processed"
    BY <1>1, Busy DEF Pre
  <1>3. rework \in [Messages -> Nat] /\ rework' \in [Messages -> Nat]
    <2>1. rework \in [Messages -> Nat]
      BY DEF AnswerInv
    <2> DEFINE k == source[worker[w].ev]
    <2>2. rework' = [x \in Messages |->
                       IF x = k THEN IF Forgotten(w) THEN rework[k] + 1 ELSE rework[k]
                                ELSE rework[x]]
      BY <1>1, <2>1
    <2> HIDE DEF k
    <2>3. \A x \in Messages : rework'[x] \in Nat
      <3>1. TAKE x \in Messages
      <3>2. CASE x = k /\ Forgotten(w)
        BY <2>1, <2>2, <3>2
      <3>3. CASE x = k /\ ~Forgotten(w)
        BY <2>1, <2>2, <3>3
      <3>4. CASE x # k
        BY <2>1, <2>2, <3>4
      <3>5. QED BY <3>2, <3>3, <3>4
    <2>4. QED BY <2>1, <2>2, <2>3
  <1>4. Rows' = Rows
    BY <1>1 DEF Rows
  <1>5. ASSUME NEW i \in Rows'
        PROVE  EventsOf(turns[i].msg)' # {}
    <2>1. EventsOf(turns[i].msg)' = EventsOf(turns[i].msg)
      BY <1>1 DEF EventsOf
    <2>2. QED BY <1>4, <2>1 DEF AnswerInv
  <1>6. \A x \in Workers, f \in BOOLEAN : BoundaryThrows(x, f) => worker[x].ev = d
    <2> SUFFICES ASSUME NEW x \in Workers, NEW f \in BOOLEAN, BoundaryThrows(x, f), x # w
                 PROVE  FALSE
      BY <1>2
    <2>1. worker' = [worker EXCEPT ![w] = Resting] /\ worker' = [worker EXCEPT ![x] = Resting]
      BY DEF BoundaryThrows, Fails, Rest
    <2>2. worker[w] = Resting
      BY <2>1 DEF TypeInv
    <2>3. QED BY <1>1, <2>2 DEF Resting
  <1>7. \A e \in Events \ {d} : Answered(e) => Answered(e)'
    BY <1>6, AnsweredLasts
  <1>8. ASSUME NEW m \in Messages
        PROVE  \/ Recognised(m)'
               \/ Cardinality(RepliedRows(m)') <= rework'[m] + Cardinality(AnsweredEvents(m)')
    <2>1. Recognised(m) => Recognised(m)'
      BY <1>1, <1>4, RecognisedLasts
    <2> SUFFICES ASSUME ~Recognised(m)
                 PROVE  Cardinality(RepliedRows(m)') <= rework'[m] + Cardinality(AnsweredEvents(m)')
      BY <2>1
    <2>2. RepliedRows(m)' = RepliedRows(m)
      BY <1>1, <1>4 DEF RepliedRows
    <2>3. IsFiniteSet(AnsweredEvents(m)')
      <3>1. AnsweredEvents(m)' \subseteq Events
        BY DEF AnsweredEvents, EventsOf
      <3>2. QED BY <3>1, ChannelConstants, FS_Subset
    <2>4. /\ Cardinality(AnsweredEvents(m)) \in Nat /\ Cardinality(AnsweredEvents(m)') \in Nat
          /\ Cardinality(RepliedRows(m)) \in Nat /\ rework[m] \in Nat /\ rework'[m] \in Nat
      BY <1>3, <2>3, AnswerSets, FS_CardinalityType
    <2>5. Cardinality(RepliedRows(m)) <= rework[m] + Cardinality(AnsweredEvents(m))
      BY DEF AnswerInv
    <2>6. CASE d \notin AnsweredEvents(m)
      <3>1. AnsweredEvents(m) \subseteq AnsweredEvents(m)'
        BY <1>1, <1>7, <2>6 DEF AnsweredEvents, EventsOf
      <3>2. Cardinality(AnsweredEvents(m)) <= Cardinality(AnsweredEvents(m)')
        BY <2>3, <3>1, FS_Subset
      <3>3. rework[m] <= rework'[m]
        BY <1>1, <1>3, <2>4
      <3>4. QED BY <2>2, <2>4, <2>5, <3>2, <3>3
    <2>7. CASE d \in AnsweredEvents(m)
      <3>1. source[d] = m /\ worker[w].reply # None
        <4>1. PICK x \in Workers : /\ worker[x].at \in {"replied", "returned", "marking"}
                                   /\ worker[x].ev = d /\ worker[x].reply # None
          BY <1>2, <2>7 DEF AnsweredEvents, Answered
        <4>2. x = w
          BY <1>1, <1>2, <4>1, ApartEvents
        <4>3. QED BY <2>7, <4>1, <4>2 DEF AnsweredEvents, EventsOf
      <3>2. /\ worker[w].user # None /\ turns[worker[w].user].msg = m
            /\ turns[worker[w].user].replied
        BY <1>1, <1>2, <3>1 DEF UserInv, Knows
      <3>3. Forgotten(w)
        BY <1>1, <3>2, Ids DEF Recognised, KeyedRow, Forgotten
      <3>4. rework'[m] = rework[m] + 1
        BY <1>1, <1>2, <1>3, <3>1, <3>3
      <3>5. AnsweredEvents(m) \ {d} \subseteq AnsweredEvents(m)'
        BY <1>1, <1>7 DEF AnsweredEvents, EventsOf
      <3>6. Cardinality(AnsweredEvents(m) \ {d}) = Cardinality(AnsweredEvents(m)) - 1
        BY <2>7, AnswerSets, FS_RemoveElement
      <3>7. Cardinality(AnsweredEvents(m) \ {d}) <= Cardinality(AnsweredEvents(m)')
        BY <2>3, <3>5, FS_Subset
      <3>8. QED BY <2>2, <2>4, <2>5, <3>4, <3>6, <3>7
    <2>8. QED BY <2>6, <2>7
  <1>9. QED BY <1>3, <1>5, <1>8 DEF AnswerInv

LEMMA AnswerStep ==
    ASSUME TypeInv, BoundInv, PhaseInv, TypeInv', UserInv, AnswerInv, [Next]_vars
    PROVE  AnswerInv'
  <1>1. CASE Forgets
    BY <1>1, AnswerCrash, AnswerBoundaryThrows DEF Forgets
  <1> SUFFICES ASSUME ~Forgets
               PROVE  AnswerInv'
    BY <1>1
  <1>2. CASE source' = source /\ SameTurns
    BY <1>2, AnswerTame
  <1>3. CASE Quiet
    BY <1>2, <1>3 DEF Quiet, SameTurns
  <1>4. ASSUME NEW w \in Workers, Deduplicate(w) \/ EndTurn(w) \/ Link(w) \/ Conclude(w)
                                    \/ CountSegment(w)
        PROVE  AnswerInv'
    <2>1. UNCHANGED << turns, source >>
      BY <1>4 DEF Deduplicate, EndTurn, Link, Conclude, CountSegment
    <2>2. QED BY <1>2, <2>1 DEF SameTurns
  <1>5. ASSUME NEW w \in Workers,
               \/ SendSegment(w)
               \/ turns' # turns /\ \E fatal, posted \in BOOLEAN : SendFails(w, fatal, posted)
        PROVE  AnswerInv'
    BY <1>2, <1>5, SendSegmentView, SendFailsView
  <1>6. ASSUME NEW e \in Events, SweepDelivers(e)
        PROVE  AnswerInv'
    BY <1>2, <1>6 DEF SweepDelivers, SameTurns
  <1>7. QED
    BY <1>3, <1>4, <1>5, <1>6, AnswerOpens, AnswerCloses, Steps DEF Forgets

\* A message is answered once for each of its events and once more for each
\* answered turn that a crash, or a throw at the turn boundary, made
\* unrecognisable, whatever is retried, redelivered or rerun; a message that
\* has an idempotency key and is no slash command, once altogether when no
\* turn left it without a reply (the key of processMessage, the rerun without
\* it in the sweep).
THEOREM RepliesAreNotRepeated == Spec => []OneReplyPerMessage
  <1>1. Init => AnswerInv
    <2> SUFFICES ASSUME Init
                 PROVE  AnswerInv
      OBVIOUS
    <2>1. TypeInv /\ Rows = {} /\ rework = [m \in Messages |-> 0]
      BY TypeInit DEF Init, Rows
    <2>2. \A m : Cardinality(RepliedRows(m)) = 0 /\ Cardinality(AnsweredEvents(m)) \in Nat
      BY <2>1, AnswerSets, FS_EmptySet DEF RepliedRows
    <2>3. QED BY <2>1, <2>2 DEF AnswerInv
  <1>2. /\ TypeInv /\ BoundInv /\ PhaseInv /\ ReplyInv /\ TypeInv' /\ AnswerInv /\ [Next]_vars
        => AnswerInv'
    BY AnswerStep DEF ReplyInv
  <1>3. TypeInv /\ BoundInv /\ ReplyInv /\ AnswerInv => OneReplyPerMessage
    <2> SUFFICES ASSUME TypeInv, ReplyInv, AnswerInv, NEW m \in Messages
                 PROVE  /\ Cardinality(RepliedRows(m)) <= Cardinality(EventsOf(m)) + rework[m]
                        /\ m \in Keyed \ Commands /\ UnrepliedRows(m) = {} =>
                              Cardinality(RepliedRows(m)) <= 1
      BY DEF OneReplyPerMessage, EventsOf
    <2>1. ASSUME Recognised(m)
          PROVE  Cardinality(RepliedRows(m)) = 1 /\ EventsOf(m) # {}
      <3>1. PICK i \in KeyedRow(m) : turns[i].replied
        BY <2>1 DEF Recognised
      <3>2. i \in Rows /\ turns[i].msg = m /\ turns[i].keyed
        BY DEF KeyedRow
      <3>3. RepliedRows(m) = {i}
        BY <3>1, <3>2 DEF RepliedRows, ReplyInv, KeyInv, Barren
      <3>4. QED BY <3>2, <3>3, FS_Singleton DEF AnswerInv
    <2>2. /\ Cardinality(EventsOf(m)) \in Nat /\ rework[m] \in Nat
          /\ Cardinality(AnsweredEvents(m)) \in Nat /\ Cardinality(RepliedRows(m)) \in Nat
          /\ Cardinality(AnsweredEvents(m)) <= Cardinality(EventsOf(m))
          /\ EventsOf(m) # {} => Cardinality(EventsOf(m)) # 0
      BY AnswerSets, FS_EmptySet DEF AnswerInv
    <2>3. Cardinality(RepliedRows(m)) <= Cardinality(EventsOf(m)) + rework[m]
      <3>1. CASE Recognised(m)
        BY <2>1, <2>2, <3>1
      <3>2. CASE ~Recognised(m)
        <4>1. Cardinality(RepliedRows(m)) <= rework[m] + Cardinality(AnsweredEvents(m))
          BY <3>2 DEF AnswerInv
        <4>2. QED BY <2>2, <4>1
      <3>3. QED BY <3>1, <3>2
    <2>4. ASSUME m \in Keyed \ Commands, UnrepliedRows(m) = {}
          PROVE  Cardinality(RepliedRows(m)) <= 1
      <3>1. CASE RepliedRows(m) = {}
        BY <3>1, FS_EmptySet
      <3>2. CASE RepliedRows(m) # {}
        <4>1. KeyedRow(m) # {}
          BY <2>4, <3>2 DEF RepliedRows, ReplyInv, KeyInv
        <4>2. Recognised(m)
          BY <2>4, <4>1 DEF KeyedRow, UnrepliedRows, Recognised
        <4>3. QED BY <2>1, <4>2
      <3>3. QED BY <3>1, <3>2
    <2>5. QED BY <2>3, <2>4
  <1>4. QED BY <1>1, <1>2, <1>3, ReplyInductive, PTL DEF Spec

=============================================================================
