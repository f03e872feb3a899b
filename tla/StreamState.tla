---------------------------- MODULE StreamState ----------------------------
(***************************************************************************)
(* The daemon's SSE sequence authority                                     *)
(* (assistant/src/runtime/assistant-stream-state.ts), together with the    *)
(* two durable things that outlive the process: the reservation file       *)
(* data/stream-seq.json and the per-conversation anchors in                *)
(* conversations.seq.                                                      *)
(*                                                                         *)
(* One counter stamps every conversation-scoped event.  Seqs are reserved  *)
(* ahead of use in blocks; only the ceiling of the current block is on     *)
(* disk.  The last stamped events are kept in a ring from which a          *)
(* reconnecting client is caught up.  The process may die at any moment    *)
(* and start again; reading the file, writing it, and reading the anchors  *)
(* at startup may each fail where the corresponding fault switch is TRUE.  *)
(***************************************************************************)
EXTENDS Integers, FiniteSets

CONSTANTS
  Conversations,   \* conversation ids
  Targetings,      \* publish options an event may be stamped with
  Block,           \* SEQ_RESERVATION_BLOCK
  RingLimit,       \* RING_COUNT_LIMIT
  MaxSeq,          \* bound of the model: the counter is not moved past MaxSeq + 1
  WriteFaults,     \* a reservation write may fail (disk pressure)
  ReadFaults,      \* the reservation file may be unreadable
  FloorFaults      \* the startup floor may be skipped (anchors unreadable)

ASSUME BlockAssumption == Block \in Nat \ {0}
ASSUME RingLimitAssumption == RingLimit \in Nat \ {0}
ASSUME MaxSeqAssumption == MaxSeq \in Nat
ASSUME FaultsAssumption == /\ WriteFaults \in BOOLEAN
                           /\ ReadFaults \in BOOLEAN
                           /\ FloorFaults \in BOOLEAN

VARIABLES
  proc,      \* "down", "booting" (before the startup floor) or "serving"
  counter,   \* the counter fields of the process's `state` object
  ring,      \* the buffered entries; their order is the order of their seqs
  disk,      \* reservedSeqCeiling in data/stream-seq.json; 0 when absent
  convSeq,   \* conversations.seq of each conversation; 0 stands for NULL
  issued,    \* history: every entry the running process has stamped
  past       \* history: every seq stamped by a process that has died

streamVars == <<proc, counter, ring, disk, convSeq, issued, past>>

Entry == [seq : Nat, conv : Conversations, targeting : Targetings]

Counter == [nextSeq : Nat \ {0}, reservedSeqCeiling : Nat,
            seqReservationLoaded : BOOLEAN, firstStampedSeq : Nat]

FreshCounter == [nextSeq |-> 1, reservedSeqCeiling |-> 0,
                 seqReservationLoaded |-> FALSE, firstStampedSeq |-> 0]

Seqs(entries) == {e.seq : e \in entries}

StreamTypeOK ==
  /\ proc \in {"down", "booting", "serving"}
  /\ counter \in Counter
  /\ ring \subseteq Entry
  /\ Cardinality(ring) <= RingLimit
  /\ disk \in Nat
  /\ convSeq \in [Conversations -> Nat]
  /\ issued \subseteq Entry
  /\ past \subseteq Nat

----------------------------------------------------------------------------
(* The reservation file.  A read yields the stored ceiling, or 0 when the  *)
(* file cannot be read; a write either replaces it (tmp + rename) or leaves *)
(* it as it was.                                                            *)

ReadReservedCeiling == IF ReadFaults THEN {disk, 0} ELSE {disk}

WriteSucceeds == IF WriteFaults THEN BOOLEAN ELSE {TRUE}

JumpOver(next, ceiling) == IF ceiling >= next THEN ceiling + 1 ELSE next

\* Mutant: the reservation is loaded but the counter is not moved past it.
LoadWithoutJump(c, read) ==
  IF c.seqReservationLoaded THEN c
  ELSE [c EXCEPT !.seqReservationLoaded = TRUE, !.reservedSeqCeiling = read]

LoadSeqReservation(c, read) ==
  IF c.seqReservationLoaded THEN c
  ELSE [c EXCEPT !.seqReservationLoaded = TRUE,
                 !.reservedSeqCeiling = read,
                 !.nextSeq = JumpOver(@, read)]

NeedsReservation(c) == c.nextSeq > c.reservedSeqCeiling

\* Mutant: the block is one seq too long.
ReserveOneTooMany(c, read) ==
  IF NeedsReservation(c)
  THEN LET next == JumpOver(c.nextSeq, read)
       IN  [c EXCEPT !.nextSeq = next, !.reservedSeqCeiling = next + Block]
  ELSE c

ReserveSeqCapacity(c, read) ==
  IF NeedsReservation(c)
  THEN LET next == JumpOver(c.nextSeq, read)
       IN  [c EXCEPT !.nextSeq = next,
                     !.reservedSeqCeiling = next + Block - 1]
  ELSE c

\* The bound of the model on the counter (the code has none).
WithinBound(next) == next <= MaxSeq + 1

\* The file after reserving from the counter c, given the new counter r.
\* In memory the new ceiling counts as reserved even when the write failed.
DiskAfterReserve(c, r, written) ==
  IF NeedsReservation(c) /\ written THEN r.reservedSeqCeiling ELSE disk

----------------------------------------------------------------------------
(* The replay ring.                                                         *)

\* Mutant: overCount compares with one entry more than the limit.
EvictOneLate(entries) ==
  { kept \in {{e \in entries : e.seq > cut} : cut \in {0} \cup Seqs(entries)} :
      Cardinality(kept) <= RingLimit + 1 }

\* What evict() may leave of a ring: entries go oldest first, always down to
\* the count limit, and further when the size or the age limit is hit (bytes
\* and clock are not modelled, so any further eviction is possible).
Evict(entries) ==
  { kept \in {{e \in entries : e.seq > cut} : cut \in {0} \cup Seqs(entries)} :
      Cardinality(kept) <= RingLimit }

IsOldest(e, entries) == \A f \in entries : e.seq <= f.seq

\* Mutant: a cursor two below the oldest entry is taken for covered.
CoversCursorOffByOne(entries, lastSeen, first) ==
  \/ entries = {}
  \/ \E e \in entries :
       /\ IsOldest(e, entries)
       /\ \/ lastSeen >= e.seq - 2
          \/ lastSeen < first /\ e.seq = first

\* The cursor check of getReplayWindow: FALSE is its null.
CoversCursor(entries, lastSeen, first) ==
  \/ entries = {}
  \/ \E e \in entries :
       /\ IsOldest(e, entries)
       /\ \/ lastSeen >= e.seq - 1
          \/ lastSeen < first /\ e.seq = first

\* Mutant: the event at the cursor is replayed again.
ReplayFromCursor(entries, lastSeen) == {e \in entries : e.seq >= lastSeen}

\* What it then returns, before the conversation and targeting filters.
ReplayWindow(entries, lastSeen) == {e \in entries : e.seq > lastSeen}

----------------------------------------------------------------------------
(* Operations.                                                              *)

StreamInit ==
  /\ proc = "down"
  /\ counter = FreshCounter
  /\ ring = {}
  /\ disk = 0
  /\ convSeq = [c \in Conversations |-> 0]
  /\ issued = {}
  /\ past = {}

StartProcess ==
  /\ proc = "down"
  /\ proc' = "booting"
  /\ counter' = FreshCounter
  /\ ring' = {}
  /\ UNCHANGED <<disk, convSeq, issued, past>>

\* getMaxPersistedConversationSeq: SELECT MAX(seq), 0 when no anchor is set.
IsMaxPersistedSeq(highest) ==
  \A c \in Conversations : convSeq[c] <= highest

\* Mutant: the floor is skipped when the next seq IS the highest anchor.
FloorNotNeededOffByOne(c, highest) == highest <= c.nextSeq

FloorNotNeeded(c, highest) == highest < c.nextSeq

RaiseAbove(c, highest) == [c EXCEPT !.nextSeq = highest + 1]

\* floorSeqAbove(getMaxPersistedConversationSeq()) during daemon startup.
FloorSeqAbove ==
  /\ proc = "booting"
  /\ proc' = "serving"
  /\ \E highest \in {0} \cup {convSeq[c] : c \in Conversations},
        r1, r2 \in ReadReservedCeiling, written \in WriteSucceeds :
       LET loaded == LoadSeqReservation(counter, r1)
           raised == RaiseAbove(loaded, highest)
           reserved == ReserveSeqCapacity(raised, r2)
       IN /\ IsMaxPersistedSeq(highest)
          /\ IF FloorNotNeeded(loaded, highest)
             THEN /\ counter' = loaded
                  /\ UNCHANGED disk
             ELSE /\ WithinBound(reserved.nextSeq)
                  /\ counter' = reserved
                  /\ disk' = DiskAfterReserve(raised, reserved, written)
  /\ UNCHANGED <<ring, convSeq, issued, past>>

\* The database could not be opened or the anchors could not be read: startup
\* goes on, with the reservation not even loaded yet.
FloorSkipped ==
  /\ FloorFaults
  /\ proc = "booting"
  /\ proc' = "serving"
  /\ UNCHANGED <<counter, ring, disk, convSeq, issued, past>>

\* event.seq = state.nextSeq++, remembering the first seq of the process.
TakeSeq(c) ==
  [c EXCEPT !.nextSeq = c.nextSeq + 1,
            !.firstStampedSeq = IF c.firstStampedSeq = 0 THEN c.nextSeq
                                                         ELSE c.firstStampedSeq]

StampAndBuffer(conv, targeting) ==
  /\ proc = "serving"
  /\ \E r1, r2 \in ReadReservedCeiling, written \in WriteSucceeds :
       LET loaded == LoadSeqReservation(counter, r1)
           reserved == ReserveSeqCapacity(loaded, r2)
           seq == reserved.nextSeq
           entry == [seq |-> seq, conv |-> conv, targeting |-> targeting]
       IN /\ WithinBound(seq + 1)
          /\ counter' = TakeSeq(reserved)
          /\ disk' = DiskAfterReserve(loaded, reserved, written)
          /\ ring' \in Evict(ring \cup {entry})
          /\ issued' = issued \cup {entry}
  /\ UNCHANGED <<proc, convSeq, past>>

\* The part of getReplayWindow that changes state: it evicts first.
SweepRing ==
  /\ proc = "serving"
  /\ ring' \in Evict(ring)
  /\ UNCHANGED <<proc, counter, disk, convSeq, issued, past>>

\* getCurrentSeq() on a process that has not loaded the reservation yet.
LoadOnGetCurrentSeq ==
  /\ proc = "serving"
  /\ \E r \in ReadReservedCeiling : counter' = LoadSeqReservation(counter, r)
  /\ UNCHANGED <<proc, ring, disk, convSeq, issued, past>>

\* The anchor of a conversation: a getCurrentSeq() value read by this process,
\* now or at an earlier flush, written raise-only.  A write dropped on lock
\* contention is a step that does not happen.
RecordConversationPersistedSeq(conv, seq) ==
  /\ proc = "serving"
  /\ counter.seqReservationLoaded
  /\ seq < counter.nextSeq
  /\ convSeq[conv] < seq
  /\ convSeq' = [convSeq EXCEPT ![conv] = seq]
  /\ UNCHANGED <<proc, counter, ring, disk, issued, past>>

\* The process dies.  Memory is lost; the file and the database stay.
Crash ==
  /\ proc # "down"
  /\ proc' = "down"
  /\ counter' = FreshCounter
  /\ ring' = {}
  /\ past' = past \cup Seqs(issued)
  /\ issued' = {}
  /\ UNCHANGED <<disk, convSeq>>

StreamNext ==
  \/ StartProcess
  \/ FloorSeqAbove
  \/ FloorSkipped
  \/ \E conv \in Conversations, t \in Targetings : StampAndBuffer(conv, t)
  \/ SweepRing
  \/ LoadOnGetCurrentSeq
  \/ \E conv \in Conversations :
       \E seq \in 1..(counter.nextSeq - 1) :
         RecordConversationPersistedSeq(conv, seq)
  \/ Crash

StreamSpec == StreamInit /\ [][StreamNext]_streamVars

----------------------------------------------------------------------------
(* Properties.                                                              *)

\* A restarted daemon never hands out a seq that an earlier process, or the
\* same process, already gave to another event: "a restarted daemon resumes
\* stamping above every seq the previous process could have emitted".  Clients
\* drop an event whose seq they have applied, so a re-issued seq is a lost
\* event.  (reserveSeqCapacity writes the ceiling before the seq is used.)
NoReissue ==
  /\ \A e \in issued : e.seq \notin past
  /\ \A e, f \in issued : e.seq = f.seq => e = f

\* A restart skips at most one block's worth of unused seqs: the next seq is
\* within Block of a seq some event really carries (or of 0), so a client sees
\* a bounded forward gap however often the daemon restarts.
BoundedRestartGap ==
  \E s \in past \cup Seqs(issued) \cup {0} : counter.nextSeq <= s + Block

\* From the first use of the counter on, it stands above every anchor that was
\* ever served with a /messages snapshot.  Either protection is enough: the
\* reservation file without the startup floor, or the floor
\* (floorSeqAbove) whatever happened to the file.
CounterAboveAnchors ==
  counter.seqReservationLoaded =>
    \A c \in Conversations : convSeq[c] < counter.nextSeq

\* No event is ever stamped at or below an anchor persisted earlier: a client
\* holding that anchor would discard it as already applied.
StampsAboveAnchors ==
  [][\A e \in issued' \ issued : \A c \in Conversations : convSeq[c] < e.seq]_streamVars

\* Replay is complete: whenever getReplayWindow does not answer null and the
\* ring still holds something, it returns every event this process stamped
\* above the cursor; neither count, size and age eviction nor the
\* coversRestartGap shortcut can leave a hole.
ReplayComplete ==
  \A kept \in Evict(ring) : \A lastSeen \in 0..counter.nextSeq :
    kept # {} /\ CoversCursor(kept, lastSeen, counter.firstStampedSeq)
      => {e \in issued : e.seq > lastSeen} \subseteq ReplayWindow(kept, lastSeen)
============================================================================
