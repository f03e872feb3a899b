-------------------------- MODULE StreamStateProofs --------------------------
(***************************************************************************)
(* Theorems about StreamState, for every set of conversations, block size, *)
(* ring limit and bound: the type invariant; under a sound reservation     *)
(* file no seq is issued twice and the gap a restart leaves is bounded;    *)
(* the counter stays above every persisted anchor if the file is sound or  *)
(* the startup floor runs; and replay is complete whatever fails.          *)
(***************************************************************************)
EXTENDS StreamState, FiniteSetTheorems, TLAPS

ConstantsOK == /\ Block \in Nat \ {0} /\ RingLimit \in Nat \ {0} /\ MaxSeq \in Nat
               /\ WriteFaults \in BOOLEAN /\ ReadFaults \in BOOLEAN
               /\ FloorFaults \in BOOLEAN

LEMMA Constants == ConstantsOK
  BY BlockAssumption, RingLimitAssumption, MaxSeqAssumption, FaultsAssumption
  DEF ConstantsOK

----------------------------------------------------------------------------
(* What the counter helpers return.                                         *)

\* Loading keeps the counter well-typed, only moves it forward, and leaves it
\* above the ceiling that was read.
LEMMA LoadFacts ==
  ASSUME NEW c \in Counter, NEW read \in Nat
  PROVE  LET l == LoadSeqReservation(c, read) IN
         /\ l \in Counter
         /\ l.seqReservationLoaded
         /\ l.firstStampedSeq = c.firstStampedSeq
         /\ l.nextSeq >= c.nextSeq
         /\ c.seqReservationLoaded => l = c
         /\ ~c.seqReservationLoaded => /\ l.reservedSeqCeiling = read
                                       /\ l.nextSeq > read
  <1>1. CASE c.seqReservationLoaded
    BY <1>1 DEF LoadSeqReservation, Counter
  <1>2. CASE ~c.seqReservationLoaded
    <2> DEFINE next == JumpOver(c.nextSeq, read)
    <2>1. next \in Nat \ {0} /\ next >= c.nextSeq /\ next > read
      BY DEF JumpOver, Counter
    <2>2. LoadSeqReservation(c, read) =
            [c EXCEPT !.seqReservationLoaded = TRUE,
                      !.reservedSeqCeiling = read, !.nextSeq = next]
      BY <1>2 DEF LoadSeqReservation
    <2> HIDE DEF next
    <2>3. QED
      BY <1>2, <2>1, <2>2 DEF Counter
  <1>3. QED
    BY <1>1, <1>2

\* Reserving keeps the counter well-typed, only moves it forward, and leaves
\* the next seq covered by the ceiling.
LEMMA ReserveFacts ==
  ASSUME NEW c \in Counter, NEW read \in Nat
  PROVE  LET r == ReserveSeqCapacity(c, read) IN
         /\ r \in Counter
         /\ r.seqReservationLoaded = c.seqReservationLoaded
         /\ r.firstStampedSeq = c.firstStampedSeq
         /\ r.nextSeq >= c.nextSeq
         /\ r.nextSeq <= r.reservedSeqCeiling
         /\ NeedsReservation(c) /\ read < c.nextSeq => r.nextSeq = c.nextSeq
         /\ ~NeedsReservation(c) => r = c
  <1>1. CASE NeedsReservation(c)
    <2> DEFINE next == JumpOver(c.nextSeq, read)
    <2>1. next \in Nat \ {0} /\ next >= c.nextSeq /\ (read < c.nextSeq => next = c.nextSeq)
      BY DEF JumpOver, Counter
    <2>2. next + Block - 1 \in Nat /\ next <= next + Block - 1
      BY <2>1, Constants DEF ConstantsOK
    <2>3. ReserveSeqCapacity(c, read) =
            [c EXCEPT !.nextSeq = next, !.reservedSeqCeiling = next + Block - 1]
      BY <1>1 DEF ReserveSeqCapacity
    <2> HIDE DEF next
    <2>4. QED
      BY <1>1, <2>1, <2>2, <2>3 DEF Counter
  <1>2. CASE ~NeedsReservation(c)
    BY <1>2 DEF ReserveSeqCapacity, NeedsReservation, Counter
  <1>3. QED
    BY <1>1, <1>2

\* Taking a seq advances the counter by one and records the first seq once.
LEMMA TakeFacts ==
  ASSUME NEW c \in Counter
  PROVE  LET t == TakeSeq(c) IN
         /\ t \in Counter
         /\ t.nextSeq = c.nextSeq + 1
         /\ t.reservedSeqCeiling = c.reservedSeqCeiling
         /\ t.seqReservationLoaded = c.seqReservationLoaded
         /\ t.firstStampedSeq =
              IF c.firstStampedSeq = 0 THEN c.nextSeq ELSE c.firstStampedSeq
  <1> DEFINE first == IF c.firstStampedSeq = 0 THEN c.nextSeq ELSE c.firstStampedSeq
  <1>1. first \in Nat /\ c.nextSeq + 1 \in Nat \ {0}
    BY DEF Counter
  <1>2. TakeSeq(c) = [c EXCEPT !.nextSeq = c.nextSeq + 1, !.firstStampedSeq = first]
    BY DEF TakeSeq
  <1> HIDE DEF first
  <1>3. QED
    <2>1. TakeSeq(c).firstStampedSeq = first
      BY <1>1, <1>2 DEF Counter
    <2>2. QED
      BY <1>1, <1>2, <2>1 DEF Counter, first

\* Flooring puts the next seq above the anchor.
LEMMA RaiseFacts ==
  ASSUME NEW c \in Counter, NEW highest \in Nat
  PROVE  LET r == RaiseAbove(c, highest) IN
         /\ r \in Counter
         /\ r.nextSeq = highest + 1
         /\ r.reservedSeqCeiling = c.reservedSeqCeiling
         /\ r.seqReservationLoaded = c.seqReservationLoaded
         /\ r.firstStampedSeq = c.firstStampedSeq
  BY DEF RaiseAbove, Counter

LEMMA ReadsAreNat == StreamTypeOK => ReadReservedCeiling \subseteq Nat
  BY DEF StreamTypeOK, ReadReservedCeiling

\* Eviction only removes entries, and removes them oldest first.
LEMMA EvictFacts ==
  ASSUME NEW entries \in SUBSET Entry, NEW kept \in Evict(entries)
  PROVE  /\ kept \subseteq entries
         /\ Cardinality(kept) <= RingLimit
         /\ \A e \in entries, f \in kept : f.seq <= e.seq => e \in kept
  <1>1. PICK cut \in {0} \cup Seqs(entries) : kept = {e \in entries : e.seq > cut}
    BY DEF Evict
  <1>2. cut \in Nat /\ \A e \in entries : e.seq \in Nat
    BY DEF Seqs, Entry
  <1>3. Cardinality(kept) <= RingLimit
    BY DEF Evict
  <1>4. QED
    BY <1>1, <1>2, <1>3

LEMMA EmptyRingFits == Cardinality({}) <= RingLimit
  <1>1. Cardinality({}) = 0
    BY FS_EmptySet
  <1>2. QED
    BY <1>1, Constants DEF ConstantsOK
----------------------------------------------------------------------------
(* What a step does to the counter and to the file, whichever action it is. *)

LEMMA FreshCounterFacts ==
  /\ FreshCounter \in Counter
  /\ FreshCounter.nextSeq = 1
  /\ FreshCounter.firstStampedSeq = 0
  /\ ~FreshCounter.seqReservationLoaded
  BY DEF FreshCounter, Counter

\* Stamping, in terms of the intermediate counters.
LEMMA StampSteps ==
  ASSUME StreamTypeOK, NEW conv \in Conversations, NEW t \in Targetings,
         StampAndBuffer(conv, t)
  PROVE  \E r1, r2 \in ReadReservedCeiling, written \in WriteSucceeds,
            loaded, reserved \in Counter, entry \in Entry :
           /\ loaded = LoadSeqReservation(counter, r1)
           /\ reserved = ReserveSeqCapacity(loaded, r2)
           /\ entry = [seq |-> reserved.nextSeq, conv |-> conv, targeting |-> t]
           /\ counter' = TakeSeq(reserved)
           /\ disk' = DiskAfterReserve(loaded, reserved, written)
           /\ ring' \in Evict(ring \cup {entry})
           /\ issued' = issued \cup {entry}
  <1>1. PICK r1 \in ReadReservedCeiling, r2 \in ReadReservedCeiling,
             written \in WriteSucceeds :
          LET loaded == LoadSeqReservation(counter, r1)
              reserved == ReserveSeqCapacity(loaded, r2)
              entry == [seq |-> reserved.nextSeq, conv |-> conv, targeting |-> t]
          IN /\ counter' = TakeSeq(reserved)
             /\ disk' = DiskAfterReserve(loaded, reserved, written)
             /\ ring' \in Evict(ring \cup {entry})
             /\ issued' = issued \cup {entry}
    BY Zenon DEF StampAndBuffer
  <1> DEFINE loaded == LoadSeqReservation(counter, r1)
             reserved == ReserveSeqCapacity(loaded, r2)
             entry == [seq |-> reserved.nextSeq, conv |-> conv, targeting |-> t]
  <1>2. r1 \in Nat /\ r2 \in Nat
    BY ReadsAreNat
  <1>3. loaded \in Counter
    BY <1>2, LoadFacts DEF StreamTypeOK
  <1>4. reserved \in Counter
    BY <1>2, <1>3, ReserveFacts
  <1>5. entry \in Entry
    BY <1>4 DEF Entry, Counter
  <1>6. QED
    BY <1>1, <1>3, <1>4, <1>5, Zenon

\* The startup floor, in terms of the intermediate counters.
LEMMA FloorSteps ==
  ASSUME StreamTypeOK, FloorSeqAbove
  PROVE  \E r1, r2 \in ReadReservedCeiling, written \in WriteSucceeds,
            highest \in Nat, loaded, raised, reserved \in Counter :
           /\ loaded = LoadSeqReservation(counter, r1)
           /\ raised = RaiseAbove(loaded, highest)
           /\ reserved = ReserveSeqCapacity(raised, r2)
           /\ IsMaxPersistedSeq(highest)
           /\ \/ /\ highest < loaded.nextSeq
                 /\ counter' = loaded
                 /\ disk' = disk
              \/ /\ highest >= loaded.nextSeq
                 /\ counter' = reserved
                 /\ disk' = DiskAfterReserve(raised, reserved, written)
  <1>1. PICK highest \in {0} \cup {convSeq[c] : c \in Conversations},
             r1 \in ReadReservedCeiling, r2 \in ReadReservedCeiling,
             written \in WriteSucceeds :
          LET loaded == LoadSeqReservation(counter, r1)
              raised == RaiseAbove(loaded, highest)
              reserved == ReserveSeqCapacity(raised, r2)
          IN /\ IsMaxPersistedSeq(highest)
             /\ IF FloorNotNeeded(loaded, highest)
                THEN counter' = loaded /\ disk' = disk
                ELSE /\ counter' = reserved
                     /\ disk' = DiskAfterReserve(raised, reserved, written)
    BY Zenon DEF FloorSeqAbove
  <1> DEFINE loaded == LoadSeqReservation(counter, r1)
             raised == RaiseAbove(loaded, highest)
             reserved == ReserveSeqCapacity(raised, r2)
  <1>2. r1 \in Nat /\ r2 \in Nat
    BY ReadsAreNat
  <1>3. highest \in Nat
    BY DEF StreamTypeOK
  <1>4. loaded \in Counter
    BY <1>2, LoadFacts DEF StreamTypeOK
  <1>5. raised \in Counter
    BY <1>3, <1>4, RaiseFacts
  <1>6. reserved \in Counter
    BY <1>2, <1>5, ReserveFacts
  <1>7. FloorNotNeeded(loaded, highest) <=> highest < loaded.nextSeq
    BY DEF FloorNotNeeded
  <1>8. ~FloorNotNeeded(loaded, highest) => highest >= loaded.nextSeq
    BY <1>3, <1>4, <1>7 DEF Counter
  <1> HIDE DEF loaded, raised, reserved
  <1>9. IsMaxPersistedSeq(highest) /\
        \/ /\ highest < loaded.nextSeq
           /\ counter' = loaded
           /\ disk' = disk
        \/ /\ highest >= loaded.nextSeq
           /\ counter' = reserved
           /\ disk' = DiskAfterReserve(raised, reserved, written)
    BY <1>1, <1>7, <1>8 DEF loaded, raised, reserved
  <1>10. QED
    BY <1>3, <1>4, <1>5, <1>6, <1>9, Zenon DEF loaded, raised, reserved

\* The file after a reservation: the new ceiling, or what it held before.
LEMMA DiskFacts ==
  ASSUME StreamTypeOK, NEW c \in Counter, NEW r \in Counter, NEW written \in BOOLEAN
  PROVE  /\ DiskAfterReserve(c, r, written) \in Nat
         /\ ~NeedsReservation(c) => DiskAfterReserve(c, r, written) = disk
         /\ NeedsReservation(c) /\ written
              => DiskAfterReserve(c, r, written) = r.reservedSeqCeiling
  BY DEF DiskAfterReserve, StreamTypeOK, Counter

LEMMA WritesAreBoolean == WriteSucceeds \subseteq BOOLEAN
  BY DEF WriteSucceeds

----------------------------------------------------------------------------
(* Type correctness.                                                        *)

LEMMA StreamTypeStep == StreamTypeOK /\ [StreamNext]_streamVars => StreamTypeOK'
  <1> SUFFICES ASSUME StreamTypeOK, [StreamNext]_streamVars PROVE StreamTypeOK'
    OBVIOUS
  <1>1. CASE StartProcess
    BY <1>1, FreshCounterFacts, EmptyRingFits DEF StartProcess, StreamTypeOK
  <1>2. CASE FloorSeqAbove
    <2>1. counter' \in Counter /\ disk' \in Nat
      BY <1>2, FloorSteps, DiskFacts, WritesAreBoolean DEF StreamTypeOK
    <2>2. QED
      BY <1>2, <2>1 DEF FloorSeqAbove, StreamTypeOK
  <1>3. CASE FloorSkipped
    BY <1>3 DEF FloorSkipped, StreamTypeOK
  <1>4. ASSUME NEW conv \in Conversations, NEW t \in Targetings, StampAndBuffer(conv, t)
        PROVE  StreamTypeOK'
    <2>1. PICK written \in WriteSucceeds, loaded \in Counter, reserved \in Counter,
               entry \in Entry :
            /\ counter' = TakeSeq(reserved)
            /\ disk' = DiskAfterReserve(loaded, reserved, written)
            /\ ring' \in Evict(ring \cup {entry})
            /\ issued' = issued \cup {entry}
      BY <1>4, StampSteps
    <2>2. counter' \in Counter
      BY <2>1, TakeFacts
    <2>3. disk' \in Nat
      BY <2>1, DiskFacts, WritesAreBoolean
    <2>4. ring' \subseteq Entry /\ Cardinality(ring') <= RingLimit /\ issued' \subseteq Entry
      <3>1. ring \cup {entry} \in SUBSET Entry
        BY DEF StreamTypeOK
      <3>2. QED
        BY <2>1, <3>1, EvictFacts DEF StreamTypeOK
    <2>5. QED
      BY <1>4, <2>2, <2>3, <2>4 DEF StampAndBuffer, StreamTypeOK
  <1>5. CASE SweepRing
    <2>1. ring' \subseteq Entry /\ Cardinality(ring') <= RingLimit
      BY <1>5, EvictFacts DEF SweepRing, StreamTypeOK
    <2>2. QED
      BY <1>5, <2>1 DEF SweepRing, StreamTypeOK
  <1>6. CASE LoadOnGetCurrentSeq
    <2>1. counter' \in Counter
      BY <1>6, LoadFacts, ReadsAreNat DEF LoadOnGetCurrentSeq, StreamTypeOK
    <2>2. QED
      BY <1>6, <2>1 DEF LoadOnGetCurrentSeq, StreamTypeOK
  <1>7. ASSUME NEW conv \in Conversations, NEW seq \in 1..(counter.nextSeq - 1),
               RecordConversationPersistedSeq(conv, seq)
        PROVE  StreamTypeOK'
    BY <1>7 DEF RecordConversationPersistedSeq, StreamTypeOK, Counter
  <1>8. CASE Crash
    <2>1. Seqs(issued) \subseteq Nat
      BY DEF Seqs, StreamTypeOK, Entry
    <2>2. QED
      BY <1>8, <2>1, FreshCounterFacts, EmptyRingFits DEF Crash, StreamTypeOK
  <1>9. CASE UNCHANGED streamVars
    BY <1>9 DEF streamVars, StreamTypeOK
  <1>10. QED
    BY <1>1, <1>2, <1>3, <1>4, <1>5, <1>6, <1>7, <1>8, <1>9 DEF StreamNext

\* The model of the stream state is well-typed in every reachable state: the
\* counter is always at least 1, anchors and the ceiling on disk are naturals,
\* and the ring never holds more than RING_COUNT_LIMIT entries.
THEOREM StreamTypeCorrect == StreamSpec => []StreamTypeOK
  <1>1. StreamInit => StreamTypeOK
    BY FreshCounterFacts, EmptyRingFits DEF StreamInit, StreamTypeOK
  <1>2. QED
    BY <1>1, StreamTypeStep, PTL DEF StreamSpec

----------------------------------------------------------------------------
(* With a sound reservation file no seq is issued twice.  NoReissue says    *)
(* nothing of the file; the strengthening ties the file to the counter:     *)
(* once loaded, the in-memory ceiling IS the one on disk and the counter is *)
(* never more than one past it, so whatever was stamped or recorded is at   *)
(* or below the ceiling the next process will read.                         *)

SoundFile == ~WriteFaults /\ ~ReadFaults

ReservationInv ==
  /\ proc # "serving" => issued = {} /\ ~counter.seqReservationLoaded
  /\ ~counter.seqReservationLoaded => counter.nextSeq = 1
  /\ counter.seqReservationLoaded =>
       /\ counter.reservedSeqCeiling = disk
       /\ counter.nextSeq <= disk + 1
  /\ \A s \in past : /\ s <= disk
                     /\ counter.seqReservationLoaded => s < counter.nextSeq
  /\ \A c \in Conversations :
       /\ convSeq[c] <= disk
       /\ counter.seqReservationLoaded => convSeq[c] < counter.nextSeq
  /\ \A e \in issued : counter.seqReservationLoaded /\ e.seq < counter.nextSeq
  /\ NoReissue

\* Loading from a sound file: the counter is above everything at or below the
\* ceiling on disk, and one past that ceiling at most.
LEMMA SoundLoad ==
  ASSUME SoundFile, StreamTypeOK, ReservationInv, NEW r \in ReadReservedCeiling,
         NEW l, l = LoadSeqReservation(counter, r)
  PROVE  /\ l \in Counter
         /\ l.seqReservationLoaded
         /\ l.reservedSeqCeiling = disk
         /\ l.nextSeq <= disk + 1
         /\ l.nextSeq >= counter.nextSeq
         /\ \A s \in past : s < l.nextSeq
         /\ \A c \in Conversations : convSeq[c] < l.nextSeq
  <1>1. r = disk /\ r \in Nat /\ counter \in Counter
    BY DEF SoundFile, ReadReservedCeiling, StreamTypeOK
  <1>2. CASE counter.seqReservationLoaded
    <2>1. l = counter
      BY <1>1, <1>2, LoadFacts
    <2>2. QED
      BY <1>1, <1>2, <2>1 DEF ReservationInv, Counter
  <1>3. CASE ~counter.seqReservationLoaded
    <2>1. /\ l \in Counter /\ l.seqReservationLoaded /\ l.reservedSeqCeiling = disk
          /\ l.nextSeq > disk /\ l.nextSeq >= counter.nextSeq
      BY <1>1, <1>3, LoadFacts
    <2>2. l.nextSeq <= disk + 1
      <3>1. counter.nextSeq = 1
        BY <1>3 DEF ReservationInv
      <3>2. l.nextSeq = JumpOver(counter.nextSeq, r)
        BY <1>1, <1>3 DEF LoadSeqReservation, Counter
      <3>3. QED
        BY <1>1, <3>1, <3>2 DEF JumpOver
    <2>3. QED
      BY <1>1, <2>1, <2>2 DEF ReservationInv, StreamTypeOK, Counter
  <1>4. QED
    BY <1>2, <1>3

\* Reserving with a sound file: no jump, and the next seq is at or below the
\* ceiling on disk.
LEMMA SoundReserve ==
  ASSUME SoundFile, StreamTypeOK, NEW r \in ReadReservedCeiling,
         NEW written \in WriteSucceeds, NEW c \in Counter, NEW d,
         c.reservedSeqCeiling = disk,
         NEW c2, c2 = ReserveSeqCapacity(c, r), d = DiskAfterReserve(c, c2, written)
  PROVE  /\ c2 \in Counter
         /\ c2.seqReservationLoaded = c.seqReservationLoaded
         /\ c2.nextSeq = c.nextSeq
         /\ c2.reservedSeqCeiling = d
         /\ c2.nextSeq <= d
         /\ d \in Nat /\ d >= disk
  <1>1. r = disk /\ r \in Nat /\ written = TRUE
    BY DEF SoundFile, ReadReservedCeiling, WriteSucceeds, StreamTypeOK
  <1>2. /\ c2 \in Counter /\ c2.nextSeq <= c2.reservedSeqCeiling
        /\ c2.seqReservationLoaded = c.seqReservationLoaded
        /\ NeedsReservation(c) /\ r < c.nextSeq => c2.nextSeq = c.nextSeq
        /\ ~NeedsReservation(c) => c2 = c
    BY <1>1, ReserveFacts
  <1>3. /\ d \in Nat
        /\ ~NeedsReservation(c) => d = disk
        /\ NeedsReservation(c) => d = c2.reservedSeqCeiling
    BY <1>1, <1>2, DiskFacts
  <1>4. NeedsReservation(c) <=> c.nextSeq > disk
    BY DEF NeedsReservation
  <1>5. c.nextSeq \in Nat /\ c2.nextSeq \in Nat /\ c2.reservedSeqCeiling \in Nat
        /\ disk \in Nat
    BY <1>2 DEF Counter, StreamTypeOK
  <1>6. CASE NeedsReservation(c)
    <2>1. c2.nextSeq = c.nextSeq /\ d = c2.reservedSeqCeiling
      BY <1>1, <1>2, <1>3, <1>4, <1>5, <1>6
    <2>2. d >= disk
      BY <1>2, <1>4, <1>5, <1>6, <2>1
    <2>3. QED
      BY <1>2, <1>3, <2>1, <2>2
  <1>7. CASE ~NeedsReservation(c)
    <2>1. c2.nextSeq = c.nextSeq /\ c2.reservedSeqCeiling = disk /\ d = disk
      BY <1>2, <1>3, <1>7
    <2>2. QED
      BY <1>2, <1>4, <1>5, <1>7, <2>1
  <1>8. QED
    BY <1>6, <1>7

LEMMA ReservationStep ==
  ASSUME SoundFile, StreamTypeOK, ReservationInv, [StreamNext]_streamVars
  PROVE  ReservationInv'
  <1>1. CASE StartProcess
    BY <1>1, FreshCounterFacts DEF StartProcess, ReservationInv, NoReissue
  <1>2. CASE FloorSeqAbove
    <2>1. proc = "booting" /\ issued = {} /\ ~counter.seqReservationLoaded
      BY <1>2 DEF FloorSeqAbove, ReservationInv
    <2>2. PICK r1 \in ReadReservedCeiling, r2 \in ReadReservedCeiling,
               written \in WriteSucceeds, highest \in Nat,
               loaded \in Counter, raised \in Counter, reserved \in Counter :
           /\ loaded = LoadSeqReservation(counter, r1)
           /\ raised = RaiseAbove(loaded, highest)
           /\ reserved = ReserveSeqCapacity(raised, r2)
           /\ IsMaxPersistedSeq(highest)
           /\ \/ /\ highest < loaded.nextSeq
                 /\ counter' = loaded
                 /\ disk' = disk
              \/ /\ highest >= loaded.nextSeq
                 /\ counter' = reserved
                 /\ disk' = DiskAfterReserve(raised, reserved, written)
      BY <1>2, FloorSteps
    <2>3. /\ loaded.seqReservationLoaded /\ loaded.reservedSeqCeiling = disk
          /\ loaded.nextSeq <= disk + 1
          /\ \A s \in past : s < loaded.nextSeq
          /\ \A c \in Conversations : convSeq[c] < loaded.nextSeq
      BY <2>2, SoundLoad
    <2>4. /\ raised.reservedSeqCeiling = disk /\ raised.seqReservationLoaded
          /\ raised.nextSeq = highest + 1
      BY <2>2, <2>3, RaiseFacts
    <2>5. CASE highest < loaded.nextSeq /\ counter' = loaded /\ disk' = disk
      BY <1>2, <2>1, <2>3, <2>5 DEF FloorSeqAbove, ReservationInv, NoReissue
    <2>6. CASE highest >= loaded.nextSeq /\ counter' = reserved
               /\ disk' = DiskAfterReserve(raised, reserved, written)
      <3>1. /\ counter'.nextSeq = highest + 1 /\ counter'.seqReservationLoaded
            /\ counter'.reservedSeqCeiling = disk'
            /\ counter'.nextSeq <= disk' /\ disk' \in Nat /\ disk' >= disk
        BY <2>2, <2>4, <2>6, SoundReserve
      <3>2. /\ \A s \in past : s <= disk' /\ s < counter'.nextSeq
            /\ \A c \in Conversations : convSeq[c] <= disk' /\ convSeq[c] < counter'.nextSeq
        <4>1. \A n \in Nat : n < loaded.nextSeq => n < highest + 1 /\ n <= disk'
          BY <2>3, <2>6, <3>1 DEF Counter, StreamTypeOK
        <4>2. QED
          BY <2>3, <3>1, <4>1 DEF StreamTypeOK
      <3>3. proc' = "serving" /\ convSeq' = convSeq /\ past' = past /\ issued' = {}
        BY <1>2, <2>1 DEF FloorSeqAbove
      <3>4. counter'.nextSeq <= disk' + 1
        <4>1. counter'.nextSeq \in Nat
          BY <2>2, <3>1
        <4>2. counter'.nextSeq <= disk' /\ disk' \in Nat
          BY <3>1, Zenon
        <4>3. QED
          BY <4>1, <4>2
      <3>5. QED
        BY <3>1, <3>2, <3>3, <3>4 DEF ReservationInv, NoReissue
    <2>7. QED
      BY <2>2, <2>5, <2>6
  <1>3. CASE FloorSkipped
    BY <1>3 DEF FloorSkipped, ReservationInv, NoReissue
  <1>4. ASSUME NEW conv \in Conversations, NEW t \in Targetings, StampAndBuffer(conv, t)
        PROVE  ReservationInv'
    <2>1. PICK r1 \in ReadReservedCeiling, r2 \in ReadReservedCeiling,
               written \in WriteSucceeds, loaded \in Counter,
               reserved \in Counter, entry \in Entry :
            /\ loaded = LoadSeqReservation(counter, r1)
            /\ reserved = ReserveSeqCapacity(loaded, r2)
            /\ entry = [seq |-> reserved.nextSeq, conv |-> conv, targeting |-> t]
            /\ counter' = TakeSeq(reserved)
            /\ disk' = DiskAfterReserve(loaded, reserved, written)
            /\ ring' \in Evict(ring \cup {entry})
            /\ issued' = issued \cup {entry}
      BY <1>4, StampSteps
    <2>2. /\ loaded.seqReservationLoaded /\ loaded.reservedSeqCeiling = disk
          /\ loaded.nextSeq >= counter.nextSeq
          /\ \A s \in past : s < loaded.nextSeq
          /\ \A c \in Conversations : convSeq[c] < loaded.nextSeq
      BY <2>1, SoundLoad
    <2>3. /\ reserved.nextSeq = loaded.nextSeq /\ reserved.seqReservationLoaded
          /\ reserved.reservedSeqCeiling = disk'
          /\ reserved.nextSeq <= disk' /\ disk' \in Nat /\ disk' >= disk
      BY <2>1, <2>2, SoundReserve
    <2>4. /\ counter'.nextSeq = loaded.nextSeq + 1 /\ counter'.seqReservationLoaded
          /\ counter'.reservedSeqCeiling = disk' /\ entry.seq = loaded.nextSeq
      BY <2>1, <2>3, TakeFacts
    <2>5. loaded.nextSeq \in Nat /\ counter.nextSeq \in Nat
      BY DEF Counter, StreamTypeOK
    <2>6. proc' = "serving" /\ past' = past /\ convSeq' = convSeq
      BY <1>4 DEF StampAndBuffer
    <2>7. \A s \in past : s <= disk' /\ s < counter'.nextSeq
      BY <2>2, <2>3, <2>4, <2>5 DEF StreamTypeOK
    <2>8. \A c \in Conversations : convSeq[c] <= disk' /\ convSeq[c] < counter'.nextSeq
      BY <2>2, <2>3, <2>4, <2>5 DEF StreamTypeOK
    <2>9. \A e \in issued : e.seq < loaded.nextSeq
      BY <2>2, <2>5 DEF ReservationInv, StreamTypeOK, Entry
    <2>10. \A e \in issued' : e.seq < counter'.nextSeq
      BY <2>1, <2>4, <2>5, <2>9 DEF StreamTypeOK, Entry
    <2>11. NoReissue'
      <3>1. \A e \in issued' : e.seq \notin past'
        BY <2>1, <2>2, <2>4, <2>5, <2>6 DEF ReservationInv, NoReissue
      <3>2. \A e, f \in issued' : e.seq = f.seq => e = f
        BY <2>1, <2>4, <2>5, <2>9 DEF ReservationInv, NoReissue
      <3>3. QED
        BY <3>1, <3>2 DEF NoReissue
    <2>12. counter'.nextSeq <= disk' + 1
      BY <2>3, <2>4, <2>5
    <2>13. QED
      BY <2>4, <2>6, <2>7, <2>8, <2>10, <2>11, <2>12 DEF ReservationInv
  <1>5. CASE SweepRing
    BY <1>5 DEF SweepRing, ReservationInv, NoReissue
  <1>6. CASE LoadOnGetCurrentSeq
    <2>1. /\ counter'.seqReservationLoaded /\ counter'.reservedSeqCeiling = disk
          /\ counter'.nextSeq <= disk + 1 /\ counter'.nextSeq >= counter.nextSeq
          /\ counter' \in Counter
          /\ \A s \in past : s < counter'.nextSeq
          /\ \A c \in Conversations : convSeq[c] < counter'.nextSeq
      BY <1>6, SoundLoad DEF LoadOnGetCurrentSeq
    <2>2. \A e \in issued : e.seq < counter'.nextSeq
      BY <2>1 DEF ReservationInv, StreamTypeOK, Entry, Counter
    <2>3. QED
      BY <1>6, <2>1, <2>2 DEF LoadOnGetCurrentSeq, ReservationInv, NoReissue
  <1>7. ASSUME NEW conv \in Conversations, NEW seq \in 1..(counter.nextSeq - 1),
               RecordConversationPersistedSeq(conv, seq)
        PROVE  ReservationInv'
    <2>1. \A c \in Conversations : convSeq'[c] = convSeq[c] \/ convSeq'[c] = seq
      BY <1>7 DEF RecordConversationPersistedSeq, StreamTypeOK
    <2>2. seq < counter.nextSeq /\ seq <= disk
      BY <1>7 DEF RecordConversationPersistedSeq, ReservationInv, StreamTypeOK, Counter
    <2>3. QED
      BY <1>7, <2>1, <2>2 DEF RecordConversationPersistedSeq, ReservationInv, NoReissue
  <1>8. CASE Crash
    <2>1. \A s \in past' : s <= disk
      BY <1>8 DEF Crash, Seqs, ReservationInv, StreamTypeOK, Entry, Counter
    <2>2. QED
      BY <1>8, <2>1, FreshCounterFacts DEF Crash, ReservationInv, NoReissue
  <1>9. CASE UNCHANGED streamVars
    BY <1>9 DEF streamVars, ReservationInv, NoReissue
  <1>10. QED
    BY <1>1, <1>2, <1>3, <1>4, <1>5, <1>6, <1>7, <1>8, <1>9 DEF StreamNext

\* Whatever the block size and however often the daemon dies, no event gets a
\* seq another event already has, as long as reads and writes of the
\* reservation file succeed.  The startup floor is not needed for it.
THEOREM ReservationPreventsReissue == SoundFile => (StreamSpec => []NoReissue)
  <1> SUFFICES ASSUME SoundFile PROVE StreamSpec => []NoReissue
    OBVIOUS
  <1>1. StreamInit => ReservationInv
    BY FreshCounterFacts DEF StreamInit, ReservationInv, NoReissue
  <1>2. StreamTypeOK /\ ReservationInv /\ [StreamNext]_streamVars => ReservationInv'
    BY ReservationStep
  <1>3. ReservationInv => NoReissue
    BY DEF ReservationInv
  <1>4. QED
    BY <1>1, <1>2, <1>3, StreamTypeCorrect, PTL DEF StreamSpec

----------------------------------------------------------------------------
(* The gap a restart may leave is bounded.  BoundedRestartGap speaks of the *)
(* counter, which a crash resets; what survives the crash is the file, so   *)
(* the strengthening bounds the ceiling on disk by a seq some event carries.*)

GapInv == \E s \in past \cup Seqs(issued) \cup {0} : disk < s + Block

\* With a sound file the startup floor never has to raise the counter: the
\* highest anchor is below the counter that was loaded.
LEMMA SoundFloorLeavesFile ==
  ASSUME SoundFile, StreamTypeOK, ReservationInv, FloorSeqAbove
  PROVE  disk' = disk
  <1>1. PICK h \in {0} \cup {convSeq[c] : c \in Conversations}, r \in ReadReservedCeiling :
          FloorNotNeeded(LoadSeqReservation(counter, r), h) => disk' = disk
    BY Zenon DEF FloorSeqAbove
  <1> DEFINE loaded == LoadSeqReservation(counter, r)
  <1>2. /\ loaded \in Counter
        /\ \A c \in Conversations : convSeq[c] < loaded.nextSeq
    BY SoundLoad
  <1>3. h < loaded.nextSeq
    BY <1>2 DEF Counter
  <1>4. QED
    BY <1>1, <1>3 DEF FloorNotNeeded

\* A stamp either leaves the file alone or puts its ceiling less than a block
\* above the seq it hands out.
LEMMA SoundStampReserves ==
  ASSUME SoundFile, StreamTypeOK, ReservationInv,
         NEW conv \in Conversations, NEW t \in Targetings, StampAndBuffer(conv, t)
  PROVE  \E e \in issued' : /\ issued' = issued \cup {e}
                            /\ disk' = disk \/ disk' < e.seq + Block
  <1>1. PICK r1 \in ReadReservedCeiling, r2 \in ReadReservedCeiling,
             written \in WriteSucceeds, loaded \in Counter,
             reserved \in Counter, entry \in Entry :
          /\ loaded = LoadSeqReservation(counter, r1)
          /\ reserved = ReserveSeqCapacity(loaded, r2)
          /\ entry = [seq |-> reserved.nextSeq, conv |-> conv, targeting |-> t]
          /\ counter' = TakeSeq(reserved)
          /\ disk' = DiskAfterReserve(loaded, reserved, written)
          /\ ring' \in Evict(ring \cup {entry})
          /\ issued' = issued \cup {entry}
    BY StampSteps
  <1>2. CASE ~NeedsReservation(loaded)
    BY <1>1, <1>2 DEF DiskAfterReserve
  <1>3. CASE NeedsReservation(loaded)
    <2>1. written = TRUE
      BY DEF SoundFile, WriteSucceeds
    <2>2. disk' = reserved.reservedSeqCeiling
      BY <1>1, <1>3, <2>1 DEF DiskAfterReserve
    <2>3. reserved.reservedSeqCeiling = reserved.nextSeq + Block - 1
      BY <1>1, <1>3 DEF ReserveSeqCapacity, Counter
    <2>4. entry.seq = reserved.nextSeq /\ reserved.nextSeq \in Nat /\ Block \in Nat
      BY <1>1, Constants DEF Counter, ConstantsOK
    <2>5. disk' < entry.seq + Block
      BY <2>2, <2>3, <2>4
    <2>6. QED
      BY <1>1, <2>5
  <1>4. QED
    BY <1>2, <1>3

LEMMA GapStep ==
  ASSUME SoundFile, StreamTypeOK, ReservationInv, GapInv, [StreamNext]_streamVars
  PROVE  GapInv'
  <1>1. CASE disk' = disk /\ past \cup Seqs(issued) \subseteq past' \cup Seqs(issued')
    BY <1>1 DEF GapInv
  <1>2. CASE FloorSeqAbove
    BY <1>1, <1>2, SoundFloorLeavesFile DEF FloorSeqAbove
  <1>3. ASSUME NEW conv \in Conversations, NEW t \in Targetings, StampAndBuffer(conv, t)
        PROVE  GapInv'
    <2>1. PICK e \in issued' : /\ issued' = issued \cup {e}
                               /\ disk' = disk \/ disk' < e.seq + Block
      BY <1>3, SoundStampReserves
    <2>2. past' = past /\ Seqs(issued) \subseteq Seqs(issued') /\ e.seq \in Seqs(issued')
      BY <1>3, <2>1 DEF StampAndBuffer, Seqs
    <2>3. CASE disk' = disk
      BY <1>1, <2>2, <2>3
    <2>4. CASE disk' < e.seq + Block
      BY <2>2, <2>4 DEF GapInv
    <2>5. QED
      BY <2>1, <2>3, <2>4
  <1>4. CASE Crash
    BY <1>1, <1>4 DEF Crash
  <1>5. CASE \/ StartProcess \/ FloorSkipped \/ SweepRing \/ LoadOnGetCurrentSeq
             \/ UNCHANGED streamVars
    BY <1>1, <1>5 DEF StartProcess, FloorSkipped, SweepRing, LoadOnGetCurrentSeq, streamVars
  <1>6. ASSUME NEW conv \in Conversations, NEW seq \in 1..(counter.nextSeq - 1),
               RecordConversationPersistedSeq(conv, seq)
        PROVE  GapInv'
    BY <1>1, <1>6 DEF RecordConversationPersistedSeq
  <1>7. QED
    BY <1>2, <1>3, <1>4, <1>5, <1>6 DEF StreamNext

\* However often the daemon restarts and whatever it leaves unused, the next
\* seq is within one block of a seq that some event carries, as long as reads
\* and writes of the reservation file succeed: crashes do not add up.
THEOREM RestartGapIsBounded == SoundFile => (StreamSpec => []BoundedRestartGap)
  <1> SUFFICES ASSUME SoundFile PROVE StreamSpec => []BoundedRestartGap
    OBVIOUS
  <1>1. StreamInit => ReservationInv
    BY FreshCounterFacts DEF StreamInit, ReservationInv, NoReissue
  <1>2. StreamInit => GapInv
    BY Constants DEF StreamInit, GapInv, ConstantsOK
  <1>3. StreamTypeOK /\ ReservationInv /\ [StreamNext]_streamVars => ReservationInv'
    BY ReservationStep
  <1>4. StreamTypeOK /\ ReservationInv /\ GapInv /\ [StreamNext]_streamVars => GapInv'
    BY GapStep
  <1>5. StreamTypeOK /\ ReservationInv /\ GapInv => BoundedRestartGap
    <2> SUFFICES ASSUME StreamTypeOK, ReservationInv, GapInv PROVE BoundedRestartGap
      OBVIOUS
    <2>1. PICK s \in past \cup Seqs(issued) \cup {0} : disk < s + Block
      BY DEF GapInv
    <2>2. s \in Nat /\ Block \in Nat \ {0} /\ disk \in Nat /\ counter.nextSeq \in Nat
      BY Constants DEF StreamTypeOK, Seqs, Entry, Counter, ConstantsOK
    <2>3. CASE counter.seqReservationLoaded
      <3>1. counter.nextSeq <= disk + 1
        BY <2>3 DEF ReservationInv
      <3>2. counter.nextSeq <= s + Block
        BY <2>1, <2>2, <3>1
      <3>3. QED
        BY <3>2 DEF BoundedRestartGap
    <2>4. CASE ~counter.seqReservationLoaded
      <3>1. counter.nextSeq <= 0 + Block
        BY <2>2, <2>4 DEF ReservationInv
      <3>2. QED
        BY <3>1 DEF BoundedRestartGap
    <2>5. QED
      BY <2>3, <2>4
  <1>6. QED
    BY <1>1, <1>2, <1>3, <1>4, <1>5, StreamTypeCorrect, PTL DEF StreamSpec

----------------------------------------------------------------------------
(* The counter stands above every persisted anchor, if the file is sound or *)
(* the startup floor runs.                                                  *)

FloorInv ==
  /\ proc = "serving" <=> counter.seqReservationLoaded
  /\ CounterAboveAnchors

LEMMA FloorStep ==
  ASSUME ~FloorFaults, StreamTypeOK, FloorInv, [StreamNext]_streamVars
  PROVE  FloorInv'
  <1>1. CASE StartProcess
    BY <1>1, FreshCounterFacts DEF StartProcess, FloorInv, CounterAboveAnchors
  <1>2. CASE FloorSeqAbove
    <2>1. PICK r1 \in ReadReservedCeiling, r2 \in ReadReservedCeiling,
               written \in WriteSucceeds, highest \in Nat,
               loaded \in Counter, raised \in Counter, reserved \in Counter :
           /\ loaded = LoadSeqReservation(counter, r1)
           /\ raised = RaiseAbove(loaded, highest)
           /\ reserved = ReserveSeqCapacity(raised, r2)
           /\ IsMaxPersistedSeq(highest)
           /\ \/ /\ highest < loaded.nextSeq
                 /\ counter' = loaded
                 /\ disk' = disk
              \/ /\ highest >= loaded.nextSeq
                 /\ counter' = reserved
                 /\ disk' = DiskAfterReserve(raised, reserved, written)
      BY <1>2, FloorSteps
    <2>2. r1 \in Nat /\ r2 \in Nat /\ counter \in Counter
      BY ReadsAreNat DEF StreamTypeOK
    <2>3. loaded.seqReservationLoaded
      BY <2>1, <2>2, LoadFacts
    <2>4. raised.seqReservationLoaded /\ raised.nextSeq = highest + 1
      BY <2>1, <2>3, RaiseFacts
    <2>5. reserved.seqReservationLoaded /\ reserved.nextSeq >= highest + 1
      BY <2>1, <2>2, <2>4, ReserveFacts
    <2>6. counter'.seqReservationLoaded
      BY <2>1, <2>3, <2>5
    <2>7. highest < counter'.nextSeq
      <3>1. reserved.nextSeq \in Nat
        BY DEF Counter
      <3>2. highest < reserved.nextSeq
        BY <2>5, <3>1
      <3>3. QED
        BY <2>1, <3>2
    <2>8. \A c \in Conversations : convSeq[c] < counter'.nextSeq
      <3>1. counter'.nextSeq \in Nat
        BY <2>1 DEF Counter
      <3>2. \A c \in Conversations : convSeq[c] <= highest
        BY <2>1 DEF IsMaxPersistedSeq
      <3>3. QED
        BY <2>7, <3>1, <3>2 DEF StreamTypeOK
    <2>9. proc' = "serving" /\ convSeq' = convSeq
      BY <1>2 DEF FloorSeqAbove
    <2>10. QED
      BY <2>6, <2>8, <2>9 DEF FloorInv, CounterAboveAnchors
  <1>3. CASE FloorSkipped
    BY <1>3 DEF FloorSkipped
  <1>4. ASSUME NEW conv \in Conversations, NEW t \in Targetings, StampAndBuffer(conv, t)
        PROVE  FloorInv'
    <2>1. PICK r1 \in ReadReservedCeiling, r2 \in ReadReservedCeiling,
               written \in WriteSucceeds, loaded \in Counter,
               reserved \in Counter, entry \in Entry :
            /\ loaded = LoadSeqReservation(counter, r1)
            /\ reserved = ReserveSeqCapacity(loaded, r2)
            /\ entry = [seq |-> reserved.nextSeq, conv |-> conv, targeting |-> t]
            /\ counter' = TakeSeq(reserved)
            /\ disk' = DiskAfterReserve(loaded, reserved, written)
            /\ ring' \in Evict(ring \cup {entry})
            /\ issued' = issued \cup {entry}
      BY <1>4, StampSteps
    <2>2. r1 \in Nat /\ r2 \in Nat /\ counter \in Counter
      BY ReadsAreNat DEF StreamTypeOK
    <2>3. loaded.nextSeq >= counter.nextSeq /\ loaded.seqReservationLoaded
      BY <2>1, <2>2, LoadFacts
    <2>4. reserved.nextSeq >= loaded.nextSeq /\ reserved.seqReservationLoaded
      BY <2>1, <2>2, <2>3, ReserveFacts
    <2>5. counter'.nextSeq = reserved.nextSeq + 1 /\ counter'.seqReservationLoaded
      BY <2>1, <2>4, TakeFacts
    <2>6. counter'.nextSeq > counter.nextSeq
      <3>1. /\ reserved.nextSeq \in Nat /\ loaded.nextSeq \in Nat
            /\ counter.nextSeq \in Nat
        BY <2>2 DEF Counter
      <3>2. reserved.nextSeq >= loaded.nextSeq /\ loaded.nextSeq >= counter.nextSeq
        BY <2>3, <2>4, Zenon
      <3>3. counter'.nextSeq = reserved.nextSeq + 1
        BY <2>5, Zenon
      <3>4. QED
        BY <3>1, <3>2, <3>3
    <2>7. proc = "serving" /\ proc' = "serving" /\ convSeq' = convSeq
      BY <1>4 DEF StampAndBuffer
    <2>8. \A c \in Conversations : convSeq[c] < counter.nextSeq
      BY <2>7 DEF FloorInv, CounterAboveAnchors
    <2>9. \A c \in Conversations : convSeq[c] < counter'.nextSeq
      <3>1. counter.nextSeq \in Nat /\ counter'.nextSeq \in Nat
        BY <2>1, <2>2, TakeFacts DEF Counter
      <3>2. QED
        BY <2>6, <2>8, <3>1 DEF StreamTypeOK
    <2>10. QED
      BY <2>5, <2>7, <2>9 DEF FloorInv, CounterAboveAnchors
  <1>5. CASE SweepRing
    BY <1>5 DEF SweepRing, FloorInv, CounterAboveAnchors
  <1>6. CASE LoadOnGetCurrentSeq
    <2>1. counter' = counter
      BY <1>6, LoadFacts, ReadsAreNat DEF LoadOnGetCurrentSeq, FloorInv, StreamTypeOK
    <2>2. QED
      BY <1>6, <2>1 DEF LoadOnGetCurrentSeq, FloorInv, CounterAboveAnchors
  <1>7. ASSUME NEW conv \in Conversations, NEW seq \in 1..(counter.nextSeq - 1),
               RecordConversationPersistedSeq(conv, seq)
        PROVE  FloorInv'
    <2>1. \A c \in Conversations : convSeq'[c] = convSeq[c] \/ convSeq'[c] = seq
      BY <1>7 DEF RecordConversationPersistedSeq, StreamTypeOK
    <2>2. QED
      BY <1>7, <2>1 DEF RecordConversationPersistedSeq, FloorInv, CounterAboveAnchors
  <1>8. CASE Crash
    BY <1>8, FreshCounterFacts DEF Crash, FloorInv, CounterAboveAnchors
  <1>9. CASE UNCHANGED streamVars
    BY <1>9 DEF streamVars, FloorInv, CounterAboveAnchors
  <1>10. QED
    BY <1>1, <1>2, <1>3, <1>4, <1>5, <1>6, <1>7, <1>8, <1>9 DEF StreamNext

\* Either protection alone keeps the counter above every anchor a client may
\* hold: a sound reservation file even if the floor is skipped, or the floor
\* even if every read and write of the file fails.
THEOREM AnchorsAreSafe ==
  SoundFile \/ ~FloorFaults => (StreamSpec => []CounterAboveAnchors)
  <1>1. CASE SoundFile
    <2>1. StreamInit => ReservationInv
      BY FreshCounterFacts DEF StreamInit, ReservationInv, NoReissue
    <2>2. StreamTypeOK /\ ReservationInv /\ [StreamNext]_streamVars => ReservationInv'
      BY <1>1, ReservationStep
    <2>3. ReservationInv => CounterAboveAnchors
      BY DEF ReservationInv, CounterAboveAnchors
    <2>4. QED
      BY <2>1, <2>2, <2>3, StreamTypeCorrect, PTL DEF StreamSpec
  <1>2. CASE ~FloorFaults
    <2>1. StreamInit => FloorInv
      BY FreshCounterFacts DEF StreamInit, FloorInv, CounterAboveAnchors
    <2>2. StreamTypeOK /\ FloorInv /\ [StreamNext]_streamVars => FloorInv'
      BY <1>2, FloorStep
    <2>3. FloorInv => CounterAboveAnchors
      BY DEF FloorInv
    <2>4. QED
      BY <2>1, <2>2, <2>3, StreamTypeCorrect, PTL DEF StreamSpec
  <1>3. QED
    BY <1>1, <1>2

----------------------------------------------------------------------------
(* Replay is complete.  The ring is a suffix of what the process stamped,   *)
(* and firstStampedSeq is a lower bound of it; that holds whatever fails,   *)
(* because within a process the counter only moves forward.                 *)

ReplayInv ==
  /\ proc # "serving" => issued = {} /\ ring = {} /\ counter.firstStampedSeq = 0
  /\ counter.firstStampedSeq = 0 <=> issued = {}
  /\ ring \subseteq issued
  /\ \A e \in issued : /\ counter.firstStampedSeq <= e.seq
                       /\ e.seq < counter.nextSeq
  /\ \A e \in issued, f \in ring : f.seq <= e.seq => e \in ring

LEMMA ReplayStep ==
  ASSUME StreamTypeOK, ReplayInv, [StreamNext]_streamVars
  PROVE  ReplayInv'
  <1>1. CASE StartProcess
    BY <1>1, FreshCounterFacts DEF StartProcess, ReplayInv
  <1>2. CASE FloorSeqAbove
    <2>1. issued' = {} /\ ring' = {} /\ proc' = "serving"
      BY <1>2 DEF FloorSeqAbove, ReplayInv
    <2>2. counter'.firstStampedSeq = counter.firstStampedSeq
      <3>1. PICK r1 \in ReadReservedCeiling, r2 \in ReadReservedCeiling,
                 highest \in Nat, loaded \in Counter, raised \in Counter,
                 reserved \in Counter :
              /\ loaded = LoadSeqReservation(counter, r1)
              /\ raised = RaiseAbove(loaded, highest)
              /\ reserved = ReserveSeqCapacity(raised, r2)
              /\ counter' = loaded \/ counter' = reserved
        BY <1>2, FloorSteps
      <3>2. r1 \in Nat /\ r2 \in Nat /\ counter \in Counter
        BY ReadsAreNat DEF StreamTypeOK
      <3>3. loaded.firstStampedSeq = counter.firstStampedSeq
        BY <3>1, <3>2, LoadFacts
      <3>4. raised.firstStampedSeq = loaded.firstStampedSeq
        BY <3>1, RaiseFacts
      <3>5. reserved.firstStampedSeq = raised.firstStampedSeq
        BY <3>1, <3>2, ReserveFacts
      <3>6. QED
        BY <3>1, <3>3, <3>4, <3>5
    <2>3. counter.firstStampedSeq = 0
      BY <1>2 DEF FloorSeqAbove, ReplayInv
    <2>4. QED
      BY <2>1, <2>2, <2>3 DEF ReplayInv
  <1>3. CASE FloorSkipped
    BY <1>3 DEF FloorSkipped, ReplayInv
  <1>4. ASSUME NEW conv \in Conversations, NEW t \in Targetings, StampAndBuffer(conv, t)
        PROVE  ReplayInv'
    <2>1. PICK r1 \in ReadReservedCeiling, r2 \in ReadReservedCeiling,
               written \in WriteSucceeds, loaded \in Counter,
               reserved \in Counter, entry \in Entry :
            /\ loaded = LoadSeqReservation(counter, r1)
            /\ reserved = ReserveSeqCapacity(loaded, r2)
            /\ entry = [seq |-> reserved.nextSeq, conv |-> conv, targeting |-> t]
            /\ counter' = TakeSeq(reserved)
            /\ disk' = DiskAfterReserve(loaded, reserved, written)
            /\ ring' \in Evict(ring \cup {entry})
            /\ issued' = issued \cup {entry}
      BY <1>4, StampSteps
    <2>2. r1 \in Nat /\ r2 \in Nat /\ counter \in Counter
      BY ReadsAreNat DEF StreamTypeOK
    <2>3. loaded.nextSeq >= counter.nextSeq /\ loaded.firstStampedSeq = counter.firstStampedSeq
      BY <2>1, <2>2, LoadFacts
    <2>4. reserved.nextSeq >= loaded.nextSeq
          /\ reserved.firstStampedSeq = counter.firstStampedSeq
      BY <2>1, <2>2, <2>3, ReserveFacts
    <2>5. /\ counter'.nextSeq = reserved.nextSeq + 1
          /\ counter'.firstStampedSeq =
               IF counter.firstStampedSeq = 0 THEN reserved.nextSeq
                                              ELSE counter.firstStampedSeq
      BY <2>1, <2>4, TakeFacts
    <2>6. /\ reserved.nextSeq \in Nat \ {0} /\ loaded.nextSeq \in Nat
          /\ counter.nextSeq \in Nat /\ counter.firstStampedSeq \in Nat
          /\ reserved.nextSeq >= counter.nextSeq
      BY <2>2, <2>3, <2>4 DEF Counter
    <2>7. entry.seq = reserved.nextSeq
      BY <2>1
    <2>8. \A e \in issued : e.seq \in Nat /\ e.seq < entry.seq
      BY <2>6, <2>7 DEF ReplayInv, StreamTypeOK, Entry
    <2>9. \A e \in issued' : counter'.firstStampedSeq <= e.seq /\ e.seq < counter'.nextSeq
      <3>1. CASE counter.firstStampedSeq = 0
        <4>1. issued' = {entry}
          BY <2>1, <3>1 DEF ReplayInv
        <4>2. QED
          BY <2>5, <2>6, <2>7, <3>1, <4>1
      <3>2. CASE counter.firstStampedSeq # 0
        <4>1. \A e \in issued : counter.firstStampedSeq <= e.seq
          BY DEF ReplayInv
        <4>2. counter.firstStampedSeq <= entry.seq
          <5>1. issued # {}
            BY <3>2 DEF ReplayInv
          <5>2. QED
            BY <2>6, <2>7, <2>8, <4>1, <5>1
        <4>3. QED
          BY <2>1, <2>5, <2>6, <2>7, <2>8, <3>2, <4>1, <4>2
      <3>3. QED
        BY <3>1, <3>2
    <2>10. counter'.firstStampedSeq # 0 /\ issued' # {}
      BY <2>1, <2>5, <2>6
    <2>11. ring \cup {entry} \in SUBSET Entry /\ ring \subseteq issued
      BY DEF StreamTypeOK, ReplayInv
    <2>12. /\ ring' \subseteq ring \cup {entry}
           /\ \A e \in ring \cup {entry}, f \in ring' : f.seq <= e.seq => e \in ring'
      BY <2>1, <2>11, EvictFacts
    <2>13. ring' \subseteq issued'
      BY <2>1, <2>11, <2>12
    <2>14. \A e \in issued', f \in ring' : f.seq <= e.seq => e \in ring'
      <3>1. SUFFICES ASSUME NEW e \in issued', NEW f \in ring', f.seq <= e.seq
                     PROVE  e \in ring'
        OBVIOUS
      <3>2. CASE e = entry
        BY <2>12, <3>1, <3>2
      <3>3. CASE e \in issued
        <4>1. f # entry
          BY <2>6, <2>7, <2>8, <3>1, <3>3
        <4>2. f \in ring
          BY <2>12, <4>1
        <4>3. e \in ring
          BY <3>1, <3>3, <4>2 DEF ReplayInv
        <4>4. QED
          BY <2>12, <3>1, <4>3
      <3>4. QED
        BY <2>1, <3>2, <3>3
    <2>15. proc' = "serving"
      BY <1>4 DEF StampAndBuffer
    <2>16. QED
      BY <2>9, <2>10, <2>13, <2>14, <2>15 DEF ReplayInv
  <1>5. CASE SweepRing
    <2>1. /\ ring' \subseteq ring
          /\ \A e \in ring, f \in ring' : f.seq <= e.seq => e \in ring'
      BY <1>5, EvictFacts DEF SweepRing, StreamTypeOK
    <2>2. \A e \in issued, f \in ring' : f.seq <= e.seq => e \in ring'
      BY <2>1 DEF ReplayInv
    <2>3. QED
      BY <1>5, <2>1, <2>2 DEF SweepRing, ReplayInv
  <1>6. CASE LoadOnGetCurrentSeq
    <2>1. /\ counter'.nextSeq >= counter.nextSeq /\ counter' \in Counter
          /\ counter'.firstStampedSeq = counter.firstStampedSeq
      BY <1>6, LoadFacts, ReadsAreNat DEF LoadOnGetCurrentSeq, StreamTypeOK
    <2>2. \A e \in issued : e.seq < counter'.nextSeq
      BY <2>1 DEF ReplayInv, StreamTypeOK, Entry, Counter
    <2>3. QED
      BY <1>6, <2>1, <2>2 DEF LoadOnGetCurrentSeq, ReplayInv
  <1>7. ASSUME NEW conv \in Conversations, NEW seq \in 1..(counter.nextSeq - 1),
               RecordConversationPersistedSeq(conv, seq)
        PROVE  ReplayInv'
    BY <1>7 DEF RecordConversationPersistedSeq, ReplayInv
  <1>8. CASE Crash
    BY <1>8, FreshCounterFacts DEF Crash, ReplayInv
  <1>9. CASE UNCHANGED streamVars
    BY <1>9 DEF streamVars, ReplayInv
  <1>10. QED
    BY <1>1, <1>2, <1>3, <1>4, <1>5, <1>6, <1>7, <1>8, <1>9 DEF StreamNext

LEMMA ReplayInvImpliesComplete ==
  ASSUME StreamTypeOK, ReplayInv
  PROVE  ReplayComplete
  <1> SUFFICES ASSUME NEW kept \in Evict(ring), NEW lastSeen \in 0..counter.nextSeq,
                      kept # {}, CoversCursor(kept, lastSeen, counter.firstStampedSeq),
                      NEW e \in issued, e.seq > lastSeen
               PROVE  e \in ReplayWindow(kept, lastSeen)
    BY DEF ReplayComplete
  <1>1. /\ kept \subseteq ring
        /\ \A g \in ring, f \in kept : f.seq <= g.seq => g \in kept
    BY EvictFacts DEF StreamTypeOK
  <1>2. PICK o \in kept : \/ lastSeen >= o.seq - 1
                          \/ o.seq = counter.firstStampedSeq
    BY DEF CoversCursor
  <1>3. o.seq <= e.seq
    <2>1. o.seq \in Nat /\ e.seq \in Nat /\ lastSeen \in Nat
      BY <1>1 DEF StreamTypeOK, Entry, Counter
    <2>2. counter.firstStampedSeq <= e.seq
      BY DEF ReplayInv
    <2>3. QED
      BY <1>2, <2>1, <2>2
  <1>4. e \in ring
    BY <1>1, <1>3 DEF ReplayInv
  <1>5. QED
    BY <1>1, <1>3, <1>4 DEF ReplayWindow

\* A client that presents a cursor and is not answered null misses nothing
\* this process stamped after it, for every ring limit and every eviction, and
\* even when the reservation file and the floor fail: the counter may then
\* repeat an earlier process's seqs, but never its own.
THEOREM ReplayIsComplete == StreamSpec => []ReplayComplete
  <1>1. StreamInit => ReplayInv
    BY FreshCounterFacts DEF StreamInit, ReplayInv
  <1>2. StreamTypeOK /\ ReplayInv /\ [StreamNext]_streamVars => ReplayInv'
    BY ReplayStep
  <1>3. StreamTypeOK /\ ReplayInv => ReplayComplete
    BY ReplayInvImpliesComplete
  <1>4. QED
    BY <1>1, <1>2, <1>3, StreamTypeCorrect, PTL DEF StreamSpec

----------------------------------------------------------------------------
(* The action property: a stamp is above every anchor persisted before it.  *)

LEMMA StampAboveAnchorsStep ==
  ASSUME StreamTypeOK, FloorInv, [StreamNext]_streamVars
  PROVE  \A e \in issued' \ issued : \A c \in Conversations : convSeq[c] < e.seq
  <1>1. ASSUME NEW conv \in Conversations, NEW t \in Targetings, StampAndBuffer(conv, t)
        PROVE  \A e \in issued' \ issued : \A c \in Conversations : convSeq[c] < e.seq
    <2>1. PICK r1 \in ReadReservedCeiling, r2 \in ReadReservedCeiling,
               written \in WriteSucceeds, loaded \in Counter,
               reserved \in Counter, entry \in Entry :
            /\ loaded = LoadSeqReservation(counter, r1)
            /\ reserved = ReserveSeqCapacity(loaded, r2)
            /\ entry = [seq |-> reserved.nextSeq, conv |-> conv, targeting |-> t]
            /\ counter' = TakeSeq(reserved)
            /\ disk' = DiskAfterReserve(loaded, reserved, written)
            /\ ring' \in Evict(ring \cup {entry})
            /\ issued' = issued \cup {entry}
      BY <1>1, StampSteps
    <2>2. r1 \in Nat /\ r2 \in Nat /\ counter \in Counter
      BY ReadsAreNat DEF StreamTypeOK
    <2>3. loaded.nextSeq >= counter.nextSeq
      BY <2>1, <2>2, LoadFacts
    <2>4. reserved.nextSeq >= loaded.nextSeq
      BY <2>1, <2>2, ReserveFacts
    <2>5. /\ reserved.nextSeq \in Nat /\ loaded.nextSeq \in Nat /\ counter.nextSeq \in Nat
          /\ entry.seq = reserved.nextSeq
      BY <2>1, <2>2 DEF Counter
    <2>6. \A c \in Conversations : convSeq[c] \in Nat /\ convSeq[c] < counter.nextSeq
      BY <1>1 DEF StampAndBuffer, FloorInv, CounterAboveAnchors, StreamTypeOK
    <2>7. QED
      BY <2>1, <2>3, <2>4, <2>5, <2>6
  <1>2. CASE \A conv \in Conversations, t \in Targetings : ~StampAndBuffer(conv, t)
    <2>1. issued' \subseteq issued
      BY <1>2 DEF StreamNext, StartProcess, FloorSeqAbove, FloorSkipped, SweepRing,
                  LoadOnGetCurrentSeq, RecordConversationPersistedSeq, Crash, streamVars
    <2>2. QED
      BY <2>1
  <1>3. QED
    BY <1>1, <1>2

\* With the startup floor, no event is ever stamped at or below an anchor
\* persisted before it, whatever happens to the reservation file: a client
\* holding the anchor never discards a new event as already applied.
THEOREM StampsStayAboveAnchors == ~FloorFaults => (StreamSpec => StampsAboveAnchors)
  <1> SUFFICES ASSUME ~FloorFaults PROVE StreamSpec => StampsAboveAnchors
    OBVIOUS
  <1>1. StreamInit => FloorInv
    BY FreshCounterFacts DEF StreamInit, FloorInv, CounterAboveAnchors
  <1>2. StreamTypeOK /\ FloorInv /\ [StreamNext]_streamVars => FloorInv'
    BY FloorStep
  <1>3. StreamTypeOK /\ FloorInv /\ [StreamNext]_streamVars =>
          [\A e \in issued' \ issued : \A c \in Conversations : convSeq[c] < e.seq]_streamVars
    BY StampAboveAnchorsStep
  <1>4. QED
    BY <1>1, <1>2, <1>3, StreamTypeCorrect, PTL DEF StreamSpec, StampsAboveAnchors
============================================================================
