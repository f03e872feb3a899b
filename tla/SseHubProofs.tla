---------------------------- MODULE SseHubProofs ----------------------------
(***************************************************************************)
(* Theorems about SseHub, for any clients, plugins, targetings, limits and *)
(* faults of the reservation file: what reaches a client is for it, and    *)
(* nothing it is owed is lost; without forwarded events, a connection      *)
(* carries the events in order, however slow the plugins are; without      *)
(* plugins and with a sound reservation file it carries none at or below   *)
(* the cursor the client presented.                                        *)
(***************************************************************************)
EXTENDS SseHub, StreamStateProofs

Subscribers == Clients \cup Plugins

Distinct(s) == \A i, j \in DOMAIN s : s[i] = s[j] => i = j

\* Some publish of pubs still has to visit subscriber s with the event e.
Owes(pubs, e, s) == \E i \in DOMAIN pubs : pubs[i].entry = e /\ s \in Range(pubs[i].todo)

----------------------------------------------------------------------------
(* The invariant common to all theorems.                                    *)

TypeInv ==
  /\ subs \in Seq(Subscribers)
  /\ conns \in [Clients -> Conn \cup {NoConn}]
  /\ chain \in Seq(Entry)
  /\ running \in Seq(Publish)
  /\ cursor \in [Clients -> Nat]

\* The hub holds a subscriber once, and a client in it has an open stream.
SubsInv == Distinct(subs) /\ \A k \in Clients : Active(k) => conns[k].open

\* A publish that is not parked has somebody ahead; whoever is ahead is still
\* in the hub, and is ahead once.
RunInv ==
  \A i \in DOMAIN running :
    /\ running[i].parked \/ running[i].todo # <<>>
    /\ Distinct(running[i].todo)
    /\ \A s \in Range(running[i].todo) : s \in Range(subs)
    /\ running[i].entry \in issued

\* Connections and publishes belong to the process that serves; what they
\* carry was stamped by it, and seqs tell its events apart.
StampInv ==
  /\ proc # "serving" => /\ subs = <<>> /\ chain = <<>> /\ running = <<>>
                         /\ \A k \in Clients : conns[k] = NoConn
  /\ \A e \in Range(chain) : e \in issued
  /\ \A e, f \in issued : e.seq = f.seq => e = f

BaseInv == StreamTypeOK /\ ReplayInv /\ TypeInv /\ SubsInv /\ RunInv /\ StampInv

----------------------------------------------------------------------------
(* What each theorem adds.                                                  *)

\* Every frame is the seq of an event of this process that is for the client.
AudienceInv ==
  \A k \in Clients : conns[k].open =>
    \A i \in DOMAIN conns[k].frames :
      \E e \in issued : e.seq = conns[k].frames[i] /\ LiveMatches(e, k)

\* What a live subscription takes, the replay for the same client takes too.
ReplaysAlike ==
  \A k \in Clients, scope \in Scopes, e \in Entry :
    /\ MatchesTargeting(e.targeting, LiveIdentity(k))
    /\ e.targeting.targetClientId # Absent \/ scope \in {Absent, e.conv}
    => ReplayMatches(e, k, scope)

\* The replay mark is below the counter, and stands for frames that were
\* enqueued.
MarkInv ==
  \A k \in Clients : conns[k].open =>
    /\ conns[k].highWaterReplaySeq < counter.nextSeq
    /\ \A e \in issued :
         e.seq > conns[k].base /\ LiveMatches(e, k) /\ AlreadyReplayed(conns[k], e.seq)
           => e.seq \in Range(conns[k].frames)

LossInv == MarkInv /\ NoEventLost

\* The event comes after everything its connection has carried, or is dropped
\* by the mark.
After(e, k) ==
  \/ AlreadyReplayed(conns[k], e.seq)
  \/ \A i \in DOMAIN conns[k].frames : conns[k].frames[i] < e.seq

\* Without forwarded events one publish runs at a time, and the chain is in the
\* order of the seqs.
LaneInv ==
  /\ Len(running) <= 1
  /\ \A i \in DOMAIN running : running[i].lane = "chain"
  /\ \A i, j \in DOMAIN chain : i < j => chain[i].seq < chain[j].seq
  /\ \A e \in Range(chain), i \in DOMAIN running : running[i].entry.seq < e.seq

\* Connections carry seqs below the counter; whatever is on its way to a
\* client comes after what its connection has carried.
OrderInv ==
  /\ FramesInOrder
  /\ \A k \in Clients : conns[k].open =>
       \A i \in DOMAIN conns[k].frames : conns[k].frames[i] < counter.nextSeq
  /\ LaneInv
  /\ \A k \in Clients : Active(k) => \A e \in Entry : Pending(e, k) => After(e, k)

\* Without plugins no publish is parked; with a sound file, what a client has
\* read or is to read is below the counter, and what is on its way to it is
\* above the cursor it presented.
CursorInv ==
  /\ proc = "serving" => counter.seqReservationLoaded
  /\ \A i \in DOMAIN running : ~running[i].parked
  /\ \A k \in Clients : cursor[k] \in {0} \cup past \cup Seqs(issued)
  /\ \A k \in Clients : conns[k].open =>
       /\ conns[k].from < counter.nextSeq
       /\ Range(conns[k].queue) \subseteq {0} \cup Seqs(issued)
       /\ \A i \in DOMAIN conns[k].frames : conns[k].frames[i] > conns[k].from
  /\ \A k \in Clients : Active(k) => \A e \in Entry : Pending(e, k) => e.seq > conns[k].from

----------------------------------------------------------------------------
(* Sorting and selecting.                                                   *)

Rank(S, x) == Cardinality({y \in S : y <= x})

\* The rank is one-to-one from a finite set of numbers onto 1..Cardinality.
LEMMA RankFacts ==
  ASSUME NEW S \in SUBSET Nat, IsFiniteSet(S)
  PROVE  /\ Cardinality(S) \in Nat
         /\ \A x \in S : Rank(S, x) \in 1..Cardinality(S)
         /\ \A x, y \in S : x < y => Rank(S, x) < Rank(S, y)
         /\ \A n \in 1..Cardinality(S) : \E x \in S : Rank(S, x) = n
  <1> DEFINE Below(x) == {y \in S : y <= x}
  <1>1. Cardinality(S) \in Nat
    BY FS_CardinalityType
  <1>2. \A x \in S : /\ IsFiniteSet(Below(x)) /\ Cardinality(Below(x)) \in Nat
                     /\ Cardinality(Below(x)) <= Cardinality(S)
    <2> TAKE x \in S
    <2>1. Below(x) \in SUBSET S
      OBVIOUS
    <2>2. QED BY <2>1, FS_Subset, FS_CardinalityType
  <1>3. \A x \in S : Rank(S, x) \in 1..Cardinality(S)
    <2> TAKE x \in S
    <2>0. x \in Nat /\ x <= x
      OBVIOUS
    <2>1. x \in Below(x)
      BY <2>0
    <2>2. Cardinality(Below(x)) # 0
      BY <1>2, <2>1, FS_EmptySet
    <2>3. QED BY <1>1, <1>2, <2>2 DEF Rank
  <1>4. \A x, y \in S : x < y => Rank(S, x) < Rank(S, y)
    <2> SUFFICES ASSUME NEW x \in S, NEW y \in S, x < y
                 PROVE  Cardinality(Below(x)) < Cardinality(Below(y))
      BY DEF Rank
    <2>0. x \in Nat /\ y \in Nat /\ \A z \in S : z \in Nat
      OBVIOUS
    <2>1. Below(x) \in SUBSET Below(y) /\ y \in Below(y) /\ y \notin Below(x)
      <3>1. y \in Below(y) /\ y \notin Below(x)
        BY <2>0
      <3>2. ASSUME NEW z \in Below(x) PROVE z \in Below(y)
        <4>1. z \in S /\ z <= x /\ z \in Nat
          BY <2>0
        <4>2. z <= y
          BY <2>0, <4>1
        <4>3. QED BY <4>1, <4>2
      <3>3. QED BY <3>1, <3>2
    <2>2. /\ Cardinality(Below(x)) <= Cardinality(Below(y))
          /\ Cardinality(Below(y)) # Cardinality(Below(x))
      <3> HIDE DEF Below
      <3>1. QED BY <1>2, <2>1, FS_Subset
    <2>3. QED BY <1>2, <2>2
  <1>5. \A n \in 1..Cardinality(S) : \E x \in S : Rank(S, x) = n
    <2> DEFINE rank == [x \in S |-> Rank(S, x)]
               T == 1..Cardinality(S)
    <2>1. \A x, y \in S : rank[x] = rank[y] => x = y
      <3> SUFFICES ASSUME NEW x \in S, NEW y \in S, Rank(S, x) = Rank(S, y), x # y PROVE FALSE
        OBVIOUS
      <3>1. x < y \/ y < x
        OBVIOUS
      <3>2. Rank(S, x) \in Int /\ Rank(S, y) \in Int
        BY <1>1, <1>3
      <3>3. QED BY <1>4, <3>1, <3>2
    <2>2. rank \in [S -> T]
      BY <1>3
    <2>3. rank \in Injection(S, T)
      BY <2>1, <2>2 DEF Injection, IsInjective
    <2>4. IsFiniteSet(T) /\ Cardinality(T) = Cardinality(S)
      BY <1>1, FS_Interval
    <2>5. rank \in Surjection(S, T)
      <3> HIDE DEF T, rank
      <3>1. QED BY <2>3, <2>4, FS_Injection
    <2>6. QED BY <2>5 DEF Surjection
  <1>6. QED BY <1>1, <1>3, <1>4, <1>5

\* Ascending lists a finite set of numbers, each once, in increasing order.
LEMMA AscendingFacts ==
  ASSUME NEW S \in SUBSET Nat, IsFiniteSet(S)
  PROVE  /\ Cardinality(S) \in Nat
         /\ Ascending(S) \in [1..Cardinality(S) -> S]
         /\ \A x \in S : \E n \in 1..Cardinality(S) : Ascending(S)[n] = x
         /\ \A m, n \in 1..Cardinality(S) : m < n => Ascending(S)[m] < Ascending(S)[n]
  <1>1. \A n \in 1..Cardinality(S) : Ascending(S)[n] \in S /\ Rank(S, Ascending(S)[n]) = n
    <2> TAKE n \in 1..Cardinality(S)
    <2>1. \E x \in S : Cardinality({y \in S : y <= x}) = n
      BY RankFacts DEF Rank
    <2>2. Ascending(S)[n] = CHOOSE x \in S : Cardinality({y \in S : y <= x}) = n
      BY DEF Ascending
    <2>3. QED BY <2>1, <2>2 DEF Rank
  <1>2. Ascending(S) \in [1..Cardinality(S) -> S]
    BY <1>1 DEF Ascending
  <1>3. \A x \in S : \E n \in 1..Cardinality(S) : Ascending(S)[n] = x
    <2> TAKE x \in S
    <2>1. PICK n \in 1..Cardinality(S) : n = Rank(S, x)
      BY RankFacts
    <2> DEFINE z == Ascending(S)[n]
    <2>2. z \in S /\ Rank(S, z) = Rank(S, x)
      BY <1>1, <2>1
    <2> HIDE DEF z
    <2>3. z = x
      <3>1. z < x \/ x < z \/ z = x
        BY <2>2
      <3>2. Rank(S, z) \in Int /\ Rank(S, x) \in Int
        BY <2>2, RankFacts
      <3>3. QED BY <2>2, <3>1, <3>2, RankFacts
    <2>4. QED BY <2>3 DEF z
  <1>4. \A m, n \in 1..Cardinality(S) : m < n => Ascending(S)[m] < Ascending(S)[n]
    <2> SUFFICES ASSUME NEW m \in 1..Cardinality(S), NEW n \in 1..Cardinality(S), m < n
                 PROVE  Ascending(S)[m] < Ascending(S)[n]
      OBVIOUS
    <2> DEFINE x == Ascending(S)[m]
               y == Ascending(S)[n]
    <2>1. x \in S /\ y \in S /\ Rank(S, x) = m /\ Rank(S, y) = n
      BY <1>1
    <2> HIDE DEF x, y
    <2>2. x < y \/ y < x \/ x = y
      BY <2>1
    <2>3. Cardinality(S) \in Nat
      BY RankFacts
    <2>4. ~(y < x) /\ x # y
      BY <2>1, <2>3, RankFacts
    <2>5. QED BY <2>2, <2>4 DEF x, y
  <1>5. QED BY <1>2, <1>3, <1>4, RankFacts

\* KeepAt keeps the elements at the positions, one for each.
LEMMA KeepFacts ==
  ASSUME NEW T, NEW s \in Seq(T), NEW K \in SUBSET (DOMAIN s)
  PROVE  /\ KeepAt(s, K) \in Seq(T)
         /\ Len(KeepAt(s, K)) = Cardinality(K) /\ Cardinality(K) \in Nat
         /\ Cardinality(K) <= Len(s)
         /\ DOMAIN KeepAt(s, K) = 1..Cardinality(K)
         /\ \A n \in 1..Cardinality(K) : /\ Ascending(K)[n] \in K
                                         /\ KeepAt(s, K)[n] = s[Ascending(K)[n]]
         /\ \A i \in K : \E n \in 1..Cardinality(K) : KeepAt(s, K)[n] = s[i]
         /\ \A m, n \in 1..Cardinality(K) : Ascending(K)[m] = Ascending(K)[n] => m = n
  <1>1. DOMAIN s = 1..Len(s) /\ Len(s) \in Nat
    OBVIOUS
  <1>2. IsFiniteSet(DOMAIN s) /\ Cardinality(DOMAIN s) = Len(s)
    <2> DEFINE n == Len(s)
    <2>1. n \in Nat /\ DOMAIN s = 1..n
      BY <1>1
    <2> HIDE DEF n
    <2>2. IsFiniteSet(1..n) /\ Cardinality(1..n) = n
      BY <2>1, FS_Interval
    <2>3. QED BY <2>1, <2>2 DEF n
  <1>3. K \in SUBSET Nat /\ IsFiniteSet(K) /\ Cardinality(K) <= Len(s)
    BY <1>1, <1>2, FS_Subset
  <1>4. /\ Cardinality(K) \in Nat
        /\ \A n \in 1..Cardinality(K) : Ascending(K)[n] \in K
        /\ \A i \in K : \E n \in 1..Cardinality(K) : Ascending(K)[n] = i
        /\ \A m, n \in 1..Cardinality(K) : m < n => Ascending(K)[m] < Ascending(K)[n]
    BY <1>3, AscendingFacts
  <1>5. /\ DOMAIN KeepAt(s, K) = 1..Cardinality(K)
        /\ \A n \in 1..Cardinality(K) : KeepAt(s, K)[n] = s[Ascending(K)[n]]
    BY DEF KeepAt
  <1>6. KeepAt(s, K) \in [1..Cardinality(K) -> T]
    <2>1. \A n \in 1..Cardinality(K) : s[Ascending(K)[n]] \in T
      BY <1>1, <1>4
    <2>2. QED BY <2>1 DEF KeepAt
  <1>7. KeepAt(s, K) \in Seq(T) /\ Len(KeepAt(s, K)) = Cardinality(K)
    BY <1>4, <1>6
  <1>8. \A m, n \in 1..Cardinality(K) : Ascending(K)[m] = Ascending(K)[n] => m = n
    <2> SUFFICES ASSUME NEW m \in 1..Cardinality(K), NEW n \in 1..Cardinality(K),
                        Ascending(K)[m] = Ascending(K)[n], m # n
                 PROVE  FALSE
      OBVIOUS
    <2>1. m < n \/ n < m
      BY <1>4
    <2>2. Ascending(K)[m] \in Nat
      BY <1>3, <1>4
    <2>3. QED BY <1>4, <2>1, <2>2
  <1>9. QED BY <1>3, <1>4, <1>5, <1>7, <1>8

LEMMA RangeFacts ==
  ASSUME NEW f, NEW x
  PROVE  x \in Range(f) <=> \E i \in DOMAIN f : f[i] = x
  BY DEF Range

LEMMA WithoutFacts ==
  ASSUME NEW T, NEW s \in Seq(T), NEW gone
  PROVE  /\ Without(s, gone) \in Seq(T)
         /\ \A x : x \in Range(Without(s, gone)) <=> x \in Range(s) /\ x \notin gone
         /\ Distinct(s) => Distinct(Without(s, gone))
  <1> DEFINE K == {i \in DOMAIN s : s[i] \notin gone}
             t == Without(s, gone)
  <1>1. K \in SUBSET (DOMAIN s) /\ t = KeepAt(s, K)
    BY DEF Without
  <1>2. /\ t \in Seq(T) /\ DOMAIN t = 1..Cardinality(K)
        /\ \A n \in 1..Cardinality(K) : Ascending(K)[n] \in K /\ t[n] = s[Ascending(K)[n]]
        /\ \A i \in K : \E n \in 1..Cardinality(K) : t[n] = s[i]
    <2> HIDE DEF t, K
    <2>1. QED BY <1>1, KeepFacts
  <1>a. \A m, n \in 1..Cardinality(K) : Ascending(K)[m] = Ascending(K)[n] => m = n
    <2> HIDE DEF t, K
    <2>1. QED BY <1>1, KeepFacts
  <1>3. ASSUME NEW x PROVE x \in Range(t) <=> x \in Range(s) /\ x \notin gone
    <2>1. ASSUME x \in Range(t) PROVE x \in Range(s) /\ x \notin gone
      <3>1. PICK n \in 1..Cardinality(K) : x = t[n]
        BY <1>2, <2>1 DEF Range
      <3>2. Ascending(K)[n] \in K /\ x = s[Ascending(K)[n]]
        BY <1>2, <3>1
      <3>3. QED BY <3>2 DEF Range
    <2>2. ASSUME x \in Range(s), x \notin gone PROVE x \in Range(t)
      <3>1. PICK i \in K : x = s[i]
        BY <2>2 DEF Range
      <3>2. PICK n \in 1..Cardinality(K) : t[n] = s[i]
        BY <1>2
      <3> HIDE DEF t, K
      <3>3. QED BY <1>2, <3>1, <3>2 DEF Range
    <2>3. QED BY <2>1, <2>2
  <1>4. Distinct(s) => Distinct(t)
    <2> SUFFICES ASSUME Distinct(s), NEW m \in DOMAIN t, NEW n \in DOMAIN t, t[m] = t[n]
                 PROVE  m = n
      BY DEF Distinct
    <2>1. Ascending(K)[m] = Ascending(K)[n]
      BY <1>2 DEF Distinct
    <2>2. QED BY <1>2, <1>a, <2>1
  <1>5. QED BY <1>2, <1>3, <1>4

LEMMA TailFacts ==
  ASSUME NEW T, NEW s \in Seq(T), s # <<>>
  PROVE  /\ Head(s) \in T /\ Tail(s) \in Seq(T) /\ Head(s) \in Range(s)
         /\ \A x : x \in Range(s) <=> x = Head(s) \/ x \in Range(Tail(s))
         /\ Distinct(s) => Distinct(Tail(s)) /\ Head(s) \notin Range(Tail(s))
  <1>1. /\ Head(s) = s[1] /\ Tail(s) \in Seq(T) /\ Len(s) \in Nat \ {0} /\ Head(s) \in T
        /\ DOMAIN s = 1..Len(s) /\ DOMAIN Tail(s) = 1..(Len(s) - 1)
        /\ \A i \in 1..(Len(s) - 1) : Tail(s)[i] = s[i + 1]
    OBVIOUS
  <1>2. \A x : x \in Range(s) <=> x = Head(s) \/ x \in Range(Tail(s))
    <2> TAKE x
    <2>1. ASSUME x \in Range(s), x # Head(s) PROVE x \in Range(Tail(s))
      <3>1. PICK i \in 1..Len(s) : s[i] = x
        BY <1>1, <2>1, RangeFacts
      <3>2. i - 1 \in 1..(Len(s) - 1) /\ Tail(s)[i - 1] = s[i]
        BY <1>1, <2>1, <3>1
      <3>3. QED BY <1>1, <3>1, <3>2, RangeFacts
    <2>2. ASSUME x \in Range(Tail(s)) PROVE x \in Range(s)
      <3>1. PICK i \in 1..(Len(s) - 1) : Tail(s)[i] = x
        BY <1>1, <2>2 DEF Range
      <3>2. i + 1 \in 1..Len(s) /\ s[i + 1] = x
        BY <1>1, <3>1
      <3>3. QED BY <1>1, <3>2, RangeFacts
    <2>3. ASSUME x = Head(s) PROVE x \in Range(s)
      <3>1. 1 \in DOMAIN s
        BY <1>1
      <3>2. QED BY <1>1, <2>3, <3>1, RangeFacts
    <2>4. QED BY <2>1, <2>2, <2>3
  <1>3. ASSUME Distinct(s) PROVE Distinct(Tail(s)) /\ Head(s) \notin Range(Tail(s))
    <2>1. \A i \in 1..(Len(s) - 1) : i + 1 \in DOMAIN s /\ i + 1 # 1
      BY <1>1
    <2>2. 1 \in DOMAIN s
      BY <1>1
    <2>3. Distinct(Tail(s))
      BY <1>1, <1>3, <2>1 DEF Distinct
    <2>4. ASSUME Head(s) \in Range(Tail(s)) PROVE FALSE
      <3>1. PICK i \in 1..(Len(s) - 1) : Tail(s)[i] = s[1]
        BY <1>1, <2>4 DEF Range
      <3>2. QED BY <1>1, <1>3, <2>1, <2>2, <3>1 DEF Distinct
    <2>5. QED BY <2>3, <2>4
  <1>4. QED BY <1>1, <1>2, <1>3

LEMMA AppendFacts ==
  ASSUME NEW T, NEW s \in Seq(T), NEW x \in T
  PROVE  /\ Append(s, x) \in Seq(T) /\ Len(Append(s, x)) = Len(s) + 1
         /\ DOMAIN s = 1..Len(s) /\ Len(s) \in Nat
         /\ DOMAIN Append(s, x) = 1..(Len(s) + 1)
         /\ \A i \in DOMAIN s : i \in DOMAIN Append(s, x) /\ Append(s, x)[i] = s[i]
         /\ Append(s, x)[Len(s) + 1] = x /\ Len(s) + 1 \in DOMAIN Append(s, x)
         /\ \A y : y \in Range(Append(s, x)) <=> y \in Range(s) \/ y = x
  <1>1. /\ Append(s, x) \in Seq(T) /\ Len(Append(s, x)) = Len(s) + 1
        /\ DOMAIN s = 1..Len(s) /\ Len(s) \in Nat
        /\ DOMAIN Append(s, x) = 1..(Len(s) + 1)
        /\ \A i \in DOMAIN s : i \in DOMAIN Append(s, x) /\ Append(s, x)[i] = s[i]
        /\ Append(s, x)[Len(s) + 1] = x /\ Len(s) + 1 \in DOMAIN Append(s, x)
    OBVIOUS
  <1>2. \A i \in DOMAIN Append(s, x) : i \in DOMAIN s \/ i = Len(s) + 1
    BY <1>1
  <1>3. ASSUME NEW y PROVE y \in Range(Append(s, x)) <=> y \in Range(s) \/ y = x
    <2>1. ASSUME y \in Range(Append(s, x)) PROVE y \in Range(s) \/ y = x
      <3>1. PICK i \in DOMAIN Append(s, x) : y = Append(s, x)[i]
        BY <2>1 DEF Range
      <3>2. QED BY <1>1, <1>2, <3>1 DEF Range
    <2>2. ASSUME y \in Range(s) PROVE y \in Range(Append(s, x))
      <3>1. PICK i \in DOMAIN s : y = s[i]
        BY <2>2 DEF Range
      <3>2. QED BY <1>1, <3>1 DEF Range
    <2>3. x \in Range(Append(s, x))
      BY <1>1 DEF Range
    <2>4. QED BY <2>1, <2>2, <2>3
  <1>4. QED BY <1>1, <1>3

----------------------------------------------------------------------------
(* How the list of publishes changes.                                       *)

\* The publishes new come from old: the one at `at` (if any) is done with its
\* next subscriber, nobody in gone is ahead of any of them, one may be parked.
Moved(old, new, at, gone, parks) ==
  /\ new \in Seq(Publish)
  /\ Len(new) <= Len(old)
  /\ \A n \in DOMAIN new : \E i \in DOMAIN old :
       /\ new[n].entry = old[i].entry /\ new[n].lane = old[i].lane
       /\ new[n].parked => old[i].parked \/ parks
       /\ \A s \in Range(new[n].todo) : s \in Range(old[i].todo) /\ s \notin gone
       /\ Distinct(old[i].todo) => Distinct(new[n].todo)
       /\ i = at /\ Distinct(old[i].todo) => Head(old[i].todo) \notin Range(new[n].todo)
  /\ \A e, s : Owes(old, e, s) /\ s \notin gone =>
       \/ Owes(new, e, s)
       \/ at \in DOMAIN old /\ e = old[at].entry /\ s = Head(old[at].todo)

LEMMA UnsettledMoves ==
  ASSUME NEW old, NEW pubs, NEW at, NEW gone, NEW parks, Moved(old, pubs, at, gone, parks),
         Len(old) \in Nat
  PROVE  /\ Moved(old, Unsettled(pubs), at, gone, parks)
         /\ \A n \in DOMAIN Unsettled(pubs) :
              Unsettled(pubs)[n].parked \/ Unsettled(pubs)[n].todo # <<>>
  <1> DEFINE K == {i \in DOMAIN pubs : pubs[i].parked \/ pubs[i].todo # <<>>}
             new == Unsettled(pubs)
  <1>1. K \in SUBSET (DOMAIN pubs) /\ new = KeepAt(pubs, K) /\ pubs \in Seq(Publish)
    BY DEF Unsettled, Moved
  <1>2. /\ new \in Seq(Publish) /\ DOMAIN new = 1..Cardinality(K) /\ Len(new) <= Len(pubs)
        /\ \A n \in 1..Cardinality(K) : Ascending(K)[n] \in K /\ new[n] = pubs[Ascending(K)[n]]
        /\ \A i \in K : \E n \in 1..Cardinality(K) : new[n] = pubs[i]
    <2> HIDE DEF new, K
    <2>1. QED BY <1>1, KeepFacts
  <1>3. \A n \in DOMAIN new : \E i \in K : new[n] = pubs[i]
    BY <1>2
  <1>4. ASSUME NEW e, NEW s, Owes(pubs, e, s) PROVE Owes(new, e, s)
    <2>1. PICK i \in DOMAIN pubs : pubs[i].entry = e /\ s \in Range(pubs[i].todo)
      BY <1>4 DEF Owes
    <2>2. pubs[i].todo # <<>>
      BY <2>1, RangeFacts
    <2>3. PICK n \in DOMAIN new : new[n] = pubs[i]
      BY <1>2, <2>2
    <2>4. QED BY <2>1, <2>3 DEF Owes
  <1>5. Len(new) <= Len(old)
    <2>1. Len(new) \in Nat /\ Len(pubs) \in Nat
      BY <1>1, <1>2
    <2>2. QED BY <1>2, <2>1 DEF Moved
  <1>6. \A n \in DOMAIN new : new[n].parked \/ new[n].todo # <<>>
    BY <1>3
  <1> HIDE DEF new, K
  <1>7. Moved(old, new, at, gone, parks)
    <2>1. \A n \in DOMAIN new : \E m \in DOMAIN pubs : new[n] = pubs[m]
      BY <1>1, <1>3
    <2>2. ASSUME NEW n \in DOMAIN new
          PROVE \E i \in DOMAIN old :
                  /\ new[n].entry = old[i].entry /\ new[n].lane = old[i].lane
                  /\ new[n].parked => old[i].parked \/ parks
                  /\ \A s \in Range(new[n].todo) : s \in Range(old[i].todo) /\ s \notin gone
                  /\ Distinct(old[i].todo) => Distinct(new[n].todo)
                  /\ i = at /\ Distinct(old[i].todo) => Head(old[i].todo) \notin Range(new[n].todo)
      <3>1. PICK m \in DOMAIN pubs : new[n] = pubs[m]
        BY <2>1
      <3>2. QED BY <3>1, Zenon DEF Moved
    <2>3. \A e, s : Owes(old, e, s) /\ s \notin gone =>
            \/ Owes(new, e, s)
            \/ at \in DOMAIN old /\ e = old[at].entry /\ s = Head(old[at].todo)
      BY <1>4, Zenon DEF Moved
    <2>4. QED BY <1>2, <1>5, <2>2, <2>3, Zenon DEF Moved
  <1>8. QED BY <1>6, <1>7 DEF new

\* What Moved says of one publish.
Stems(old, i, q, at, gone, parks) ==
  /\ q.entry = old[i].entry /\ q.lane = old[i].lane
  /\ q.parked => old[i].parked \/ parks
  /\ \A s \in Range(q.todo) : s \in Range(old[i].todo) /\ s \notin gone
  /\ Distinct(old[i].todo) => Distinct(q.todo)
  /\ i = at /\ Distinct(old[i].todo) => Head(old[i].todo) \notin Range(q.todo)

LEMMA MovedIf ==
  ASSUME NEW old, NEW new \in Seq(Publish), NEW at, NEW gone, NEW parks, Len(new) <= Len(old),
         \A n \in DOMAIN new : \E i \in DOMAIN old : Stems(old, i, new[n], at, gone, parks),
         \A e, s : Owes(old, e, s) /\ s \notin gone =>
           \/ Owes(new, e, s)
           \/ at \in DOMAIN old /\ e = old[at].entry /\ s = Head(old[at].todo)
  PROVE  Moved(old, new, at, gone, parks)
  BY Zenon DEF Moved, Stems

LEMMA StemsSelf ==
  ASSUME NEW old, NEW i, NEW at, i # at, NEW parks
  PROVE  Stems(old, i, old[i], at, {}, parks)
  BY DEF Stems

LEMMA SelfMoves ==
  ASSUME TypeInv
  PROVE  Moved(running, running, 0, {}, FALSE)
  <1>1. running \in Seq(Publish) /\ Len(running) <= Len(running) /\ 0 \notin DOMAIN running
    BY DEF TypeInv
  <1>2. \A i \in DOMAIN running : Stems(running, i, running[i], 0, {}, FALSE)
    BY <1>1, StemsSelf
  <1>3. QED BY <1>1, <1>2, MovedIf

LEMMA PublishFields ==
  ASSUME TypeInv, NEW i \in DOMAIN running
  PROVE  /\ running[i] \in Publish /\ running[i].entry \in Entry
         /\ running[i].lane \in {"chain", "ipc"} /\ running[i].todo \in Seq(Subscribers)
         /\ running[i].parked \in BOOLEAN /\ running[i].sync \in BOOLEAN
  <1>1. running[i] \in Publish
    BY DEF TypeInv
  <1>2. QED BY <1>1 DEF Publish, Subscribers

LEMMA OthersFacts ==
  ASSUME TypeInv, NEW i \in DOMAIN running
  PROVE  /\ Others(i) \in Seq(Publish) /\ Len(Others(i)) + 1 <= Len(running)
         /\ \A n \in DOMAIN Others(i) : \E j \in DOMAIN running \ {i} : Others(i)[n] = running[j]
         /\ \A j \in DOMAIN running \ {i} : \E n \in DOMAIN Others(i) : Others(i)[n] = running[j]
  <1> DEFINE K == DOMAIN running \ {i}
  <1>1. running \in Seq(Publish) /\ K \in SUBSET (DOMAIN running) /\ Others(i) = KeepAt(running, K)
    BY DEF TypeInv, Others
  <1>2. DOMAIN running = 1..Len(running) /\ Len(running) \in Nat
    BY <1>1
  <1>3. Cardinality(K) + 1 <= Len(running)
    <2> DEFINE n == Len(running)
    <2>1. n \in Nat /\ DOMAIN running = 1..n
      BY <1>2
    <2> HIDE DEF n
    <2>2. IsFiniteSet(1..n) /\ Cardinality(1..n) = n
      BY <2>1, FS_Interval
    <2>3. Cardinality((1..n) \ {i}) = n - 1
      BY <2>1, <2>2, FS_RemoveElement
    <2>4. QED BY <2>1, <2>3 DEF n
  <1>4. /\ KeepAt(running, K) \in Seq(Publish) /\ Len(KeepAt(running, K)) = Cardinality(K)
        /\ DOMAIN KeepAt(running, K) = 1..Cardinality(K)
        /\ \A n \in 1..Cardinality(K) : Ascending(K)[n] \in K
                                        /\ KeepAt(running, K)[n] = running[Ascending(K)[n]]
        /\ \A j \in K : \E n \in 1..Cardinality(K) : KeepAt(running, K)[n] = running[j]
    <2> HIDE DEF K
    <2>1. QED BY <1>1, KeepFacts
  <1> HIDE DEF K
  <1>5. QED BY <1>1, <1>3, <1>4 DEF K

\* A publish is taken out and comes back, changed, at the end.
LEMMA RequeueMoves ==
  ASSUME TypeInv, NEW i \in DOMAIN running, NEW at, NEW parks, NEW q \in Publish,
         Stems(running, i, q, at, {}, parks), at \in {0, i},
         \A s \in Range(running[i].todo) :
           s \in Range(q.todo) \/ (at = i /\ s = Head(running[i].todo))
  PROVE  Moved(running, Append(Others(i), q), at, {}, parks)
  <1> DEFINE new == Append(Others(i), q)
  <1>1. running \in Seq(Publish) /\ DOMAIN running = 1..Len(running) /\ Len(running) \in Nat
    BY DEF TypeInv
  <1>2. /\ Others(i) \in Seq(Publish) /\ Len(Others(i)) + 1 <= Len(running)
        /\ \A n \in DOMAIN Others(i) : \E j \in DOMAIN running \ {i} : Others(i)[n] = running[j]
        /\ \A j \in DOMAIN running \ {i} : \E n \in DOMAIN Others(i) : Others(i)[n] = running[j]
    BY OthersFacts
  <1>3. /\ new \in Seq(Publish) /\ Len(new) = Len(Others(i)) + 1
        /\ DOMAIN Others(i) = 1..Len(Others(i)) /\ Len(Others(i)) \in Nat
        /\ DOMAIN new = 1..(Len(Others(i)) + 1)
        /\ \A n \in DOMAIN Others(i) : n \in DOMAIN new /\ new[n] = Others(i)[n]
        /\ new[Len(Others(i)) + 1] = q /\ Len(Others(i)) + 1 \in DOMAIN new
    BY <1>2, AppendFacts
  <1> HIDE DEF new
  <1>4. \A n \in DOMAIN new : \/ n = Len(Others(i)) + 1 /\ new[n] = q
                              \/ \E j \in DOMAIN running \ {i} : new[n] = running[j]
    <2> TAKE n \in DOMAIN new
    <2>1. CASE n = Len(Others(i)) + 1
      BY <1>3, <2>1
    <2>2. CASE n # Len(Others(i)) + 1
      <3>1. n \in DOMAIN Others(i)
        BY <1>3, <2>2
      <3>2. QED BY <1>2, <1>3, <3>1
    <2>3. QED BY <2>1, <2>2
  <1>5. \A n \in DOMAIN new : \E j \in DOMAIN running : Stems(running, j, new[n], at, {}, parks)
    <2> TAKE n \in DOMAIN new
    <2>1. CASE new[n] = q
      BY <2>1
    <2>2. CASE \E j \in DOMAIN running \ {i} : new[n] = running[j]
      <3>1. PICK j \in DOMAIN running \ {i} : new[n] = running[j]
        BY <2>2
      <3>2. j # at
        BY <1>1, <3>1
      <3>3. QED BY <3>1, <3>2, StemsSelf
    <2>3. QED BY <1>4, <2>1, <2>2
  <1>6. ASSUME NEW e, NEW s, Owes(running, e, s)
        PROVE  \/ Owes(new, e, s)
               \/ at \in DOMAIN running /\ e = running[at].entry /\ s = Head(running[at].todo)
    <2>1. PICK j \in DOMAIN running : running[j].entry = e /\ s \in Range(running[j].todo)
      BY <1>6 DEF Owes
    <2>2. CASE j # i
      <3>1. PICK n \in DOMAIN Others(i) : Others(i)[n] = running[j]
        BY <1>2, <2>2
      <3>2. n \in DOMAIN new /\ new[n] = running[j]
        BY <1>3, <3>1
      <3>3. QED BY <2>1, <3>2 DEF Owes
    <2>3. CASE j = i
      <3>1. q.entry = e
        BY <2>1, <2>3 DEF Stems
      <3>2. CASE s \in Range(q.todo)
        BY <1>3, <3>1, <3>2 DEF Owes
      <3>3. CASE at = i /\ s = Head(running[i].todo)
        BY <2>1, <2>3, <3>3
      <3>4. QED BY <2>1, <2>3, <3>2, <3>3
    <2>4. QED BY <2>2, <2>3
  <1>7. Len(new) <= Len(running)
    BY <1>2, <1>3
  <1>8. Moved(running, new, at, {}, parks)
    BY <1>3, <1>5, <1>6, <1>7, MovedIf
  <1>9. QED BY <1>8 DEF new

LEMMA AwaitMoves ==
  ASSUME TypeInv, NEW i \in DOMAIN running, running[i].todo # <<>>, NEW parks \in BOOLEAN,
         ~running[i].parked
  PROVE  Moved(running, Await(i, parks), i, {}, parks)
  <1> DEFINE q == [running[i] EXCEPT !.todo = Tail(running[i].todo), !.sync = FALSE,
                                     !.parked = parks]
             todo == running[i].todo
  <1>1. running[i] \in Publish /\ todo \in Seq(Subscribers) /\ todo # <<>>
    BY PublishFields
  <1>2. /\ Tail(todo) \in Seq(Subscribers)
        /\ \A x : x \in Range(todo) <=> x = Head(todo) \/ x \in Range(Tail(todo))
        /\ Distinct(todo) => Distinct(Tail(todo)) /\ Head(todo) \notin Range(Tail(todo))
    <2> HIDE DEF todo
    <2>1. QED BY <1>1, TailFacts
  <1>3. /\ q \in Publish /\ q.entry = running[i].entry /\ q.lane = running[i].lane
        /\ q.todo = Tail(todo) /\ q.parked = parks
    BY <1>1, <1>2 DEF Publish, Subscribers
  <1>4. Await(i, parks) = Append(Others(i), q)
    BY DEF Await
  <1> HIDE DEF q
  <1>5. Stems(running, i, q, i, {}, parks)
    BY <1>2, <1>3 DEF Stems
  <1>6. \A s \in Range(running[i].todo) : s \in Range(q.todo) \/ s = Head(running[i].todo)
    BY <1>2, <1>3
  <1>7. QED BY <1>3, <1>4, <1>5, <1>6, RequeueMoves

LEMMA SettleMoves ==
  ASSUME TypeInv, NEW i \in DOMAIN running
  PROVE  Moved(running, Append(Others(i), [running[i] EXCEPT !.parked = FALSE]), 0, {}, FALSE)
  <1> DEFINE q == [running[i] EXCEPT !.parked = FALSE]
  <1>1. running[i] \in Publish
    BY PublishFields
  <1>2. /\ q \in Publish /\ q.entry = running[i].entry /\ q.lane = running[i].lane
        /\ q.todo = running[i].todo /\ ~q.parked
    BY <1>1 DEF Publish
  <1>3. i # 0
    BY DEF TypeInv
  <1> HIDE DEF q
  <1>4. Stems(running, i, q, 0, {}, FALSE)
    BY <1>2, <1>3 DEF Stems
  <1>5. Moved(running, Append(Others(i), q), 0, {}, FALSE)
    BY <1>2, <1>4, RequeueMoves
  <1>6. QED BY <1>5 DEF q

LEMMA SkipMoves ==
  ASSUME TypeInv, NEW i \in DOMAIN running, running[i].todo # <<>>
  PROVE  Moved(running, Skip(i), i, {}, FALSE)
  <1> DEFINE q == [running[i] EXCEPT !.todo = Tail(running[i].todo), !.sync = TRUE]
             todo == running[i].todo
             new == Skip(i)
  <1>1. running[i] \in Publish /\ todo \in Seq(Subscribers) /\ todo # <<>>
    BY PublishFields
  <1>2. /\ Tail(todo) \in Seq(Subscribers)
        /\ \A x : x \in Range(todo) <=> x = Head(todo) \/ x \in Range(Tail(todo))
        /\ Distinct(todo) => Distinct(Tail(todo)) /\ Head(todo) \notin Range(Tail(todo))
    <2> HIDE DEF todo
    <2>1. QED BY <1>1, TailFacts
  <1>3. /\ q \in Publish /\ q.entry = running[i].entry /\ q.lane = running[i].lane
        /\ q.todo = Tail(todo) /\ q.parked = running[i].parked
    BY <1>1, <1>2 DEF Publish, Subscribers
  <1>4. new = [running EXCEPT ![i] = q]
    BY DEF Skip
  <1> HIDE DEF q, new
  <1>5. /\ running \in Seq(Publish) /\ new \in Seq(Publish) /\ Len(new) = Len(running)
        /\ Len(running) \in Nat /\ DOMAIN new = DOMAIN running /\ new[i] = q
        /\ \A j \in DOMAIN running : j # i => new[j] = running[j]
    BY <1>3, <1>4 DEF TypeInv
  <1>6. Stems(running, i, q, i, {}, FALSE)
    BY <1>2, <1>3 DEF Stems
  <1>7. \A n \in DOMAIN new : \E j \in DOMAIN running : Stems(running, j, new[n], i, {}, FALSE)
    <2> TAKE n \in DOMAIN new
    <2>1. CASE n = i
      BY <1>5, <1>6, <2>1
    <2>2. CASE n # i
      <3>1. n \in DOMAIN running /\ new[n] = running[n]
        BY <1>5, <2>2
      <3>2. QED BY <2>2, <3>1, StemsSelf
    <2>3. QED BY <2>1, <2>2
  <1>8. ASSUME NEW e, NEW s, Owes(running, e, s)
        PROVE  Owes(new, e, s) \/ (e = running[i].entry /\ s = Head(running[i].todo))
    <2>1. PICK j \in DOMAIN running : running[j].entry = e /\ s \in Range(running[j].todo)
      BY <1>8 DEF Owes
    <2>2. CASE j # i
      BY <1>5, <2>1, <2>2 DEF Owes
    <2>3. CASE j = i
      <3>1. q.entry = e /\ (s = Head(todo) \/ s \in Range(q.todo))
        BY <1>2, <1>3, <2>1, <2>3
      <3>2. QED BY <1>5, <2>1, <2>3, <3>1 DEF Owes
    <2>4. QED BY <2>2, <2>3
  <1>9. Moved(running, new, i, {}, FALSE)
    <2>1. Len(new) <= Len(running)
      BY <1>5
    <2>2. \A e, s : Owes(running, e, s) =>
            \/ Owes(new, e, s)
            \/ i \in DOMAIN running /\ e = running[i].entry /\ s = Head(running[i].todo)
      BY <1>8
    <2>3. QED BY <1>5, <1>7, <2>1, <2>2, MovedIf
  <1>10. QED BY <1>9 DEF new

\* Nobody in gone is ahead any more.
LEMMA DisposeMoves ==
  ASSUME NEW old, Len(old) \in Nat, NEW pubs, NEW at, NEW gone, NEW parks,
         Moved(old, pubs, at, {}, parks)
  PROVE  /\ Moved(old, SkipDisposed(pubs, gone), at, gone, parks)
         /\ \A n \in DOMAIN SkipDisposed(pubs, gone) :
              SkipDisposed(pubs, gone)[n].parked \/ SkipDisposed(pubs, gone)[n].todo # <<>>
  <1> DEFINE mid == [i \in DOMAIN pubs |-> [pubs[i] EXCEPT !.todo = Without(pubs[i].todo, gone)]]
  <1>1. /\ pubs \in Seq(Publish) /\ Len(pubs) <= Len(old)
        /\ \A n \in DOMAIN pubs : \E i \in DOMAIN old : Stems(old, i, pubs[n], at, {}, parks)
        /\ \A e, s : Owes(old, e, s) =>
             \/ Owes(pubs, e, s)
             \/ at \in DOMAIN old /\ e = old[at].entry /\ s = Head(old[at].todo)
    <2>1. pubs \in Seq(Publish) /\ Len(pubs) <= Len(old)
      BY DEF Moved
    <2>2. QED BY <2>1, Zenon DEF Moved, Stems
  <1>2. ASSUME NEW i \in DOMAIN pubs
        PROVE  /\ mid[i] \in Publish /\ mid[i].entry = pubs[i].entry
               /\ mid[i].lane = pubs[i].lane /\ mid[i].parked = pubs[i].parked
               /\ \A x : x \in Range(mid[i].todo) <=> x \in Range(pubs[i].todo) /\ x \notin gone
               /\ Distinct(pubs[i].todo) => Distinct(mid[i].todo)
    <2> DEFINE t == Without(pubs[i].todo, gone)
    <2>1. pubs[i] \in Publish
      BY <1>1
    <2>2. pubs[i].todo \in Seq(Subscribers)
      BY <2>1 DEF Publish, Subscribers
    <2>3. /\ t \in Seq(Subscribers)
          /\ \A x : x \in Range(t) <=> x \in Range(pubs[i].todo) /\ x \notin gone
          /\ Distinct(pubs[i].todo) => Distinct(t)
      BY <2>2, WithoutFacts
    <2>4. mid[i] = [pubs[i] EXCEPT !.todo = t]
      OBVIOUS
    <2> HIDE DEF t, mid
    <2>5. /\ mid[i] \in Publish /\ mid[i].entry = pubs[i].entry
          /\ mid[i].lane = pubs[i].lane /\ mid[i].parked = pubs[i].parked /\ mid[i].todo = t
      BY <2>1, <2>3, <2>4 DEF Publish, Subscribers
    <2>6. QED BY <2>3, <2>5
  <1>3. /\ DOMAIN mid = DOMAIN pubs /\ SkipDisposed(pubs, gone) = Unsettled(mid)
    BY DEF SkipDisposed
  <1> HIDE DEF mid
  <1>4. mid \in Seq(Publish) /\ Len(mid) = Len(pubs) /\ Len(pubs) \in Nat
    <2>1. DOMAIN mid = 1..Len(pubs) /\ Len(pubs) \in Nat
      BY <1>1, <1>3
    <2>2. mid \in [1..Len(pubs) -> Publish]
      <3>1. mid = [i \in DOMAIN pubs |-> mid[i]]
        BY DEF mid
      <3>2. QED BY <1>2, <1>3, <2>1, <3>1
    <2>3. QED BY <2>1, <2>2
  <1>5. \A n \in DOMAIN mid : \E i \in DOMAIN old : Stems(old, i, mid[n], at, gone, parks)
    <2> TAKE n \in DOMAIN mid
    <2>1. PICK i \in DOMAIN old : Stems(old, i, pubs[n], at, {}, parks)
      BY <1>1, <1>3
    <2>2. Stems(old, i, mid[n], at, gone, parks)
      BY <1>2, <1>3, <2>1 DEF Stems
    <2>3. QED BY <2>2
  <1>6. ASSUME NEW e, NEW s, Owes(pubs, e, s), s \notin gone
        PROVE  Owes(mid, e, s)
    BY <1>2, <1>3, <1>6 DEF Owes
  <1>7. Moved(old, mid, at, gone, parks)
    <2>1. Len(mid) <= Len(old)
      BY <1>1, <1>4
    <2>2. \A e, s : Owes(old, e, s) /\ s \notin gone =>
            \/ Owes(mid, e, s)
            \/ at \in DOMAIN old /\ e = old[at].entry /\ s = Head(old[at].todo)
      BY <1>1, <1>6
    <2>3. QED BY <1>4, <1>5, <2>1, <2>2, MovedIf
  <1>8. QED BY <1>3, <1>7, UnsettledMoves

\* A new publish has every subscriber ahead.
LEMMA StartFacts ==
  ASSUME TypeInv, NEW e \in Entry, NEW lane \in {"chain", "ipc"}, StartPublish(e, lane)
  PROVE  /\ running' \in Seq(Publish) /\ Len(running') <= Len(running) + 1
         /\ \A n \in DOMAIN running' :
              /\ running'[n].parked \/ running'[n].todo # <<>>
              /\ \/ /\ running'[n].entry = e /\ running'[n].lane = lane
                    /\ running'[n].todo = subs /\ ~running'[n].parked
                 \/ \E i \in DOMAIN running : running'[n] = running[i]
         /\ \A f, s : Owes(running, f, s) => Owes(running', f, s)
         /\ \A s \in Range(subs) : Owes(running', e, s)
  <1> DEFINE p == [entry |-> e, lane |-> lane, todo |-> subs, parked |-> FALSE, sync |-> TRUE]
             pubs == <<p>> \o running
  <1>1. p \in Publish /\ running \in Seq(Publish)
    BY DEF Publish, TypeInv, Subscribers
  <1>2. p.entry = e /\ p.lane = lane /\ p.todo = subs /\ ~p.parked
    OBVIOUS
  <1>3. running' = Unsettled(pubs)
    BY DEF StartPublish
  <1> HIDE DEF p
  <1>4. /\ pubs \in Seq(Publish) /\ Len(pubs) = Len(running) + 1 /\ Len(running) \in Nat
        /\ DOMAIN running = 1..Len(running) /\ DOMAIN pubs = 1..(Len(running) + 1)
        /\ pubs[1] = p /\ \A i \in DOMAIN running : pubs[i + 1] = running[i]
    <2>1. <<p>> \in Seq(Publish) /\ Len(<<p>>) = 1 /\ <<p>>[1] = p
      BY <1>1
    <2>2. QED BY <1>1, <2>1
  <1> HIDE DEF pubs
  <1>5. \A n \in DOMAIN pubs : pubs[n] = p \/ \E i \in DOMAIN running : pubs[n] = running[i]
    <2> TAKE n \in DOMAIN pubs
    <2>1. CASE n = 1
      BY <1>4, <2>1
    <2>2. CASE n # 1
      <3>1. n - 1 \in DOMAIN running /\ pubs[(n - 1) + 1] = running[n - 1] /\ (n - 1) + 1 = n
        BY <1>4, <2>2
      <3>2. QED BY <3>1
    <2>3. QED BY <2>1, <2>2
  <1>6. ASSUME NEW f, NEW s, Owes(running, f, s) PROVE Owes(pubs, f, s)
    <2>1. PICK i \in DOMAIN running : running[i].entry = f /\ s \in Range(running[i].todo)
      BY <1>6 DEF Owes
    <2>2. i + 1 \in DOMAIN pubs /\ pubs[i + 1] = running[i]
      BY <1>4
    <2>3. QED BY <2>1, <2>2 DEF Owes
  <1>7. \A s \in Range(subs) : Owes(pubs, e, s)
    <2>1. 1 \in DOMAIN pubs
      BY <1>4
    <2>2. QED BY <1>2, <1>4, <2>1 DEF Owes
  <1>8. Moved(pubs, pubs, 0, {}, FALSE)
    <2>1. 0 \notin DOMAIN pubs /\ Len(pubs) <= Len(pubs)
      BY <1>4
    <2>2. \A i \in DOMAIN pubs : Stems(pubs, i, pubs[i], 0, {}, FALSE)
      BY <2>1, StemsSelf
    <2>3. QED BY <1>4, <2>1, <2>2, MovedIf
  <1>9. /\ Moved(pubs, running', 0, {}, FALSE)
        /\ \A n \in DOMAIN running' : running'[n].parked \/ running'[n].todo # <<>>
    <2>1. Len(pubs) \in Nat
      BY <1>4
    <2>2. QED BY <1>3, <1>8, <2>1, UnsettledMoves
  <1>10. \A f, s : Owes(pubs, f, s) => Owes(running', f, s)
    <2>1. 0 \notin DOMAIN pubs
      BY <1>4
    <2>2. QED BY <1>9, <2>1, Zenon DEF Moved
  <1>11. \A n \in DOMAIN running' : \E i \in DOMAIN pubs : running'[n] = pubs[i]
    <2> DEFINE K == {i \in DOMAIN pubs : pubs[i].parked \/ pubs[i].todo # <<>>}
    <2>1. K \in SUBSET (DOMAIN pubs) /\ running' = KeepAt(pubs, K)
      BY <1>3 DEF Unsettled
    <2>2. /\ DOMAIN running' = 1..Cardinality(K)
          /\ \A n \in 1..Cardinality(K) : /\ Ascending(K)[n] \in K
                                          /\ running'[n] = pubs[Ascending(K)[n]]
      <3> HIDE DEF K
      <3>1. QED BY <1>4, <2>1, KeepFacts
    <2>3. QED BY <2>1, <2>2
  <1>12. running' \in Seq(Publish) /\ Len(running') <= Len(running) + 1
    BY <1>4, <1>9 DEF Moved
  <1>13. \A n \in DOMAIN running' :
           \/ /\ running'[n].entry = e /\ running'[n].lane = lane
              /\ running'[n].todo = subs /\ ~running'[n].parked
           \/ \E i \in DOMAIN running : running'[n] = running[i]
    BY <1>2, <1>5, <1>11
  <1>14. QED BY <1>6, <1>7, <1>9, <1>10, <1>12, <1>13

----------------------------------------------------------------------------
(* The steps of the hub, summarised by what the invariants need to know.    *)

\* The process ends or comes up: nobody is connected.
Resets ==
  /\ subs' = <<>> /\ chain' = <<>> /\ running' = <<>>
  /\ conns' = [k \in Clients |-> NoConn] /\ cursor' = cursor
  /\ issued' = {} /\ past' = past \cup Seqs(issued)

\* An event is stamped: above every seq of the process.
Stamps(e) ==
  /\ e \in Entry /\ counter.nextSeq <= e.seq /\ counter'.nextSeq = e.seq + 1
  /\ issued' = issued \cup {e} /\ past' = past
  /\ proc = "serving" /\ proc' = "serving"
  /\ UNCHANGED <<subs, conns, cursor>>

Broadcasts(e) == Stamps(e) /\ chain' = Append(chain, e) /\ running' = running

Forwards(e) == Stamps(e) /\ Forwarding /\ StartPublish(e, "ipc") /\ chain' = chain

\* No event is stamped.
Still == proc' = proc /\ counter' = counter /\ issued' = issued /\ past' = past

Publishes ==
  /\ Still /\ chain # <<>>
  /\ \A i \in DOMAIN running : running[i].lane # "chain"
  /\ StartPublish(Head(chain), "chain") /\ chain' = Tail(chain)
  /\ UNCHANGED <<subs, conns, cursor>>

\* The publishes go on, and those in gone leave the hub.
Work(at, gone, parks) ==
  /\ Still /\ chain' = chain
  /\ Moved(running, running', at, gone, parks)
  /\ \A n \in DOMAIN running' : running'[n].parked \/ running'[n].todo # <<>>
  /\ subs' \in Seq(Subscribers) /\ Distinct(subs')
  /\ \A s \in Range(subs) : s \notin gone => s \in Range(subs')

\* Nothing is enqueued: the subscriber visited (if any) is not addressed, is a
\* plugin, has had the event from its replay, or is shed.
Passes(at, gone, parks) ==
  /\ Work(at, gone, parks) /\ conns' = conns /\ cursor' = cursor
  /\ \A k \in Clients : k \in Range(subs') => k \in Range(subs) /\ k \notin gone
  /\ parks => Plugins # {}
  /\ \A k \in Clients : at \in DOMAIN running /\ k = Head(running[at].todo) =>
       \/ ~LiveMatches(running[at].entry, k)
       \/ AlreadyReplayed(conns[k], running[at].entry.seq)
       \/ k \in gone

Sends(i, k) ==
  /\ Work(i, {}, FALSE) /\ subs' = subs /\ cursor' = cursor
  /\ i \in DOMAIN running /\ k \in Clients
  /\ k = Head(running[i].todo) /\ k \in Range(running[i].todo)
  /\ LiveMatches(running[i].entry, k)
  /\ ~AlreadyReplayed(conns[k], running[i].entry.seq)
  /\ conns' = [conns EXCEPT ![k] = Enqueue(conns[k], running[i].entry.seq)]

\* A heartbeat is queued, or a frame is read.
Queues(k, q) ==
  /\ Still /\ UNCHANGED <<subs, chain, running>>
  /\ k \in Clients /\ conns[k].open /\ q \in Seq(Nat)
  /\ conns' = [conns EXCEPT ![k].queue = q]
  /\ \A x \in Range(q) : x = 0 \/ x \in Range(conns[k].queue)
  /\ cursor' \in [Clients -> Nat]
  /\ \A j \in Clients : cursor'[j] = cursor[j] \/ (j = k /\ cursor'[j] \in Range(conns[k].queue))

Connects(k, scope, gone) ==
  /\ Work(0, gone, FALSE) /\ cursor' = cursor
  /\ k \in Clients /\ k \in gone /\ scope \in Scopes /\ Quiescent /\ proc = "serving"
  /\ \A c \in Clients : c \in Range(subs') => c = k \/ (c \in Range(subs) /\ c \notin gone)
  /\ \/ \E from \in {NoCursor, cursor[k]} : conns' = [conns EXCEPT ![k] = LiveConn(scope, from)]
     \/ /\ ring' \in Evict(ring)
        /\ CoversCursor(ring', cursor[k], counter.firstStampedSeq)
        /\ conns' = [conns EXCEPT ![k] = ReplayConn(k, scope, cursor[k], ring')]

Leaves(k) ==
  /\ Work(0, {k}, FALSE) /\ cursor' = cursor
  /\ k \in Clients /\ conns' = [conns EXCEPT ![k] = NoConn]
  /\ \A c \in Clients : c \in Range(subs') => c \in Range(subs) /\ c # k

Summary ==
  \/ Resets
  \/ \E e \in Entry : Broadcasts(e) \/ Forwards(e)
  \/ Publishes
  \/ \E at, gone, parks : Passes(at, gone, parks)
  \/ \E i, k : Sends(i, k)
  \/ \E k, q : Queues(k, q)
  \/ \E k, scope, gone : Connects(k, scope, gone)
  \/ \E k : Leaves(k)

LEMMA StreamPart ==
  ASSUME [HubNext]_vars
  PROVE  [StreamNext]_streamVars
  <1>1. CASE UNCHANGED vars
    BY <1>1 DEF vars, streamVars
  <1>2. CASE DaemonBoot \/ DaemonCrash
    BY <1>2 DEF DaemonBoot, DaemonCrash, StreamNext
  <1>3. ASSUME NEW conv \in Conversations, NEW t \in Targetings,
               BroadcastMessage(conv, t) \/ HandleEventsPublish(conv, t)
        PROVE  StreamNext
    BY <1>3 DEF BroadcastMessage, HandleEventsPublish, StreamNext
  <1>4. CASE PublishStep \/ \E i \in DOMAIN running : CallbackSettles(i)
    BY <1>4 DEF PublishStep, ChainPublish, Deliver, CallbackSettles
  <1>5. CASE \E p \in Plugins : PluginSubscribe(p)
    BY <1>5 DEF PluginSubscribe
  <1>6. ASSUME NEW k \in Clients, NEW scope \in Scopes, SubscribeAssistantEvents(k, scope)
        PROVE  [StreamNext]_streamVars
    BY <1>6 DEF SubscribeAssistantEvents, StreamNext, SweepRing, streamVars
  <1>7. ASSUME NEW k \in Clients,
               HeartbeatTimer(k) \/ ClientReads(k) \/ AbortConnection(k) \/ DisposeClient(k)
        PROVE  UNCHANGED streamVars
    BY <1>7 DEF HeartbeatTimer, ClientReads, AbortConnection, DisposeClient
  <1>8. QED BY <1>1, <1>2, <1>3, <1>4, <1>5, <1>6, <1>7 DEF HubNext

LEMMA StampSummary ==
  ASSUME StreamTypeOK, ReplayInv, NEW conv \in Conversations, NEW t \in Targetings,
         StampAndBuffer(conv, t), UNCHANGED <<subs, conns, cursor>>
  PROVE  Stamps(StampedEntry(conv, t))
  <1>1. PICK r1 \in ReadReservedCeiling, r2 \in ReadReservedCeiling,
             written \in WriteSucceeds, loaded \in Counter,
             reserved \in Counter, entry \in Entry :
          /\ loaded = LoadSeqReservation(counter, r1)
          /\ reserved = ReserveSeqCapacity(loaded, r2)
          /\ entry = [seq |-> reserved.nextSeq, conv |-> conv, targeting |-> t]
          /\ counter' = TakeSeq(reserved)
          /\ disk' = DiskAfterReserve(loaded, reserved, written)
          /\ ring' \in Evict(ring \cup {entry})
          /\ issued' = issued \cup {entry}
    BY StampSteps
  <1>2. r1 \in Nat /\ r2 \in Nat /\ counter \in Counter
    BY ReadsAreNat DEF StreamTypeOK
  <1>3. loaded.nextSeq >= counter.nextSeq
    BY <1>1, <1>2, LoadFacts
  <1>4. reserved.nextSeq >= loaded.nextSeq
    BY <1>1, <1>2, ReserveFacts
  <1>5. counter'.nextSeq = reserved.nextSeq + 1
    BY <1>1, TakeFacts
  <1>6. /\ reserved.nextSeq \in Nat /\ loaded.nextSeq \in Nat /\ counter.nextSeq \in Nat
        /\ entry.seq = reserved.nextSeq
    BY <1>1, <1>2 DEF Counter
  <1>7. StampedEntry(conv, t) = entry
    BY <1>1, <1>5, <1>6 DEF StampedEntry
  <1>8. past' = past /\ proc = "serving" /\ proc' = "serving"
    BY DEF StampAndBuffer
  <1>9. QED BY <1>1, <1>3, <1>4, <1>5, <1>6, <1>7, <1>8 DEF Stamps

LEMMA DisposeSubs ==
  ASSUME TypeInv, SubsInv, NEW gone, subs' = Without(subs, gone)
  PROVE  /\ subs' \in Seq(Subscribers) /\ Distinct(subs')
         /\ \A s : s \in Range(subs') <=> s \in Range(subs) /\ s \notin gone
  <1>1. subs \in Seq(Subscribers) /\ Distinct(subs)
    BY DEF TypeInv, SubsInv
  <1>2. /\ Without(subs, gone) \in Seq(Subscribers) /\ Distinct(Without(subs, gone))
        /\ \A s : s \in Range(Without(subs, gone)) <=> s \in Range(subs) /\ s \notin gone
    BY <1>1, WithoutFacts
  <1>3. QED BY <1>2

LEMMA SubscribeWork ==
  ASSUME BaseInv, NEW s \in Subscribers, Subscribe(s), Still, chain' = chain
  PROVE  /\ Work(0, Displaced(s), FALSE) /\ s \in Displaced(s)
         /\ \A c : c \in Range(subs') <=> c = s \/ (c \in Range(subs) /\ c \notin Displaced(s))
  <1> DEFINE gone == Displaced(s)
             rest == Without(subs, gone)
  <1>1. TypeInv /\ SubsInv /\ Len(running) \in Nat
    BY DEF BaseInv, TypeInv
  <1>2. s \in gone /\ subs' = Append(rest, s) /\ running' = SkipDisposed(running, gone)
    BY DEF Displaced, Subscribe
  <1> HIDE DEF gone
  <1>3. /\ rest \in Seq(Subscribers) /\ Distinct(rest)
        /\ \A x : x \in Range(rest) <=> x \in Range(subs) /\ x \notin gone
    <2>1. subs \in Seq(Subscribers) /\ Distinct(subs)
      BY <1>1 DEF TypeInv, SubsInv
    <2>2. QED BY <2>1, WithoutFacts
  <1> HIDE DEF rest
  <1>4. /\ Append(rest, s) \in Seq(Subscribers) /\ DOMAIN rest = 1..Len(rest) /\ Len(rest) \in Nat
        /\ DOMAIN Append(rest, s) = 1..(Len(rest) + 1)
        /\ \A i \in DOMAIN rest : Append(rest, s)[i] = rest[i]
        /\ Append(rest, s)[Len(rest) + 1] = s
        /\ \A y : y \in Range(Append(rest, s)) <=> y \in Range(rest) \/ y = s
    BY <1>3, AppendFacts
  <1>5. Distinct(Append(rest, s))
    <2>1. \A i \in DOMAIN rest : rest[i] # s
      BY <1>2, <1>3 DEF Range
    <2>2. \A i \in DOMAIN Append(rest, s) : i \in DOMAIN rest \/ i = Len(rest) + 1
      BY <1>4
    <2>3. QED BY <1>3, <1>4, <2>1, <2>2 DEF Distinct
  <1>6. /\ Moved(running, running', 0, gone, FALSE)
        /\ \A n \in DOMAIN running' : running'[n].parked \/ running'[n].todo # <<>>
    BY <1>1, <1>2, SelfMoves, DisposeMoves
  <1>7. \A c : c \in Range(subs') <=> c = s \/ (c \in Range(subs) /\ c \notin gone)
    BY <1>2, <1>3, <1>4
  <1>8. Work(0, gone, FALSE)
    BY <1>2, <1>4, <1>5, <1>6, <1>7 DEF Work
  <1>9. QED BY <1>2, <1>7, <1>8 DEF gone

LEMMA DisposeWork ==
  ASSUME BaseInv, NEW gone, NEW pubs, NEW at, NEW parks, Moved(running, pubs, at, {}, parks),
         subs' = Without(subs, gone), running' = SkipDisposed(pubs, gone), Still, chain' = chain
  PROVE  /\ Work(at, gone, parks)
         /\ \A s : s \in Range(subs') <=> s \in Range(subs) /\ s \notin gone
  <1>1. TypeInv /\ SubsInv /\ Len(running) \in Nat
    BY DEF BaseInv, TypeInv
  <1>2. /\ subs' \in Seq(Subscribers) /\ Distinct(subs')
        /\ \A s : s \in Range(subs') <=> s \in Range(subs) /\ s \notin gone
    BY <1>1, DisposeSubs
  <1>3. /\ Moved(running, running', at, gone, parks)
        /\ \A n \in DOMAIN running' : running'[n].parked \/ running'[n].todo # <<>>
    BY <1>1, DisposeMoves
  <1>4. QED BY <1>2, <1>3 DEF Work

LEMMA PlainWork ==
  ASSUME BaseInv, NEW at, NEW parks, Moved(running, running', at, {}, parks),
         \A n \in DOMAIN running' : running'[n].parked \/ running'[n].todo # <<>>,
         subs' = subs, Still, chain' = chain
  PROVE  Work(at, {}, parks)
  BY DEF Work, BaseInv, TypeInv, SubsInv

LEMMA UnsettledWork ==
  ASSUME BaseInv, NEW at, NEW parks, NEW pubs, Moved(running, pubs, at, {}, parks),
         running' = Unsettled(pubs), subs' = subs, Still, chain' = chain
  PROVE  Work(at, {}, parks)
  <1>1. Len(running) \in Nat
    BY DEF BaseInv, TypeInv
  <1>2. /\ Moved(running, running', at, {}, parks)
        /\ \A n \in DOMAIN running' : running'[n].parked \/ running'[n].todo # <<>>
    BY <1>1, UnsettledMoves
  <1>3. QED BY <1>2, PlainWork

\* A visit: not addressed, a plugin, replayed already, shed, or sent.
LEMMA DeliverSummary ==
  ASSUME BaseInv, NEW i \in DOMAIN running, Deliver(i)
  PROVE  Summary
  <1> DEFINE e == running[i].entry
             s == Head(running[i].todo)
  <1>1. /\ TypeInv /\ ~running[i].parked /\ running[i].todo # <<>>
        /\ Still /\ chain' = chain /\ cursor' = cursor
    BY DEF Deliver, Current, BaseInv, RunInv, Still, streamVars
  <1>2. s \in Subscribers /\ s \in Range(running[i].todo) /\ running[i].todo \in Seq(Subscribers)
    BY <1>1, PublishFields, TailFacts
  <1> HIDE DEF s, e
  <1>3. CASE /\ ~LiveMatches(e, s) /\ running' = Unsettled(Skip(i)) /\ UNCHANGED <<subs, conns>>
    <2>1. Work(i, {}, FALSE)
      BY <1>1, <1>3, SkipMoves, UnsettledWork
    <2>2. Passes(i, {}, FALSE)
      BY <1>1, <1>3, <2>1 DEF Passes, e, s
    <2>3. QED BY <2>2 DEF Summary
  <1>4. CASE /\ LiveMatches(e, s) /\ s \in Plugins /\ running' = Await(i, TRUE)
             /\ UNCHANGED <<subs, conns>>
    <2>1. Moved(running, running', i, {}, TRUE)
      BY <1>1, <1>4, AwaitMoves
    <2>2. \A n \in DOMAIN running' : running'[n].parked \/ running'[n].todo # <<>>
      <3> DEFINE q == [running[i] EXCEPT !.todo = Tail(running[i].todo), !.sync = FALSE,
                                         !.parked = TRUE]
      <3>1. running' = Append(Others(i), q)
        BY <1>4 DEF Await
      <3>2. Others(i) \in Seq(Publish) /\ running' \in Seq(Publish)
        BY <1>1, <2>1, OthersFacts DEF Moved
      <3>3. q.parked
        BY <1>1, PublishFields DEF Publish
      <3> HIDE DEF q
      <3>a. q \in Publish
        <4>1. running[i] \in Publish /\ Tail(running[i].todo) \in Seq(Subscribers)
          BY <1>1, <1>2, PublishFields, TailFacts
        <4>2. QED BY <4>1 DEF Publish, Subscribers, q
      <3>b. /\ DOMAIN Others(i) = 1..Len(Others(i)) /\ Len(Others(i)) \in Nat
            /\ DOMAIN running' = 1..(Len(Others(i)) + 1)
            /\ \A n \in DOMAIN Others(i) : running'[n] = Others(i)[n]
            /\ running'[Len(Others(i)) + 1] = q
        BY <3>1, <3>2, <3>a, AppendFacts
      <3>4. \A n \in DOMAIN running' : running'[n] = q \/ (n \in DOMAIN Others(i) /\ running'[n] = Others(i)[n])
        <4> TAKE n \in DOMAIN running'
        <4>1. n = Len(Others(i)) + 1 \/ n \in DOMAIN Others(i)
          BY <3>b
        <4>2. CASE n = Len(Others(i)) + 1
          BY <3>b, <4>2
        <4>3. CASE n \in DOMAIN Others(i)
          BY <3>b, <4>3
        <4>4. QED BY <4>1, <4>2, <4>3
      <3>5. \A n \in DOMAIN Others(i) : \E j \in DOMAIN running : Others(i)[n] = running[j]
        BY <1>1, OthersFacts
      <3>6. QED BY <3>3, <3>4, <3>5 DEF BaseInv, RunInv
    <2>3. Work(i, {}, TRUE)
      BY <1>1, <1>4, <2>1, <2>2, PlainWork
    <2>4. s \notin Clients
      BY <1>4, HubAssumption
    <2>5. Passes(i, {}, TRUE)
      BY <1>1, <1>4, <2>3, <2>4 DEF Passes, s
    <2>6. QED BY <2>5 DEF Summary
  <1>5. CASE LiveMatches(e, s) /\ s \in Clients /\ CallSse(i, s, e.seq)
    <2>1. Moved(running, Await(i, FALSE), i, {}, FALSE)
      BY <1>1, AwaitMoves
    <2>2. CASE /\ AlreadyReplayed(conns[s], e.seq) /\ running' = Unsettled(Await(i, FALSE))
               /\ UNCHANGED <<subs, conns>>
      <3>1. Work(i, {}, FALSE)
        BY <1>1, <2>1, <2>2, UnsettledWork
      <3>2. Passes(i, {}, FALSE)
        BY <1>1, <2>2, <3>1 DEF Passes, e, s
      <3>3. QED BY <3>2 DEF Summary
    <2>3. CASE /\ subs' = Without(subs, {s}) /\ running' = SkipDisposed(Await(i, FALSE), {s})
               /\ conns' = conns
      <3>1. /\ Work(i, {s}, FALSE)
            /\ \A x : x \in Range(subs') <=> x \in Range(subs) /\ x \notin {s}
        BY <1>1, <2>1, <2>3, DisposeWork
      <3>2. Passes(i, {s}, FALSE)
        BY <1>1, <2>3, <3>1 DEF Passes, s
      <3>3. QED BY <3>2 DEF Summary
    <2>4. CASE /\ ~AlreadyReplayed(conns[s], e.seq)
               /\ conns' = [conns EXCEPT ![s] = Enqueue(conns[s], e.seq)]
               /\ running' = Unsettled(Await(i, FALSE)) /\ subs' = subs
      <3>1. Work(i, {}, FALSE)
        BY <1>1, <2>1, <2>4, UnsettledWork
      <3>2. Sends(i, s)
        BY <1>1, <1>2, <1>5, <2>4, <3>1 DEF Sends, e, s
      <3>3. QED BY <3>2 DEF Summary
    <2>5. QED BY <1>5, <2>2, <2>3, <2>4 DEF CallSse
  <1>6. QED BY <1>3, <1>4, <1>5 DEF Deliver, e, s

LEMMA StreamSummary ==
  ASSUME BaseInv, NEW conv \in Conversations, NEW t \in Targetings,
         BroadcastMessage(conv, t) \/ HandleEventsPublish(conv, t)
  PROVE  Summary
  <1> DEFINE e == StampedEntry(conv, t)
  <1>1. CASE BroadcastMessage(conv, t)
    <2>1. /\ StampAndBuffer(conv, t) /\ UNCHANGED <<subs, conns, cursor>>
          /\ chain' = Append(chain, e) /\ running' = running
      BY <1>1 DEF BroadcastMessage
    <2>2. Stamps(e)
      BY <2>1, StampSummary DEF BaseInv
    <2>3. Broadcasts(e) /\ e \in Entry
      BY <2>1, <2>2 DEF Broadcasts, Stamps
    <2>4. QED BY <2>3 DEF Summary
  <1>2. CASE HandleEventsPublish(conv, t)
    <2>1. /\ StampAndBuffer(conv, t) /\ UNCHANGED <<subs, conns, cursor>>
          /\ Forwarding /\ StartPublish(e, "ipc") /\ chain' = chain
      BY <1>2 DEF HandleEventsPublish
    <2>2. Stamps(e)
      BY <2>1, StampSummary DEF BaseInv
    <2>3. Forwards(e) /\ e \in Entry
      BY <2>1, <2>2 DEF Forwards, Stamps
    <2>4. QED BY <2>3 DEF Summary
  <1>3. QED BY <1>1, <1>2

LEMMA ProcessSummary ==
  ASSUME BaseInv, DaemonBoot \/ DaemonCrash
  PROVE  Summary
  <1>1. CASE DaemonBoot
    <2>1. /\ proc # "serving" /\ UNCHANGED <<issued, past, subs, conns, chain, running, cursor>>
      BY <1>1 DEF DaemonBoot, StartProcess, FloorSeqAbove, hubVars
    <2>2. /\ subs = <<>> /\ chain = <<>> /\ running = <<>> /\ issued = {}
          /\ \A k \in Clients : conns[k] = NoConn
      BY <2>1 DEF BaseInv, StampInv, ReplayInv
    <2>3. conns = [k \in Clients |-> NoConn]
      BY <2>2 DEF BaseInv, TypeInv
    <2>4. Seqs(issued) = {}
      BY <2>2 DEF Seqs
    <2>5. Resets
      BY <2>1, <2>2, <2>3, <2>4 DEF Resets
    <2>6. QED BY <2>5 DEF Summary
  <1>2. CASE DaemonCrash
    <2>1. Resets
      BY <1>2 DEF DaemonCrash, Crash, Resets
    <2>2. QED BY <2>1 DEF Summary
  <1>3. QED BY <1>1, <1>2

LEMMA PublishSummary ==
  ASSUME BaseInv, ChainPublish \/ \E i \in DOMAIN running : CallbackSettles(i)
  PROVE  Summary
  <1>1. CASE ChainPublish
    <2>1. Publishes
      BY <1>1 DEF ChainPublish, Publishes, Still, streamVars
    <2>2. QED BY <2>1 DEF Summary
  <1>2. ASSUME NEW i \in DOMAIN running, CallbackSettles(i)
        PROVE  Summary
    <2>1. /\ running' = Unsettled(Append(Others(i), [running[i] EXCEPT !.parked = FALSE]))
          /\ Still /\ UNCHANGED <<subs, conns, chain, cursor>>
      BY <1>2 DEF CallbackSettles, Still, streamVars
    <2>2. Work(0, {}, FALSE)
      BY <2>1, SettleMoves, UnsettledWork DEF BaseInv
    <2>3. 0 \notin DOMAIN running
      BY DEF BaseInv, TypeInv
    <2>4. Passes(0, {}, FALSE)
      BY <2>1, <2>2, <2>3 DEF Passes
    <2>5. QED BY <2>4 DEF Summary
  <1>3. QED BY <1>1, <1>2

\* Subscribers leave, or a plugin joins, and no connection changes.
LEMMA GonePasses ==
  ASSUME BaseInv, NEW gone, Work(0, gone, FALSE), conns' = conns, cursor' = cursor,
         \A k \in Clients : k \in Range(subs') => k \in Range(subs) /\ k \notin gone
  PROVE  Summary
  <1>1. 0 \notin DOMAIN running
    BY DEF BaseInv, TypeInv
  <1>2. Passes(0, gone, FALSE)
    BY <1>1 DEF Passes
  <1>3. QED BY <1>2 DEF Summary

LEMMA DisposeSummary ==
  ASSUME BaseInv, NEW k \in Clients, Dispose(k), Still, chain' = chain
  PROVE  /\ Work(0, {k}, FALSE)
         /\ \A c : c \in Range(subs') <=> c \in Range(subs) /\ c # k
  <1>1. /\ subs' = Without(subs, {k}) /\ running' = SkipDisposed(running, {k})
    BY DEF Dispose
  <1>2. Moved(running, running, 0, {}, FALSE)
    BY SelfMoves DEF BaseInv
  <1>3. /\ Work(0, {k}, FALSE)
        /\ \A c : c \in Range(subs') <=> c \in Range(subs) /\ c \notin {k}
    BY <1>1, <1>2, DisposeWork
  <1>4. QED BY <1>3

LEMMA PluginSummary ==
  ASSUME BaseInv, NEW p \in Plugins, PluginSubscribe(p)
  PROVE  Summary
  <1>1. Subscribe(p) /\ Still /\ UNCHANGED <<conns, chain, cursor>> /\ p \in Subscribers
    BY DEF PluginSubscribe, Still, streamVars, Subscribers
  <1>2. /\ Work(0, Displaced(p), FALSE)
        /\ \A c : c \in Range(subs') <=> c = p \/ (c \in Range(subs) /\ c \notin Displaced(p))
    BY <1>1, SubscribeWork
  <1>3. p \notin Clients
    BY HubAssumption
  <1>4. \A k \in Clients : k \in Range(subs') => k \in Range(subs) /\ k \notin Displaced(p)
    BY <1>2, <1>3
  <1>5. QED BY <1>1, <1>2, <1>4, GonePasses

LEMMA ConnectSummary ==
  ASSUME BaseInv, NEW k \in Clients, NEW scope \in Scopes, SubscribeAssistantEvents(k, scope)
  PROVE  Summary
  <1>1. /\ Subscribe(k) /\ Still /\ UNCHANGED <<chain, cursor>> /\ k \in Subscribers
        /\ Quiescent /\ proc = "serving"
    BY DEF SubscribeAssistantEvents, Still, Subscribers
  <1>2. /\ Work(0, Displaced(k), FALSE) /\ k \in Displaced(k)
        /\ \A c : c \in Range(subs') <=> c = k \/ (c \in Range(subs) /\ c \notin Displaced(k))
    BY <1>1, SubscribeWork
  <1>3. \/ \E from \in {NoCursor, cursor[k]} : conns' = [conns EXCEPT ![k] = LiveConn(scope, from)]
        \/ /\ ring' \in Evict(ring)
           /\ CoversCursor(ring', cursor[k], counter.firstStampedSeq)
           /\ conns' = [conns EXCEPT ![k] = ReplayConn(k, scope, cursor[k], ring')]
    BY DEF SubscribeAssistantEvents
  <1>4. Connects(k, scope, Displaced(k))
    BY <1>1, <1>2, <1>3 DEF Connects
  <1>5. QED BY <1>4 DEF Summary

LEMMA ConnFields ==
  ASSUME TypeInv, NEW k \in Clients, conns[k].open
  PROVE  /\ conns[k] \in Conn /\ conns[k].scope \in Scopes
         /\ conns[k].from \in Nat \cup {-1} /\ conns[k].base \in Nat
         /\ conns[k].highWaterReplaySeq \in Nat \cup {-1}
         /\ conns[k].frames \in Seq(Nat) /\ conns[k].queue \in Seq(Nat)
  <1>1. conns[k] \in Conn
    BY DEF TypeInv, NoConn
  <1>2. QED BY <1>1 DEF Conn, NoCursor

LEMMA ReadSummary ==
  ASSUME BaseInv, NEW k \in Clients, HeartbeatTimer(k) \/ ClientReads(k)
  PROVE  Summary
  <1>0. TypeInv /\ SubsInv
    BY DEF BaseInv
  <1>1. CASE HeartbeatTimer(k)
    <2>1. Active(k) /\ conns[k].open /\ Still /\ UNCHANGED <<chain, cursor>>
      BY <1>0, <1>1 DEF HeartbeatTimer, SubsInv, Still, streamVars
    <2>2. CASE Dispose(k) /\ conns' = conns
      <3>1. /\ Work(0, {k}, FALSE)
            /\ \A c : c \in Range(subs') <=> c \in Range(subs) /\ c # k
        BY <2>1, <2>2, DisposeSummary
      <3>2. \A c \in Clients : c \in Range(subs') => c \in Range(subs) /\ c \notin {k}
        BY <3>1
      <3>3. QED BY <2>1, <2>2, <3>1, <3>2, GonePasses
    <2>3. CASE /\ conns' = [conns EXCEPT ![k].queue = Append(conns[k].queue, Heartbeat)]
               /\ UNCHANGED <<subs, running>>
      <3> DEFINE q == Append(conns[k].queue, Heartbeat)
      <3>1. conns[k].queue \in Seq(Nat) /\ Heartbeat \in Nat /\ Heartbeat = 0
        BY <1>0, <2>1, ConnFields DEF Heartbeat
      <3>2. q \in Seq(Nat) /\ \A x : x \in Range(q) <=> x \in Range(conns[k].queue) \/ x = Heartbeat
        BY <3>1, AppendFacts
      <3>3. cursor \in [Clients -> Nat]
        BY <1>0 DEF TypeInv
      <3>4. Queues(k, q)
        BY <2>1, <2>3, <3>1, <3>2, <3>3 DEF Queues
      <3>5. QED BY <3>4 DEF Summary
    <2>4. QED BY <1>1, <2>2, <2>3 DEF HeartbeatTimer
  <1>2. CASE ClientReads(k)
    <2> DEFINE q == conns[k].queue
    <2>1. /\ conns[k].open /\ q # <<>> /\ Still /\ UNCHANGED <<subs, chain, running>>
          /\ conns' = [conns EXCEPT ![k].queue = Tail(q)]
          /\ cursor' = [cursor EXCEPT ![k] = Max({cursor[k], Head(q)})]
      BY <1>2 DEF ClientReads, Still, streamVars
    <2>2. q \in Seq(Nat) /\ cursor \in [Clients -> Nat]
      BY <1>0, <2>1, ConnFields DEF TypeInv
    <2> HIDE DEF q
    <2>3. /\ Head(q) \in Nat /\ Tail(q) \in Seq(Nat) /\ Head(q) \in Range(q)
          /\ \A x : x \in Range(q) <=> x = Head(q) \/ x \in Range(Tail(q))
      BY <2>1, <2>2, TailFacts
    <2>4. Max({cursor[k], Head(q)}) \in {cursor[k], Head(q)}
      <3>1. cursor[k] \in Nat
        BY <2>2
      <3>2. \E x \in {cursor[k], Head(q)} : \A y \in {cursor[k], Head(q)} : x >= y
        BY <2>3, <3>1
      <3>3. QED BY <3>2 DEF Max
    <2>5. cursor' \in [Clients -> Nat]
      BY <2>1, <2>2, <2>3, <2>4
    <2>6. \A j \in Clients : cursor'[j] = cursor[j] \/ (j = k /\ cursor'[j] \in Range(q))
      BY <2>1, <2>2, <2>3, <2>4
    <2>7. Queues(k, Tail(q))
      BY <2>1, <2>3, <2>5, <2>6 DEF Queues, q
    <2>8. QED BY <2>7 DEF Summary
  <1>3. QED BY <1>1, <1>2

LEMMA LeaveSummary ==
  ASSUME BaseInv, NEW k \in Clients, AbortConnection(k) \/ DisposeClient(k)
  PROVE  Summary
  <1>1. Dispose(k) /\ Still /\ UNCHANGED <<chain, cursor>>
    BY DEF AbortConnection, DisposeClient, Still, streamVars
  <1>2. /\ Work(0, {k}, FALSE)
        /\ \A c : c \in Range(subs') <=> c \in Range(subs) /\ c # k
    BY <1>1, DisposeSummary
  <1>3. CASE AbortConnection(k)
    <2>1. Leaves(k)
      BY <1>1, <1>2, <1>3 DEF AbortConnection, Leaves
    <2>2. QED BY <2>1 DEF Summary
  <1>4. CASE DisposeClient(k)
    <2>1. conns' = conns
      BY <1>4 DEF DisposeClient
    <2>2. \A c \in Clients : c \in Range(subs') => c \in Range(subs) /\ c \notin {k}
      BY <1>2
    <2>3. QED BY <1>1, <1>2, <2>1, <2>2, GonePasses
  <1>5. QED BY <1>3, <1>4

LEMMA HubSummary ==
  ASSUME BaseInv, [HubNext]_vars
  PROVE  Summary
  <1>1. CASE UNCHANGED vars
    <2>1. Still /\ UNCHANGED <<subs, conns, chain, running, cursor>>
      BY <1>1 DEF vars, streamVars, hubVars, Still
    <2>2. Moved(running, running', 0, {}, FALSE)
      BY <2>1, SelfMoves DEF BaseInv
    <2>3. \A n \in DOMAIN running' : running'[n].parked \/ running'[n].todo # <<>>
      BY <2>1 DEF BaseInv, RunInv
    <2>4. Work(0, {}, FALSE)
      BY <2>1, <2>2, <2>3, PlainWork
    <2>5. 0 \notin DOMAIN running
      BY DEF BaseInv, TypeInv
    <2>6. Passes(0, {}, FALSE)
      BY <2>1, <2>4, <2>5 DEF Passes
    <2>7. QED BY <2>6 DEF Summary
  <1>2. CASE DaemonBoot \/ DaemonCrash
    BY <1>2, ProcessSummary
  <1>3. ASSUME NEW conv \in Conversations, NEW t \in Targetings,
               BroadcastMessage(conv, t) \/ HandleEventsPublish(conv, t)
        PROVE  Summary
    BY <1>3, StreamSummary
  <1>4. CASE PublishStep \/ \E i \in DOMAIN running : CallbackSettles(i)
    BY <1>4, PublishSummary, DeliverSummary DEF PublishStep
  <1>5. CASE \E p \in Plugins : PluginSubscribe(p)
    BY <1>5, PluginSummary
  <1>6. ASSUME NEW k \in Clients, NEW scope \in Scopes, SubscribeAssistantEvents(k, scope)
        PROVE  Summary
    BY <1>6, ConnectSummary
  <1>7. ASSUME NEW k \in Clients,
               HeartbeatTimer(k) \/ ClientReads(k) \/ AbortConnection(k) \/ DisposeClient(k)
        PROVE  Summary
    BY <1>7, ReadSummary, LeaveSummary
  <1>8. QED BY <1>1, <1>2, <1>3, <1>4, <1>5, <1>6, <1>7 DEF HubNext

----------------------------------------------------------------------------
(* The common invariant.                                                    *)

\* While the process does not serve, nothing happens in the hub.
LEMMA IdleStep ==
  ASSUME BaseInv, [HubNext]_vars, proc # "serving"
  PROVE  Resets
  <1>1. /\ subs = <<>> /\ chain = <<>> /\ running = <<>> /\ issued = {}
        /\ \A k \in Clients : conns[k] = NoConn
    BY DEF BaseInv, StampInv, ReplayInv
  <1>2. conns = [k \in Clients |-> NoConn] /\ Seqs(issued) = {}
    BY <1>1 DEF BaseInv, TypeInv, Seqs
  <1>3. \A s : ~Active(s)
    BY <1>1, RangeFacts DEF Active
  <1>4. \A k \in Clients : ~conns[k].open
    BY <1>1 DEF NoConn
  <1>5. DOMAIN running = {}
    BY <1>1
  <1>6. CASE DaemonBoot \/ UNCHANGED vars
    <2>1. UNCHANGED <<issued, past, subs, conns, chain, running, cursor>>
      BY <1>6 DEF DaemonBoot, StartProcess, FloorSeqAbove, hubVars, vars, streamVars
    <2>2. QED BY <1>1, <1>2, <2>1 DEF Resets
  <1>7. CASE DaemonCrash
    BY <1>7 DEF DaemonCrash, Crash, Resets
  <1>8. ASSUME NEW conv \in Conversations, NEW t \in Targetings,
               BroadcastMessage(conv, t) \/ HandleEventsPublish(conv, t)
        PROVE  FALSE
    BY <1>8 DEF BroadcastMessage, HandleEventsPublish, StampAndBuffer
  <1>9. ~PublishStep /\ ~\E i \in DOMAIN running : CallbackSettles(i)
    BY <1>1, <1>5 DEF PublishStep, ChainPublish
  <1>10. ~\E p \in Plugins : PluginSubscribe(p)
    BY DEF PluginSubscribe
  <1>11. ASSUME NEW k \in Clients
         PROVE  /\ ~\E scope \in Scopes : SubscribeAssistantEvents(k, scope)
                /\ ~HeartbeatTimer(k) /\ ~ClientReads(k)
                /\ ~AbortConnection(k) /\ ~DisposeClient(k)
    BY <1>3, <1>4 DEF SubscribeAssistantEvents, HeartbeatTimer, ClientReads, AbortConnection,
                      DisposeClient
  <1>12. QED BY <1>6, <1>7, <1>8, <1>9, <1>10, <1>11 DEF HubNext

ReplayedSeqs(entries, from, k, scope) ==
  Seqs({e \in ReplayWindow(entries, from) : ReplayMatches(e, k, scope)})

\* What a replayed connection starts with.
LEMMA ReplayFacts ==
  ASSUME BaseInv, NEW k \in Clients, NEW scope \in Scopes, NEW from \in Nat,
         NEW entries, entries \in Evict(ring), NEW c, c = ReplayConn(k, scope, from, entries)
  PROVE  /\ c \in Conn /\ c.open /\ c.scope = scope /\ c.from = from
         /\ c.base = IF entries = {} THEN counter.nextSeq - 1 ELSE from
         /\ entries \subseteq issued
         /\ Range(c.frames) = ReplayedSeqs(entries, from, k, scope)
         /\ \A i, j \in DOMAIN c.frames : i < j => c.frames[i] < c.frames[j]
         /\ \A i \in DOMAIN c.frames : /\ c.frames[i] > from /\ c.frames[i] < counter.nextSeq
                                       /\ c.frames[i] <= c.highWaterReplaySeq
         /\ c.highWaterReplaySeq >= 0 => c.highWaterReplaySeq \in Range(c.frames)
         /\ Range(c.queue) \subseteq {0} \cup Seqs(issued)
  <1> DEFINE R == Seqs({e \in ReplayWindow(entries, from) : ReplayMatches(e, k, scope)})
             frames == Ascending(R)
             next == counter.nextSeq
  <1>1. next \in Nat \ {0} /\ issued \subseteq Entry /\ ring \subseteq Entry
    BY DEF BaseInv, StreamTypeOK, Counter
  <1>2. entries \subseteq issued
    BY <1>1, EvictFacts DEF BaseInv, ReplayInv
  <1>3. \A e \in issued : e.seq \in Nat /\ e.seq < next
    BY <1>1 DEF BaseInv, ReplayInv, Entry
  <1>4. \A x : x \in R <=> \E e \in ReplayWindow(entries, from) :
                             e.seq = x /\ ReplayMatches(e, k, scope)
    BY DEF Seqs
  <1>5. \A x \in R : x \in Nat /\ x > from /\ x < next /\ x \in Seqs(issued)
    <2> TAKE x \in R
    <2>1. PICK e \in ReplayWindow(entries, from) : e.seq = x
      BY <1>4
    <2>2. e \in issued /\ e.seq > from
      BY <1>2, <2>1 DEF ReplayWindow
    <2>3. QED BY <1>3, <2>1, <2>2 DEF Seqs
  <1> HIDE DEF R, next
  <1>6. R \in SUBSET Nat /\ IsFiniteSet(R)
    <2>1. R \in SUBSET (0..next)
      BY <1>1, <1>5
    <2>2. IsFiniteSet(0..next)
      BY <1>1, FS_Interval
    <2>3. QED BY <1>5, <2>1, <2>2, FS_Subset
  <1> DEFINE m == Cardinality(R)
  <1>7. /\ m \in Nat /\ frames \in [1..m -> R]
        /\ \A x \in R : \E n \in 1..m : frames[n] = x
        /\ \A i, j \in 1..m : i < j => frames[i] < frames[j]
    BY <1>6, AscendingFacts
  <1> HIDE DEF frames, m
  <1>8. frames \in Seq(Nat) /\ DOMAIN frames = 1..m /\ Len(frames) = m
    <2>1. frames \in [1..m -> Nat]
      BY <1>6, <1>7
    <2>2. QED BY <1>7, <2>1
  <1>9. \A x : x \in Range(frames) <=> x \in R
    <2> TAKE x
    <2>1. x \in Range(frames) <=> \E n \in 1..m : frames[n] = x
      BY <1>8, RangeFacts
    <2>2. QED BY <1>7, <2>1
  <1>10. ASSUME R # {}
         PROVE  Max(R) \in R /\ \A x \in R : x <= Max(R)
    <2>1. PICK r \in R : TRUE
      BY <1>10
    <2>2. PICK n \in 1..m : frames[n] = r
      BY <1>7
    <2>3. m \in 1..m
      BY <1>7, <2>2
    <2>4. frames[m] \in R /\ \A x \in R : frames[m] >= x
      <3>1. frames[m] \in R
        BY <1>7, <2>3
      <3>2. ASSUME NEW x \in R PROVE frames[m] >= x
        <4>1. PICK j \in 1..m : frames[j] = x
          BY <1>7
        <4>2. j < m \/ j = m
          BY <1>7
        <4>3. x \in Nat /\ frames[m] \in Nat
          BY <1>5, <3>1
        <4>4. QED BY <1>7, <2>3, <4>1, <4>2, <4>3
      <3>3. QED BY <3>1, <3>2
    <2>5. Max(R) \in R /\ \A y \in R : Max(R) >= y
      BY <2>4 DEF Max
    <2>6. QED BY <1>5, <2>5
  <1> DEFINE mark == IF R = {} THEN -1 ELSE Max(R)
             base == IF entries = {} THEN next - 1 ELSE from
             queue == Append(frames, Heartbeat)
  <1>11. mark \in Nat \cup {-1} /\ base \in Nat /\ (mark >= 0 => mark \in R)
         /\ \A x \in R : x <= mark
    BY <1>1, <1>5, <1>10
  <1>12. queue \in Seq(Nat) /\ \A x : x \in Range(queue) <=> x \in R \/ x = 0
    <2>1. Heartbeat \in Nat /\ Heartbeat = 0
      BY DEF Heartbeat
    <2>2. QED BY <1>8, <1>9, <2>1, AppendFacts
  <1>13. c = [open |-> TRUE, scope |-> scope, from |-> from, base |-> base,
              highWaterReplaySeq |-> mark, frames |-> frames, queue |-> queue]
    BY DEF ReplayConn, R, frames, next
  <1> HIDE DEF mark, base, queue
  <1>14. /\ c \in Conn /\ c.open /\ c.scope = scope /\ c.from = from /\ c.base = base
         /\ c.highWaterReplaySeq = mark /\ c.frames = frames /\ c.queue = queue
    BY <1>8, <1>11, <1>12, <1>13 DEF Conn, NoCursor
  <1>15. \A i \in DOMAIN frames : frames[i] \in R
    BY <1>7, <1>8
  <1>16. Range(queue) \subseteq {0} \cup Seqs(issued)
    BY <1>5, <1>12
  <1>17. \A i \in DOMAIN frames : frames[i] > from /\ frames[i] < next /\ frames[i] <= mark
    BY <1>5, <1>11, <1>15
  <1>18. Range(c.frames) = ReplayedSeqs(entries, from, k, scope)
    BY <1>9, <1>14 DEF R, ReplayedSeqs
  <1>19. \A i, j \in DOMAIN c.frames : i < j => c.frames[i] < c.frames[j]
    BY <1>7, <1>8, <1>14
  <1>20. c.highWaterReplaySeq >= 0 => c.highWaterReplaySeq \in Range(c.frames)
    BY <1>9, <1>11, <1>14
  <1>21. c.base = IF entries = {} THEN counter.nextSeq - 1 ELSE from
    BY <1>14 DEF base, next
  <1>22. QED BY <1>2, <1>14, <1>16, <1>17, <1>18, <1>19, <1>20, <1>21 DEF next

\* A connection that starts live has nothing but its first heartbeat.
LEMMA LiveFacts ==
  ASSUME BaseInv, NEW scope \in Scopes, NEW from \in Nat \cup {-1},
         NEW c, c = LiveConn(scope, from)
  PROVE  /\ c \in Conn /\ c.open /\ c.scope = scope /\ c.from = from
         /\ c.base = counter.nextSeq - 1 /\ c.highWaterReplaySeq = -1
         /\ c.frames = <<>> /\ DOMAIN c.frames = {} /\ Range(c.frames) = {}
         /\ Range(c.queue) = {0}
  <1>1. counter.nextSeq - 1 \in Nat
    BY DEF BaseInv, StreamTypeOK, Counter
  <1>2. /\ c \in Conn /\ c.open /\ c.scope = scope /\ c.from = from
        /\ c.base = counter.nextSeq - 1 /\ c.highWaterReplaySeq = -1
        /\ c.frames = <<>> /\ c.queue = <<0>>
    BY <1>1 DEF LiveConn, Conn, NoCursor, Heartbeat
  <1>3. DOMAIN <<0>> = {1} /\ <<0>>[1] = 0 /\ DOMAIN << >> = {}
    OBVIOUS
  <1>4. QED BY <1>2, <1>3 DEF Range

\* The connections a step makes or changes, in general: client k's is c.
LEMMA ConnsTyped ==
  ASSUME TypeInv, NEW k \in Clients, NEW c \in Conn \cup {NoConn},
         conns' = [conns EXCEPT ![k] = c]
  PROVE  /\ conns' \in [Clients -> Conn \cup {NoConn}] /\ conns'[k] = c
         /\ \A j \in Clients : j # k => conns'[j] = conns[j]
  BY DEF TypeInv

LEMMA EnqueueFacts ==
  ASSUME NEW c \in Conn, NEW x \in Nat
  PROVE  LET d == Enqueue(c, x) IN
         /\ d \in Conn /\ d.open /\ d.scope = c.scope /\ d.from = c.from /\ d.base = c.base
         /\ d.highWaterReplaySeq = c.highWaterReplaySeq
         /\ d.frames = Append(c.frames, x) /\ d.queue = Append(c.queue, x)
  <1>1. c.frames \in Seq(Nat) /\ c.queue \in Seq(Nat)
    BY DEF Conn
  <1>2. Append(c.frames, x) \in Seq(Nat) /\ Append(c.queue, x) \in Seq(Nat)
    BY <1>1
  <1>3. Enqueue(c, x) = [c EXCEPT !.frames = Append(c.frames, x), !.queue = Append(c.queue, x)]
    BY DEF Enqueue
  <1> DEFINE f == Append(c.frames, x)
             q == Append(c.queue, x)
  <1> HIDE DEF f, q
  <1>4. QED BY <1>2, <1>3 DEF Conn, f, q

LEMMA RequeueFacts ==
  ASSUME NEW c \in Conn, NEW q \in Seq(Nat)
  PROVE  LET d == [c EXCEPT !.queue = q] IN
         /\ d \in Conn /\ d.open /\ d.scope = c.scope /\ d.from = c.from /\ d.base = c.base
         /\ d.highWaterReplaySeq = c.highWaterReplaySeq
         /\ d.frames = c.frames /\ d.queue = q
  BY DEF Conn

\* Reading or a heartbeat leaves everything of the connection but its queue.
LEMMA QueueFacts ==
  ASSUME TypeInv, NEW k \in Clients, conns[k].open, NEW q \in Seq(Nat),
         conns' = [conns EXCEPT ![k].queue = q]
  PROVE  /\ conns' \in [Clients -> Conn \cup {NoConn}]
         /\ \A j \in Clients : j # k => conns'[j] = conns[j]
         /\ conns'[k].queue = q
         /\ \A j \in Clients : /\ conns'[j].open = conns[j].open
                               /\ conns[j].open =>
                                    /\ conns'[j].scope = conns[j].scope
                                    /\ conns'[j].from = conns[j].from
                                    /\ conns'[j].base = conns[j].base
                                    /\ conns'[j].highWaterReplaySeq = conns[j].highWaterReplaySeq
                                    /\ conns'[j].frames = conns[j].frames
  <1> DEFINE c == conns[k]
             d == [c EXCEPT !.queue = q]
  <1>1. c \in Conn /\ c.open
    BY ConnFields
  <1>2. conns' = [conns EXCEPT ![k] = d]
    OBVIOUS
  <1> HIDE DEF c
  <1>3. /\ d \in Conn /\ d.open /\ d.scope = c.scope /\ d.from = c.from /\ d.base = c.base
        /\ d.highWaterReplaySeq = c.highWaterReplaySeq
        /\ d.frames = c.frames /\ d.queue = q
    BY <1>1, RequeueFacts
  <1>4. d.open = c.open
    BY <1>1 DEF Conn
  <1> HIDE DEF d
  <1>5. /\ conns' \in [Clients -> Conn \cup {NoConn}] /\ conns'[k] = d
        /\ \A j \in Clients : j # k => conns'[j] = conns[j]
    BY <1>2, <1>3, ConnsTyped
  <1>6. ASSUME NEW j \in Clients
        PROVE  /\ conns'[j].open = conns[j].open
               /\ conns[j].open =>
                    /\ conns'[j].scope = conns[j].scope
                    /\ conns'[j].from = conns[j].from
                    /\ conns'[j].base = conns[j].base
                    /\ conns'[j].highWaterReplaySeq = conns[j].highWaterReplaySeq
                    /\ conns'[j].frames = conns[j].frames
    BY <1>3, <1>4, <1>5 DEF c
  <1>7. QED BY <1>3, <1>5, <1>6

LEMMA WorkStep ==
  ASSUME BaseInv, NEW at, NEW gone, NEW parks, Work(at, gone, parks)
  PROVE  /\ running' \in Seq(Publish) /\ chain' \in Seq(Entry) /\ subs' \in Seq(Subscribers)
         /\ Distinct(subs') /\ RunInv'
         /\ \A e \in Range(chain') : e \in issued'
         /\ proc' = proc /\ issued' = issued
  <1>1. /\ Moved(running, running', at, gone, parks) /\ Still /\ chain' = chain
        /\ subs' \in Seq(Subscribers) /\ Distinct(subs')
        /\ \A n \in DOMAIN running' : running'[n].parked \/ running'[n].todo # <<>>
        /\ \A s \in Range(subs) : s \notin gone => s \in Range(subs')
    BY DEF Work
  <1>2. running' \in Seq(Publish)
    BY <1>1 DEF Moved
  <1>3. ASSUME NEW n \in DOMAIN running'
        PROVE  /\ Distinct(running'[n].todo)
               /\ \A s \in Range(running'[n].todo) : s \in Range(subs')
               /\ running'[n].entry \in issued'
    <2>1. PICK i \in DOMAIN running :
            /\ running'[n].entry = running[i].entry
            /\ \A s \in Range(running'[n].todo) : s \in Range(running[i].todo) /\ s \notin gone
            /\ Distinct(running[i].todo) => Distinct(running'[n].todo)
      BY <1>1 DEF Moved
    <2>2. /\ Distinct(running[i].todo) /\ running[i].entry \in issued
          /\ \A s \in Range(running[i].todo) : s \in Range(subs)
      BY DEF BaseInv, RunInv
    <2>3. QED BY <1>1, <2>1, <2>2 DEF Still
  <1>4. RunInv'
    BY <1>1, <1>3 DEF RunInv
  <1>5. QED BY <1>1, <1>2, <1>4 DEF Still, BaseInv, TypeInv, StampInv

\* A publish starts with everybody in the hub ahead of it.
LEMMA StartStep ==
  ASSUME BaseInv, NEW e \in Entry, NEW lane \in {"chain", "ipc"}, StartPublish(e, lane),
         subs' = subs, e \in issued', issued \subseteq issued'
  PROVE  running' \in Seq(Publish) /\ RunInv'
  <1>1. /\ running' \in Seq(Publish)
        /\ \A n \in DOMAIN running' :
              /\ running'[n].parked \/ running'[n].todo # <<>>
              /\ \/ /\ running'[n].entry = e /\ running'[n].todo = subs
                 \/ \E i \in DOMAIN running : running'[n] = running[i]
    BY StartFacts DEF BaseInv
  <1>2. ASSUME NEW n \in DOMAIN running'
        PROVE  /\ Distinct(running'[n].todo)
               /\ \A s \in Range(running'[n].todo) : s \in Range(subs')
               /\ running'[n].entry \in issued'
    <2>1. CASE running'[n].entry = e /\ running'[n].todo = subs
      BY <2>1 DEF BaseInv, SubsInv
    <2>2. CASE \E i \in DOMAIN running : running'[n] = running[i]
      BY <2>2 DEF BaseInv, RunInv
    <2>3. QED BY <1>1, <2>1, <2>2
  <1>3. QED BY <1>1, <1>2 DEF RunInv

\* What the common invariant says of the hub itself.
HubPart == TypeInv /\ SubsInv /\ RunInv /\ \A e \in Range(chain) : e \in issued

LEMMA ResetStep == BaseInv /\ Resets => HubPart'
  <1> SUFFICES ASSUME BaseInv, Resets PROVE HubPart'
    OBVIOUS
  <1>1. /\ subs' = <<>> /\ chain' = <<>> /\ running' = <<>> /\ cursor' = cursor
        /\ conns' = [k \in Clients |-> NoConn]
    BY DEF Resets
  <1>2. TypeInv'
    BY <1>1 DEF TypeInv, BaseInv
  <1>3. DOMAIN subs' = {} /\ DOMAIN chain' = {} /\ DOMAIN running' = {}
    BY <1>1
  <1>4. Range(subs') = {} /\ Range(chain') = {}
    BY <1>3 DEF Range
  <1>5. QED BY <1>2, <1>3, <1>4 DEF HubPart, SubsInv, RunInv, Distinct, Active

LEMMA StampStep ==
  ASSUME BaseInv, NEW e \in Entry, Broadcasts(e) \/ Forwards(e)
  PROVE  HubPart' /\ \A f, g \in issued' : f.seq = g.seq => f = g
  <1>1. /\ counter.nextSeq <= e.seq /\ issued' = issued \cup {e}
        /\ UNCHANGED <<subs, conns, cursor>>
    BY DEF Broadcasts, Forwards, Stamps
  <1>2. e \in issued' /\ issued \subseteq issued'
    BY <1>1
  <1>3. SubsInv'
    BY <1>1 DEF BaseInv, SubsInv, Active
  <1>4. \A f, g \in issued' : f.seq = g.seq => f = g
    <2>1. \A f \in issued : f.seq < counter.nextSeq /\ f.seq \in Nat
      BY DEF BaseInv, ReplayInv, StreamTypeOK, Entry
    <2>2. counter.nextSeq \in Nat /\ e.seq \in Nat
      BY DEF BaseInv, StreamTypeOK, Counter, Entry
    <2>3. \A f \in issued : f.seq # e.seq
      BY <1>1, <2>1, <2>2
    <2>4. QED BY <1>1, <2>3 DEF BaseInv, StampInv
  <1>5. CASE Broadcasts(e)
    <2>1. chain' = Append(chain, e) /\ running' = running
      BY <1>5 DEF Broadcasts
    <2>2. chain' \in Seq(Entry) /\ \A f : f \in Range(chain') <=> f \in Range(chain) \/ f = e
      BY <2>1, AppendFacts DEF BaseInv, TypeInv
    <2>3. TypeInv'
      BY <1>1, <2>1, <2>2 DEF BaseInv, TypeInv
    <2>4. \A f \in Range(chain') : f \in issued'
      BY <1>2, <2>2 DEF BaseInv, StampInv
    <2>5. RunInv'
      BY <1>1, <1>2, <2>1 DEF BaseInv, RunInv
    <2>6. QED BY <1>3, <1>4, <2>3, <2>4, <2>5 DEF HubPart
  <1>6. CASE Forwards(e)
    <2>1. StartPublish(e, "ipc") /\ chain' = chain
      BY <1>6 DEF Forwards
    <2>2. running' \in Seq(Publish) /\ RunInv'
      BY <1>1, <1>2, <2>1, StartStep
    <2>3. TypeInv'
      BY <1>1, <2>1, <2>2 DEF BaseInv, TypeInv
    <2>4. \A f \in Range(chain') : f \in issued'
      BY <1>2, <2>1 DEF BaseInv, StampInv
    <2>5. QED BY <1>3, <1>4, <2>2, <2>3, <2>4 DEF HubPart
  <1>7. QED BY <1>5, <1>6

LEMMA ChainStep == BaseInv /\ Publishes => HubPart'
  <1> SUFFICES ASSUME BaseInv, Publishes PROVE HubPart'
    OBVIOUS
  <1>1. /\ issued' = issued /\ chain # <<>> /\ StartPublish(Head(chain), "chain")
        /\ chain' = Tail(chain) /\ UNCHANGED <<subs, conns, cursor>>
    BY DEF Publishes, Still
  <1>2. chain \in Seq(Entry)
    BY DEF BaseInv, TypeInv
  <1>3. /\ Head(chain) \in Entry /\ chain' \in Seq(Entry) /\ Head(chain) \in Range(chain)
        /\ \A x : x \in Range(chain) <=> x = Head(chain) \/ x \in Range(chain')
    BY <1>1, <1>2, TailFacts
  <1>4. \A x \in Range(chain') : x \in issued'
    BY <1>1, <1>3 DEF BaseInv, StampInv
  <1>5. Head(chain) \in issued
    BY <1>3 DEF BaseInv, StampInv
  <1>6. running' \in Seq(Publish) /\ RunInv'
    BY <1>1, <1>3, <1>5, StartStep
  <1>7. QED BY <1>1, <1>3, <1>4, <1>6 DEF HubPart, TypeInv, SubsInv, BaseInv, Active

LEMMA PassStep ==
  ASSUME BaseInv, NEW at, NEW gone, NEW parks, Passes(at, gone, parks)
  PROVE  HubPart'
  <1>1. /\ Work(at, gone, parks) /\ conns' = conns /\ cursor' = cursor
        /\ \A k \in Clients : k \in Range(subs') => k \in Range(subs)
    BY DEF Passes
  <1>2. /\ running' \in Seq(Publish) /\ chain' \in Seq(Entry) /\ subs' \in Seq(Subscribers)
        /\ Distinct(subs') /\ RunInv' /\ \A e \in Range(chain') : e \in issued'
    BY <1>1, WorkStep
  <1>3. TypeInv'
    BY <1>1, <1>2 DEF BaseInv, TypeInv
  <1>4. SubsInv'
    BY <1>1, <1>2 DEF BaseInv, SubsInv, Active
  <1>5. QED BY <1>2, <1>3, <1>4 DEF HubPart

\* The enqueue, as a change of the connections.
LEMMA SendFacts ==
  ASSUME BaseInv, NEW i, NEW k, Sends(i, k)
  PROVE  LET x == running[i].entry.seq
             c == conns[k]
         IN /\ k \in Clients /\ i \in DOMAIN running /\ x \in Nat /\ c.open
            /\ k \in Range(running[i].todo) /\ k \in Range(subs)
            /\ running[i].entry \in issued /\ c.frames \in Seq(Nat)
            /\ conns' \in [Clients -> Conn \cup {NoConn}]
            /\ \A j \in Clients : j # k => conns'[j] = conns[j]
            /\ conns'[k].open /\ conns'[k].scope = c.scope /\ conns'[k].from = c.from
            /\ conns'[k].base = c.base /\ conns'[k].highWaterReplaySeq = c.highWaterReplaySeq
            /\ conns'[k].frames = Append(c.frames, x)
            /\ Range(conns'[k].frames) = Range(c.frames) \cup {x}
            /\ Range(conns'[k].queue) = Range(c.queue) \cup {x}
  <1> DEFINE x == running[i].entry.seq
             c == conns[k]
             d == Enqueue(c, x)
  <1>1. /\ i \in DOMAIN running /\ k \in Clients /\ k \in Range(running[i].todo)
        /\ conns' = [conns EXCEPT ![k] = d]
    BY DEF Sends
  <1>2. TypeInv /\ k \in Range(subs) /\ running[i].entry \in issued
    BY <1>1 DEF BaseInv, RunInv
  <1>3. c.open
    BY <1>1, <1>2 DEF BaseInv, SubsInv, Active
  <1>4. c \in Conn /\ c.frames \in Seq(Nat) /\ c.queue \in Seq(Nat)
    BY <1>1, <1>2, <1>3, ConnFields
  <1>5. x \in Nat
    BY <1>2 DEF BaseInv, StreamTypeOK, Entry
  <1> HIDE DEF x, c
  <1>6. /\ d \in Conn /\ d.open /\ d.scope = c.scope /\ d.from = c.from /\ d.base = c.base
        /\ d.highWaterReplaySeq = c.highWaterReplaySeq
        /\ d.frames = Append(c.frames, x) /\ d.queue = Append(c.queue, x)
    BY <1>4, <1>5, EnqueueFacts
  <1> HIDE DEF d
  <1>7. /\ conns' \in [Clients -> Conn \cup {NoConn}] /\ conns'[k] = d
        /\ \A j \in Clients : j # k => conns'[j] = conns[j]
    BY <1>1, <1>2, <1>6, ConnsTyped
  <1>8. /\ \A y : y \in Range(Append(c.frames, x)) <=> y \in Range(c.frames) \/ y = x
        /\ \A y : y \in Range(Append(c.queue, x)) <=> y \in Range(c.queue) \/ y = x
    BY <1>4, <1>5, AppendFacts
  <1>9. /\ Range(d.frames) = Range(c.frames) \cup {x} /\ Range(d.queue) = Range(c.queue) \cup {x}
    BY <1>6, <1>8
  <1>10. QED BY <1>1, <1>2, <1>3, <1>4, <1>5, <1>6, <1>7, <1>9 DEF x, c

LEMMA SendStep ==
  ASSUME BaseInv, NEW i, NEW k, Sends(i, k)
  PROVE  HubPart'
  <1>1. Work(i, {}, FALSE) /\ subs' = subs /\ cursor' = cursor
    BY DEF Sends
  <1>2. /\ running' \in Seq(Publish) /\ chain' \in Seq(Entry) /\ subs' \in Seq(Subscribers)
        /\ Distinct(subs') /\ RunInv' /\ \A e \in Range(chain') : e \in issued'
    BY <1>1, WorkStep
  <1>3. /\ k \in Clients /\ conns' \in [Clients -> Conn \cup {NoConn}] /\ conns'[k].open
        /\ \A j \in Clients : j # k => conns'[j] = conns[j]
    BY SendFacts
  <1>4. TypeInv'
    BY <1>1, <1>2, <1>3 DEF BaseInv, TypeInv
  <1>5. SubsInv'
    BY <1>1, <1>2, <1>3 DEF BaseInv, SubsInv, Active
  <1>6. QED BY <1>2, <1>4, <1>5 DEF HubPart

LEMMA QueueStep ==
  ASSUME BaseInv, NEW k, NEW q, Queues(k, q)
  PROVE  HubPart'
  <1>1. /\ Still /\ UNCHANGED <<subs, chain, running>> /\ k \in Clients /\ conns[k].open
        /\ q \in Seq(Nat) /\ conns' = [conns EXCEPT ![k].queue = q]
        /\ cursor' \in [Clients -> Nat]
    BY DEF Queues
  <1>2. /\ conns' \in [Clients -> Conn \cup {NoConn}]
        /\ \A j \in Clients : conns'[j].open = conns[j].open
    BY <1>1, QueueFacts DEF BaseInv
  <1>3. TypeInv'
    BY <1>1, <1>2 DEF BaseInv, TypeInv
  <1>4. SubsInv'
    BY <1>1, <1>2 DEF BaseInv, SubsInv, Active
  <1>5. RunInv' /\ \A e \in Range(chain') : e \in issued'
    BY <1>1 DEF Still, BaseInv, RunInv, StampInv
  <1>6. QED BY <1>3, <1>4, <1>5 DEF HubPart

\* A new connection: the client's subscription and stream, nobody else's.
LEMMA ConnectFacts ==
  ASSUME BaseInv, NEW k, NEW scope, NEW gone, Connects(k, scope, gone)
  PROVE  /\ k \in Clients /\ scope \in Scopes /\ cursor[k] \in Nat
         /\ conns' \in [Clients -> Conn \cup {NoConn}]
         /\ conns'[k] \in Conn /\ conns'[k].open /\ conns'[k].scope = scope
         /\ \A j \in Clients : j # k => conns'[j] = conns[j]
         /\ \/ \E from \in {-1, cursor[k]} : conns'[k] = LiveConn(scope, from)
            \/ /\ ring' \in Evict(ring)
               /\ CoversCursor(ring', cursor[k], counter.firstStampedSeq)
               /\ conns'[k] = ReplayConn(k, scope, cursor[k], ring')
  <1>1. /\ k \in Clients /\ scope \in Scopes
        /\ \/ \E from \in {NoCursor, cursor[k]} : conns' = [conns EXCEPT ![k] = LiveConn(scope, from)]
           \/ /\ ring' \in Evict(ring)
              /\ CoversCursor(ring', cursor[k], counter.firstStampedSeq)
              /\ conns' = [conns EXCEPT ![k] = ReplayConn(k, scope, cursor[k], ring')]
    BY DEF Connects
  <1>2. TypeInv /\ cursor[k] \in Nat
    BY <1>1 DEF BaseInv, TypeInv
  <1>3. ASSUME NEW from \in {NoCursor, cursor[k]}, conns' = [conns EXCEPT ![k] = LiveConn(scope, from)]
        PROVE  /\ conns' \in [Clients -> Conn \cup {NoConn}] /\ conns'[k] = LiveConn(scope, from)
               /\ conns'[k] \in Conn /\ conns'[k].open /\ conns'[k].scope = scope
               /\ \A j \in Clients : j # k => conns'[j] = conns[j]
    <2> DEFINE c == LiveConn(scope, from)
    <2>1. from \in Nat \cup {-1}
      BY <1>2, <1>3 DEF NoCursor
    <2>2. c \in Conn /\ c.open /\ c.scope = scope
      BY <1>1, <2>1, LiveFacts
    <2> HIDE DEF c
    <2>3. /\ conns' \in [Clients -> Conn \cup {NoConn}] /\ conns'[k] = c
          /\ \A j \in Clients : j # k => conns'[j] = conns[j]
      BY <1>1, <1>2, <1>3, <2>2, ConnsTyped DEF c
    <2>4. QED BY <2>2, <2>3 DEF c
  <1>4. ASSUME ring' \in Evict(ring), conns' = [conns EXCEPT ![k] = ReplayConn(k, scope, cursor[k], ring')]
        PROVE  /\ conns' \in [Clients -> Conn \cup {NoConn}]
               /\ conns'[k] = ReplayConn(k, scope, cursor[k], ring')
               /\ conns'[k] \in Conn /\ conns'[k].open /\ conns'[k].scope = scope
               /\ \A j \in Clients : j # k => conns'[j] = conns[j]
    <2> DEFINE c == ReplayConn(k, scope, cursor[k], ring')
    <2>1. c \in Conn /\ c.open /\ c.scope = scope
      BY <1>1, <1>2, <1>4, ReplayFacts
    <2> HIDE DEF c
    <2>2. /\ conns' \in [Clients -> Conn \cup {NoConn}] /\ conns'[k] = c
          /\ \A j \in Clients : j # k => conns'[j] = conns[j]
      BY <1>1, <1>2, <1>4, <2>1, ConnsTyped DEF c
    <2>3. QED BY <2>1, <2>2 DEF c
  <1>5. QED BY <1>1, <1>2, <1>3, <1>4 DEF NoCursor

LEMMA ConnectStep ==
  ASSUME BaseInv, NEW k, NEW scope, NEW gone, Connects(k, scope, gone)
  PROVE  HubPart'
  <1>1. /\ Work(0, gone, FALSE) /\ cursor' = cursor
        /\ \A c \in Clients : c \in Range(subs') => c = k \/ c \in Range(subs)
    BY DEF Connects
  <1>2. /\ running' \in Seq(Publish) /\ chain' \in Seq(Entry) /\ subs' \in Seq(Subscribers)
        /\ Distinct(subs') /\ RunInv' /\ \A e \in Range(chain') : e \in issued'
    BY <1>1, WorkStep
  <1>3. /\ k \in Clients /\ conns' \in [Clients -> Conn \cup {NoConn}] /\ conns'[k].open
        /\ \A j \in Clients : j # k => conns'[j] = conns[j]
    BY ConnectFacts
  <1>4. TypeInv'
    BY <1>1, <1>2, <1>3 DEF BaseInv, TypeInv
  <1>5. SubsInv'
    BY <1>1, <1>2, <1>3 DEF BaseInv, SubsInv, Active
  <1>6. QED BY <1>2, <1>4, <1>5 DEF HubPart

LEMMA LeaveStep ==
  ASSUME BaseInv, NEW k, Leaves(k)
  PROVE  /\ HubPart' /\ conns'[k] = NoConn
         /\ \A j \in Clients : j # k => conns'[j] = conns[j]
  <1>1. /\ Work(0, {k}, FALSE) /\ cursor' = cursor
        /\ k \in Clients /\ conns' = [conns EXCEPT ![k] = NoConn]
        /\ \A c \in Clients : c \in Range(subs') => c \in Range(subs) /\ c # k
    BY DEF Leaves
  <1>2. /\ running' \in Seq(Publish) /\ chain' \in Seq(Entry) /\ subs' \in Seq(Subscribers)
        /\ Distinct(subs') /\ RunInv' /\ \A e \in Range(chain') : e \in issued'
    BY <1>1, WorkStep
  <1>3. /\ conns' \in [Clients -> Conn \cup {NoConn}] /\ conns'[k] = NoConn
        /\ \A j \in Clients : j # k => conns'[j] = conns[j]
    BY <1>1 DEF BaseInv, TypeInv
  <1>4. TypeInv'
    BY <1>1, <1>2, <1>3 DEF BaseInv, TypeInv
  <1>5. SubsInv'
    BY <1>1, <1>2, <1>3 DEF BaseInv, SubsInv, Active
  <1>6. QED BY <1>2, <1>3, <1>4, <1>5 DEF HubPart

LEMMA BaseStep ==
  ASSUME BaseInv, [HubNext]_vars
  PROVE  BaseInv'
  <1>1. StreamTypeOK' /\ ReplayInv'
    BY StreamPart, StreamTypeStep, ReplayStep DEF BaseInv
  <1>2. Summary
    BY HubSummary
  <1>3. HubPart'
    BY <1>2, ResetStep, StampStep, ChainStep, PassStep, SendStep, QueueStep, ConnectStep, LeaveStep
    DEF Summary
  <1>4. \A f, g \in issued' : f.seq = g.seq => f = g
    <2>1. CASE \E e \in Entry : Broadcasts(e) \/ Forwards(e)
      BY <2>1, StampStep
    <2>2. CASE issued' = {} \/ issued' = issued
      BY <2>2 DEF BaseInv, StampInv
    <2>3. QED BY <1>2, <2>1, <2>2
          DEF Summary, Resets, Publishes, Passes, Sends, Queues, Connects, Leaves, Work, Still
  <1>5. proc' # "serving" => /\ subs' = <<>> /\ chain' = <<>> /\ running' = <<>>
                             /\ \A k \in Clients : conns'[k] = NoConn
    <2>1. CASE Resets
      BY <2>1 DEF Resets
    <2>2. CASE ~Resets
      <3>1. proc = "serving"
        BY <2>2, IdleStep
      <3>2. proc' = "serving"
        BY <1>2, <2>2, <3>1 DEF Summary, Publishes, Passes, Sends, Queues, Connects, Leaves, Work,
                                Still, Broadcasts, Forwards, Stamps
      <3>3. QED BY <3>2
    <2>3. QED BY <2>1, <2>2
  <1>6. StampInv'
    BY <1>3, <1>4, <1>5 DEF StampInv, HubPart
  <1>7. QED BY <1>1, <1>3, <1>6 DEF BaseInv, HubPart

LEMMA BaseInit == HubInit => BaseInv
  <1> SUFFICES ASSUME HubInit PROVE BaseInv
    OBVIOUS
  <1>1. StreamInit /\ subs = <<>> /\ conns = [k \in Clients |-> NoConn] /\ chain = <<>>
        /\ running = <<>> /\ cursor = [k \in Clients |-> 0]
    BY DEF HubInit
  <1>2. StreamTypeOK /\ ReplayInv /\ issued = {}
    BY <1>1, FreshCounterFacts, EmptyRingFits DEF StreamInit, StreamTypeOK, ReplayInv
  <1>3. TypeInv
    BY <1>1 DEF TypeInv
  <1>4. DOMAIN subs = {} /\ DOMAIN chain = {} /\ DOMAIN running = {}
    BY <1>1
  <1>5. Range(subs) = {} /\ Range(chain) = {}
    BY <1>4 DEF Range
  <1>6. QED BY <1>1, <1>2, <1>3, <1>4, <1>5
        DEF BaseInv, SubsInv, RunInv, StampInv, Distinct, Active

LEMMA BaseHolds == HubSpec => []BaseInv
  BY BaseInit, BaseStep, PTL DEF HubSpec

\* Type correctness of the hub, and that it holds a subscriber once: a client
\* that reconnects replaces its entry, whatever publishes are in progress.
THEOREM HubTypeCorrect == HubSpec => []HubTypeOK
  <1>1. BaseInv => HubTypeOK
    BY DEF BaseInv, TypeInv, SubsInv, Distinct, Subscribers, HubTypeOK
  <1>2. QED BY <1>1, BaseHolds, PTL

----------------------------------------------------------------------------
(* Events stay in their audience.                                           *)

\* Whom an event is for depends on the connection's filter alone.
LEMMA SameScope ==
  ASSUME NEW k \in Clients, conns'[k].scope = conns[k].scope, NEW e
  PROVE  LiveMatches(e, k)' <=> LiveMatches(e, k)
  BY DEF LiveMatches, ScopeOf, LiveIdentity

\* The headers only add capabilities: what replay lets through, the live
\* subscription would too.
LEMMA ReplayWithinLive ==
  ASSUME NEW k \in Clients, NEW e, ReplayMatches(e, k, conns'[k].scope)
  PROVE  LiveMatches(e, k)'
  <1> DEFINE id == Identity[k]
             caps == id.capabilities \cup HeaderCapabilities[k]
             live == LiveIdentity(k)
  <1>1. k \notin Plugins /\ DOMAIN id = DOMAIN ProcessSubscriber
    BY HubAssumption
  <1>2. live = [id EXCEPT !.capabilities = caps]
    BY <1>1 DEF LiveIdentity
  <1>3. DOMAIN id = {"type", "clientId", "interfaceId", "capabilities", "actorPrincipalId"}
    BY <1>1 DEF ProcessSubscriber
  <1> HIDE DEF id
  <1>4. /\ live.type = id.type /\ live.clientId = id.clientId
        /\ live.interfaceId = id.interfaceId /\ live.actorPrincipalId = id.actorPrincipalId
        /\ live.capabilities = caps
    BY <1>2, <1>3
  <1>5. MatchesTargeting(e.targeting, id) /\ conns'[k].scope \in {Absent, e.conv}
    BY DEF ReplayMatches, id
  <1> HIDE DEF live
  <1>6. MatchesTargeting(e.targeting, live)
    BY <1>4, <1>5 DEF MatchesTargeting
  <1>7. ScopeOf(k)' = conns'[k].scope
    BY <1>1 DEF ScopeOf
  <1>8. QED BY <1>5, <1>6, <1>7 DEF LiveMatches, live, LiveIdentity

\* A connection that a step leaves as it is, but for its queue.
Kept(k) ==
  /\ conns[k].open
  /\ conns'[k].scope = conns[k].scope /\ conns'[k].from = conns[k].from
  /\ conns'[k].base = conns[k].base
  /\ conns'[k].highWaterReplaySeq = conns[k].highWaterReplaySeq
  /\ conns'[k].frames = conns[k].frames
  /\ Range(conns'[k].queue) \subseteq {0} \cup Range(conns[k].queue)

\* An open connection was there before, or is new, or has just been sent to.
LEMMA ConnCases ==
  ASSUME BaseInv, Summary, NEW k \in Clients, conns'[k].open
  PROVE  \/ Kept(k)
         \/ \E i : Sends(i, k)
         \/ \E scope, gone : Connects(k, scope, gone)
  <1>1. CASE Resets
    BY <1>1 DEF Resets, NoConn
  <1>2. CASE conns' = conns
    BY <1>2 DEF Kept
  <1>3. ASSUME NEW i, NEW j, Sends(i, j), j # k PROVE Kept(k)
    <2>1. conns'[k] = conns[k]
      BY <1>3, SendFacts
    <2>2. QED BY <2>1 DEF Kept
  <1>4. ASSUME NEW j, NEW q, Queues(j, q) PROVE Kept(k)
    <2>1. /\ conns'[k].open = conns[k].open
          /\ conns[k].open =>
               /\ conns'[k].scope = conns[k].scope /\ conns'[k].from = conns[k].from
               /\ conns'[k].base = conns[k].base
               /\ conns'[k].highWaterReplaySeq = conns[k].highWaterReplaySeq
               /\ conns'[k].frames = conns[k].frames
      BY <1>4, QueueFacts DEF Queues, BaseInv
    <2>2. /\ conns'[j].queue = q /\ \A x \in Range(q) : x = 0 \/ x \in Range(conns[j].queue)
          /\ j # k => conns'[k] = conns[k]
      BY <1>4, QueueFacts DEF Queues, BaseInv
    <2>3. Range(conns'[k].queue) \subseteq {0} \cup Range(conns[k].queue)
      BY <2>2
    <2>4. QED BY <2>1, <2>3 DEF Kept
  <1>5. ASSUME NEW j, NEW scope, NEW gone, Connects(j, scope, gone), j # k PROVE Kept(k)
    <2>1. conns'[k] = conns[k]
      BY <1>5, ConnectFacts
    <2>2. QED BY <2>1 DEF Kept
  <1>6. ASSUME NEW j, Leaves(j) PROVE Kept(k)
    <2>1. j # k
      BY <1>6, LeaveStep DEF NoConn
    <2>2. conns'[k] = conns[k]
      BY <1>6, <2>1, LeaveStep
    <2>3. QED BY <2>2 DEF Kept
  <1>7. CASE \E e \in Entry : Broadcasts(e) \/ Forwards(e)
    BY <1>2, <1>7 DEF Broadcasts, Forwards, Stamps
  <1>8. CASE Publishes
    BY <1>2, <1>8 DEF Publishes
  <1>9. CASE \E at, gone, parks : Passes(at, gone, parks)
    BY <1>2, <1>9 DEF Passes
  <1>10. QED BY <1>1, <1>3, <1>4, <1>5, <1>6, <1>7, <1>8, <1>9 DEF Summary

\* Nothing is open across a restart; otherwise events are only added.
LEMMA IssuedGrows ==
  ASSUME BaseInv, Summary, NEW k \in Clients, conns'[k].open
  PROVE  issued \subseteq issued'
  <1>1. ~Resets
    BY DEF Resets, NoConn
  <1>2. QED BY <1>1 DEF Summary, Publishes, Passes, Sends, Queues, Connects, Leaves, Work,
                       Still, Broadcasts, Forwards, Stamps

LEMMA AudienceStep ==
  ASSUME BaseInv, AudienceInv, [HubNext]_vars
  PROVE  AudienceInv'
  <1>1. Summary /\ TypeInv'
    BY HubSummary, BaseStep DEF BaseInv
  <1>2. SUFFICES ASSUME NEW k \in Clients, conns'[k].open, NEW n \in DOMAIN conns'[k].frames
                 PROVE  \E e \in issued' : e.seq = conns'[k].frames[n] /\ LiveMatches(e, k)'
    BY DEF AudienceInv
  <1>3. issued \subseteq issued'
    BY <1>1, <1>2, IssuedGrows
  <1>4. CASE Kept(k)
    <2>1. PICK e \in issued : e.seq = conns[k].frames[n] /\ LiveMatches(e, k)
      BY <1>2, <1>4 DEF Kept, AudienceInv
    <2>2. LiveMatches(e, k)'
      BY <1>4, <2>1, SameScope DEF Kept
    <2>3. QED BY <1>3, <1>4, <2>1, <2>2 DEF Kept
  <1>5. ASSUME NEW i, Sends(i, k)
        PROVE  \E e \in issued' : e.seq = conns'[k].frames[n] /\ LiveMatches(e, k)'
    <2> DEFINE x == running[i].entry.seq
               c == conns[k]
    <2>1. /\ c.open /\ conns'[k].scope = c.scope /\ conns'[k].frames = Append(c.frames, x)
          /\ running[i].entry \in issued /\ c.frames \in Seq(Nat) /\ x \in Nat
      BY <1>5, SendFacts
    <2>2. LiveMatches(running[i].entry, k)
      BY <1>5 DEF Sends
    <2>3. /\ DOMAIN c.frames = 1..Len(c.frames) /\ Len(c.frames) \in Nat
          /\ DOMAIN conns'[k].frames = 1..(Len(c.frames) + 1)
          /\ \A m \in DOMAIN c.frames : conns'[k].frames[m] = c.frames[m]
          /\ conns'[k].frames[Len(c.frames) + 1] = x
      BY <2>1, AppendFacts
    <2>4. CASE n = Len(c.frames) + 1
      <3>1. PICK e \in issued : e = running[i].entry /\ e.seq = x
        BY <2>1
      <3>2. LiveMatches(e, k)
        BY <2>2, <3>1
      <3>3. LiveMatches(e, k)'
        BY <2>1, <3>2, SameScope
      <3>4. QED BY <1>3, <2>3, <2>4, <3>1, <3>3
    <2>5. CASE n # Len(c.frames) + 1
      <3>1. n \in DOMAIN c.frames
        BY <1>2, <2>3, <2>5
      <3>2. PICK e \in issued : e.seq = c.frames[n] /\ LiveMatches(e, k)
        BY <2>1, <3>1 DEF AudienceInv
      <3>3. LiveMatches(e, k)'
        BY <2>1, <3>2, SameScope
      <3>4. QED BY <1>3, <2>3, <3>1, <3>2, <3>3
    <2>6. QED BY <2>4, <2>5
  <1>6. ASSUME NEW scope, NEW gone, Connects(k, scope, gone)
        PROVE  \E e \in issued' : e.seq = conns'[k].frames[n] /\ LiveMatches(e, k)'
    <2> DEFINE c == conns'[k]
    <2>1. /\ scope \in Scopes /\ cursor[k] \in Nat
          /\ \/ \E from \in {-1, cursor[k]} : c = LiveConn(scope, from)
             \/ ring' \in Evict(ring) /\ c = ReplayConn(k, scope, cursor[k], ring')
      BY <1>6, ConnectFacts
    <2>2. CASE \E from \in {-1, cursor[k]} : c = LiveConn(scope, from)
      <3>1. DOMAIN c.frames = {}
        BY <2>1, <2>2, LiveFacts
      <3>2. QED BY <1>2, <3>1
    <2>3. CASE ring' \in Evict(ring) /\ c = ReplayConn(k, scope, cursor[k], ring')
      <3>1. /\ c.scope = scope /\ ring' \subseteq issued
            /\ Range(c.frames) = ReplayedSeqs(ring', cursor[k], k, scope)
        <4> HIDE DEF c
        <4>1. QED BY <2>1, <2>3, ReplayFacts
      <3>2. c.frames[n] \in Range(c.frames)
        BY <1>2 DEF Range
      <3>3. PICK e \in ReplayWindow(ring', cursor[k]) :
              e.seq = c.frames[n] /\ ReplayMatches(e, k, scope)
        BY <3>1, <3>2 DEF ReplayedSeqs, Seqs
      <3>4. e \in issued
        BY <3>1, <3>3 DEF ReplayWindow
      <3>5. LiveMatches(e, k)'
        BY <3>1, <3>3, ReplayWithinLive
      <3>6. QED BY <1>3, <3>3, <3>4, <3>5
    <2>4. QED BY <2>1, <2>2, <2>3
  <1>7. QED BY <1>1, <1>2, <1>4, <1>5, <1>6, ConnCases

\* A targeted event is enqueued only to clients its targeting and its
\* conversation filter admit: by publish() to the subscribers of its snapshot
\* and by the replay of a reconnecting client, for any clients, plugins,
\* targetings and faults of the reservation file.
THEOREM EventsStayInTheirAudience == HubSpec => []DeliveredOnlyToAudience
  <1>1. HubInit => AudienceInv
    BY DEF HubInit, AudienceInv, NoConn
  <1>2. BaseInv /\ AudienceInv /\ [HubNext]_vars => AudienceInv'
    BY AudienceStep
  <1>3. BaseInv /\ AudienceInv => DeliveredOnlyToAudience
    <2> SUFFICES ASSUME BaseInv, AudienceInv, NEW k \in Clients, conns[k].open,
                        NEW e \in issued, e.seq \in Range(conns[k].frames)
                 PROVE  LiveMatches(e, k)
      BY DEF DeliveredOnlyToAudience
    <2>1. PICK n \in DOMAIN conns[k].frames : conns[k].frames[n] = e.seq
      BY DEF Range
    <2>2. PICK f \in issued : f.seq = e.seq /\ LiveMatches(f, k)
      BY <2>1 DEF AudienceInv
    <2>3. f = e
      BY <2>2 DEF BaseInv, StampInv
    <2>4. QED BY <2>2, <2>3
  <1>4. QED BY <1>1, <1>2, <1>3, BaseHolds, PTL DEF HubSpec

----------------------------------------------------------------------------
(* Nothing a client is owed is lost.                                        *)

\* When a connection begins, what it owes its client from before is in it.
LEMMA NewConnComplete ==
  ASSUME BaseInv, ReplaysAlike, NEW k \in Clients, NEW scope, NEW gone, Connects(k, scope, gone),
         NEW e \in issued, e.seq > conns'[k].base, LiveMatches(e, k)'
  PROVE  e.seq \in Range(conns'[k].frames)
  <1> DEFINE c == conns'[k]
             from == cursor[k]
             next == counter.nextSeq
  <1>1. /\ scope \in Scopes /\ from \in Nat /\ c.scope = scope
        /\ \/ \E f \in {-1, from} : c = LiveConn(scope, f)
           \/ /\ ring' \in Evict(ring) /\ CoversCursor(ring', from, counter.firstStampedSeq)
              /\ c = ReplayConn(k, scope, from, ring')
    BY ConnectFacts
  <1>2. e.seq \in Nat /\ next \in Nat /\ e.seq < next /\ e \in Entry
    BY DEF BaseInv, StreamTypeOK, ReplayInv, Entry, Counter
  <1>3. c.base # next - 1
    BY <1>2
  <1>4. /\ ring' \in Evict(ring) /\ CoversCursor(ring', from, counter.firstStampedSeq)
        /\ c = ReplayConn(k, scope, from, ring')
    <2>1. ~\E f \in {-1, from} : c = LiveConn(scope, f)
      BY <1>1, <1>3, LiveFacts
    <2>2. QED BY <1>1, <2>1
  <1>5. /\ c.base = IF ring' = {} THEN next - 1 ELSE from
        /\ Range(c.frames) = ReplayedSeqs(ring', from, k, scope)
    <2> HIDE DEF c
    <2>1. QED BY <1>1, <1>4, ReplayFacts
  <1>6. ring' # {} /\ e.seq > from
    BY <1>3, <1>5
  <1>7. e \in ReplayWindow(ring', from)
    <2>1. from \in 0..next
      BY <1>1, <1>2, <1>6
    <2>2. ReplayComplete
      BY ReplayInvImpliesComplete DEF BaseInv
    <2>3. QED BY <1>4, <1>6, <2>1, <2>2 DEF ReplayComplete
  <1>8. ReplayMatches(e, k, scope)
    <2>1. k \notin Plugins
      BY HubAssumption
    <2>2. /\ MatchesTargeting(e.targeting, LiveIdentity(k))
          /\ e.targeting.targetClientId # Absent \/ scope \in {Absent, e.conv}
      BY <1>1, <2>1 DEF LiveMatches, ScopeOf, LiveIdentity
    <2>3. QED BY <1>1, <1>2, <2>2 DEF ReplaysAlike
  <1>9. QED BY <1>5, <1>7, <1>8 DEF ReplayedSeqs, Seqs

\* The counter only moves forward while a connection is open.
LEMMA CounterGrows ==
  ASSUME BaseInv, Summary, NEW k \in Clients, conns'[k].open
  PROVE  counter.nextSeq \in Nat /\ counter'.nextSeq \in Nat /\ counter.nextSeq <= counter'.nextSeq
  <1>1. counter.nextSeq \in Nat
    BY DEF BaseInv, StreamTypeOK, Counter
  <1>2. ~Resets
    BY DEF Resets, NoConn
  <1>3. ASSUME NEW e \in Entry, Broadcasts(e) \/ Forwards(e)
        PROVE  counter'.nextSeq \in Nat /\ counter.nextSeq <= counter'.nextSeq
    <2>1. e.seq \in Nat /\ counter.nextSeq <= e.seq /\ counter'.nextSeq = e.seq + 1
      BY <1>3 DEF Broadcasts, Forwards, Stamps, Entry
    <2>2. QED BY <1>1, <2>1
  <1>4. CASE Still
    BY <1>1, <1>4 DEF Still
  <1>5. QED BY <1>1, <1>2, <1>3, <1>4
        DEF Summary, Publishes, Passes, Sends, Queues, Connects, Leaves, Work

\* A step that stamps adds the event it stamps, above the counter.
LEMMA NewEvents ==
  ASSUME BaseInv, Summary, NEW k \in Clients, conns'[k].open, NEW e \in issued', e \notin issued
  PROVE  /\ e.seq \in Nat /\ counter.nextSeq \in Nat /\ e.seq >= counter.nextSeq
         /\ Broadcasts(e) \/ Forwards(e)
  <1>1. ~Resets
    BY DEF Resets, NoConn
  <1>2. PICK f \in Entry : Broadcasts(f) \/ Forwards(f)
    BY <1>1 DEF Summary, Publishes, Passes, Sends, Queues, Connects, Leaves, Work, Still
  <1>3. issued' = issued \cup {f} /\ f.seq >= counter.nextSeq
    <2>1. f.seq \in Nat /\ counter.nextSeq \in Nat
      BY DEF BaseInv, StreamTypeOK, Counter, Entry
    <2>2. QED BY <1>2, <2>1 DEF Broadcasts, Forwards, Stamps
  <1>4. e = f
    BY <1>3
  <1>5. QED BY <1>2, <1>3, <1>4 DEF BaseInv, StreamTypeOK, Counter, Entry

LEMMA MarkStep ==
  ASSUME BaseInv, ReplaysAlike, MarkInv, [HubNext]_vars
  PROVE  MarkInv'
  <1>1. Summary /\ TypeInv /\ TypeInv'
    BY HubSummary, BaseStep DEF BaseInv
  <1>2. SUFFICES ASSUME NEW k \in Clients, conns'[k].open
                 PROVE  /\ conns'[k].highWaterReplaySeq < counter'.nextSeq
                        /\ \A e \in issued' :
                             /\ e.seq > conns'[k].base
                             /\ LiveMatches(e, k)'
                             /\ AlreadyReplayed(conns'[k], e.seq)
                             => e.seq \in Range(conns'[k].frames)
    BY DEF MarkInv, AlreadyReplayed
  <1>3. /\ counter.nextSeq \in Nat /\ counter'.nextSeq \in Nat
        /\ counter.nextSeq <= counter'.nextSeq
    BY <1>1, <1>2, CounterGrows
  <1>4. CASE Kept(k)
    <2>1. conns[k].highWaterReplaySeq \in Int
      BY <1>1, <1>4, ConnFields DEF Kept
    <2>2. conns[k].highWaterReplaySeq < counter.nextSeq
      BY <1>4 DEF Kept, MarkInv
    <2>3. conns'[k].highWaterReplaySeq < counter'.nextSeq
      BY <1>3, <1>4, <2>1, <2>2 DEF Kept
    <2>4. ASSUME NEW e \in issued', e.seq > conns'[k].base, LiveMatches(e, k)',
                 AlreadyReplayed(conns'[k], e.seq)
          PROVE  e.seq \in Range(conns'[k].frames)
      <3>1. CASE e \in issued
        <4>1. LiveMatches(e, k)
          BY <1>4, <2>4, SameScope DEF Kept
        <4>2. e.seq > conns[k].base /\ AlreadyReplayed(conns[k], e.seq)
          BY <1>4, <2>4 DEF Kept, AlreadyReplayed
        <4>3. QED BY <1>4, <3>1, <4>1, <4>2 DEF Kept, MarkInv
      <3>2. CASE e \notin issued
        <4>1. e.seq \in Nat /\ e.seq >= counter.nextSeq
          BY <1>1, <1>2, <3>2, NewEvents
        <4>2. e.seq <= conns[k].highWaterReplaySeq
          BY <1>4, <2>4 DEF Kept, AlreadyReplayed
        <4>3. QED BY <1>3, <2>1, <2>2, <4>1, <4>2
      <3>3. QED BY <3>1, <3>2
    <2>5. QED BY <2>3, <2>4
  <1>5. ASSUME NEW i, Sends(i, k)
        PROVE  /\ conns'[k].highWaterReplaySeq < counter'.nextSeq
               /\ \A e \in issued' :
                    /\ e.seq > conns'[k].base
                    /\ LiveMatches(e, k)'
                    /\ AlreadyReplayed(conns'[k], e.seq)
                    => e.seq \in Range(conns'[k].frames)
    <2>1. /\ conns[k].open /\ conns'[k].scope = conns[k].scope /\ conns'[k].base = conns[k].base
          /\ conns'[k].highWaterReplaySeq = conns[k].highWaterReplaySeq
          /\ Range(conns[k].frames) \subseteq Range(conns'[k].frames)
      BY <1>5, SendFacts
    <2>2. counter' = counter /\ issued' = issued
      BY <1>5 DEF Sends, Work, Still
    <2>3. ASSUME NEW e \in issued', e.seq > conns'[k].base, LiveMatches(e, k)',
                 AlreadyReplayed(conns'[k], e.seq)
          PROVE  e.seq \in Range(conns'[k].frames)
      <3>1. LiveMatches(e, k)
        BY <2>1, <2>3, SameScope
      <3>2. e.seq > conns[k].base /\ AlreadyReplayed(conns[k], e.seq) /\ e \in issued
        BY <2>1, <2>2, <2>3 DEF AlreadyReplayed
      <3>3. QED BY <2>1, <3>1, <3>2 DEF MarkInv
    <2>4. QED BY <2>1, <2>2, <2>3 DEF MarkInv
  <1>6. ASSUME NEW scope, NEW gone, Connects(k, scope, gone)
        PROVE  /\ conns'[k].highWaterReplaySeq < counter'.nextSeq
               /\ \A e \in issued' :
                    /\ e.seq > conns'[k].base
                    /\ LiveMatches(e, k)'
                    /\ AlreadyReplayed(conns'[k], e.seq)
                    => e.seq \in Range(conns'[k].frames)
    <2> DEFINE c == conns'[k]
    <2>1. counter' = counter /\ issued' = issued
      BY <1>6 DEF Connects, Work, Still
    <2>2. /\ scope \in Scopes /\ cursor[k] \in Nat /\ c \in Conn
          /\ \/ \E from \in {-1, cursor[k]} : c = LiveConn(scope, from)
             \/ ring' \in Evict(ring) /\ c = ReplayConn(k, scope, cursor[k], ring')
      BY <1>6, ConnectFacts
    <2> HIDE DEF c
    <2>3. c.highWaterReplaySeq < counter.nextSeq
      <3>1. CASE \E from \in {-1, cursor[k]} : c = LiveConn(scope, from)
        <4>1. c.highWaterReplaySeq = -1
          BY <2>2, <3>1, LiveFacts
        <4>2. QED BY <1>3, <4>1
      <3>2. CASE ring' \in Evict(ring) /\ c = ReplayConn(k, scope, cursor[k], ring')
        <4>1. /\ c.highWaterReplaySeq >= 0 => c.highWaterReplaySeq \in Range(c.frames)
              /\ \A i \in DOMAIN c.frames : c.frames[i] < counter.nextSeq
          BY <2>2, <3>2, ReplayFacts
        <4>2. c.highWaterReplaySeq \in Nat \cup {-1}
          BY <2>2 DEF Conn
        <4>3. QED BY <1>3, <4>1, <4>2 DEF Range
      <3>3. QED BY <2>2, <3>1, <3>2
    <2>4. QED BY <1>6, <2>1, <2>3, NewConnComplete DEF c
  <1>7. QED BY <1>1, <1>2, <1>4, <1>5, <1>6, ConnCases

\* An active client that was active before the step, and is not new, keeps what
\* was on its way to it, unless the step is the visit that brings it.
LEMMA StillPending ==
  ASSUME BaseInv, Summary, NEW k \in Clients, k \in Range(subs'), NEW e, Pending(e, k),
         ~\E scope, gone : Connects(k, scope, gone)
  PROVE  \/ Pending(e, k)'
         \/ \E i \in DOMAIN running :
              /\ e = running[i].entry
              /\ \/ Sends(i, k)
                 \/ ~LiveMatches(e, k)
                 \/ AlreadyReplayed(conns[k], e.seq)
  <1>1. CASE Resets
    <2>1. DOMAIN subs' = {}
      BY <1>1 DEF Resets
    <2>2. QED BY <2>1 DEF Range
  <1>2. ASSUME e \in Range(chain), chain' = chain PROVE Pending(e, k)'
    BY <1>2 DEF Pending
  <1>3. ASSUME NEW f \in Entry, Broadcasts(f)
        PROVE  Pending(e, k)'
    <2>1. chain' = Append(chain, f) /\ running' = running
      BY <1>3 DEF Broadcasts
    <2>2. \A y : y \in Range(chain') <=> y \in Range(chain) \/ y = f
      BY <2>1, AppendFacts DEF BaseInv, TypeInv
    <2>3. QED BY <2>1, <2>2 DEF Pending
  <1>4. ASSUME NEW f \in Entry, Forwards(f)
        PROVE  Pending(e, k)'
    <2>1. StartPublish(f, "ipc") /\ chain' = chain
      BY <1>4 DEF Forwards
    <2>2. \A g, s : Owes(running, g, s) => Owes(running', g, s)
      BY <2>1, StartFacts DEF BaseInv
    <2>3. QED BY <1>2, <2>1, <2>2 DEF Pending, Owes
  <1>5. CASE Publishes
    <2>1. /\ chain # <<>> /\ StartPublish(Head(chain), "chain") /\ chain' = Tail(chain)
          /\ subs' = subs
      BY <1>5 DEF Publishes
    <2>2. chain \in Seq(Entry) /\ TypeInv
      BY DEF BaseInv, TypeInv
    <2>3. /\ Head(chain) \in Entry
          /\ \A x : x \in Range(chain) <=> x = Head(chain) \/ x \in Range(chain')
      BY <2>1, <2>2, TailFacts
    <2>4. /\ \A f, s : Owes(running, f, s) => Owes(running', f, s)
          /\ \A s \in Range(subs) : Owes(running', Head(chain), s)
      BY <2>1, <2>2, <2>3, StartFacts
    <2>5. QED BY <2>1, <2>3, <2>4 DEF Pending, Owes
  <1>6. ASSUME NEW at, NEW gone, NEW parks, Work(at, gone, parks), k \notin gone,
               Owes(running, e, k)
        PROVE  \/ Pending(e, k)'
               \/ at \in DOMAIN running /\ e = running[at].entry /\ k = Head(running[at].todo)
    <2>1. Moved(running, running', at, gone, parks)
      BY <1>6 DEF Work
    <2>2. \/ Owes(running', e, k)
          \/ at \in DOMAIN running /\ e = running[at].entry /\ k = Head(running[at].todo)
      BY <1>6, <2>1 DEF Moved
    <2>3. QED BY <2>2 DEF Pending, Owes
  <1>7. 0 \notin DOMAIN running
    BY DEF BaseInv, TypeInv
  <1>8. e \notin Range(chain) => Owes(running, e, k)
    BY DEF Pending, Owes
  <1>9. ASSUME NEW at, NEW gone, NEW parks, Passes(at, gone, parks)
        PROVE  \/ Pending(e, k)'
               \/ \E i \in DOMAIN running :
                    /\ e = running[i].entry
                    /\ ~LiveMatches(e, k) \/ AlreadyReplayed(conns[k], e.seq)
    <2>1. Work(at, gone, parks) /\ chain' = chain /\ k \notin gone
      BY <1>9 DEF Passes, Work
    <2>2. CASE at \in DOMAIN running /\ e = running[at].entry /\ k = Head(running[at].todo)
      BY <1>9, <2>1, <2>2 DEF Passes
    <2>3. CASE e \in Range(chain)
      BY <1>2, <2>3, <2>1
    <2>4. CASE e \notin Range(chain)
      <3>1. Owes(running, e, k)
        BY <1>8, <2>4
      <3>2. Pending(e, k)' \/ (at \in DOMAIN running /\ e = running[at].entry /\ k = Head(running[at].todo))
        BY <1>6, <3>1, <2>1
      <3>3. QED BY <3>2, <2>2
    <2>5. QED BY <2>3, <2>4
  <1>10. ASSUME NEW i, NEW j, Sends(i, j)
         PROVE  Pending(e, k)' \/ (Sends(i, k) /\ i \in DOMAIN running /\ e = running[i].entry)
    <2>1. /\ Work(i, {}, FALSE) /\ chain' = chain /\ k \notin {} /\ i \in DOMAIN running
          /\ j = Head(running[i].todo)
      BY <1>10 DEF Sends, Work
    <2>2. CASE e = running[i].entry /\ k = Head(running[i].todo)
      BY <1>10, <2>1, <2>2
    <2>3. CASE e \in Range(chain)
      BY <1>2, <2>3, <2>1
    <2>4. CASE e \notin Range(chain)
      <3>1. Owes(running, e, k)
        BY <1>8, <2>4
      <3>2. Pending(e, k)' \/ (e = running[i].entry /\ k = Head(running[i].todo))
        BY <1>6, <3>1, <2>1
      <3>3. QED BY <3>2, <2>2
    <2>5. QED BY <2>3, <2>4
  <1>11. ASSUME NEW j, NEW q, Queues(j, q)
         PROVE  Pending(e, k)'
    BY <1>11 DEF Queues, Pending
  <1>12. ASSUME NEW j, NEW scope, NEW gone, Connects(j, scope, gone)
         PROVE  Pending(e, k)'
    <2>1. j # k
      BY <1>12
    <2>2. Work(0, gone, FALSE) /\ chain' = chain /\ k \notin gone
      BY <1>12, <2>1 DEF Connects, Work
    <2>3. CASE e \in Range(chain)
      BY <1>2, <2>3, <2>2
    <2>4. CASE e \notin Range(chain)
      <3>1. Owes(running, e, k)
        BY <1>8, <2>4
      <3>2. Pending(e, k)' \/ (0 \in DOMAIN running)
        BY <1>6, <3>1, <2>2
      <3>3. QED BY <3>2, <1>7
    <2>5. QED BY <2>3, <2>4
  <1>13. ASSUME NEW j, Leaves(j)
         PROVE  Pending(e, k)'
    <2>1. Work(0, {j}, FALSE) /\ chain' = chain /\ k \notin {j}
      BY <1>13 DEF Leaves, Work
    <2>2. CASE e \in Range(chain)
      BY <1>2, <2>2, <2>1
    <2>3. CASE e \notin Range(chain)
      <3>1. Owes(running, e, k)
        BY <1>8, <2>3
      <3>2. Pending(e, k)' \/ (0 \in DOMAIN running)
        BY <1>6, <3>1, <2>1
      <3>3. QED BY <3>2, <1>7
    <2>4. QED BY <2>2, <2>3
  <1>14. QED BY <1>1, <1>3, <1>4, <1>5, <1>9, <1>10, <1>11, <1>12, <1>13 DEF Summary

\* Who is in the hub after a step, and not new, was in it.
LEMMA StayedIn ==
  ASSUME BaseInv, Summary, NEW k \in Clients, k \in Range(subs'),
         ~\E scope, gone : Connects(k, scope, gone)
  PROVE  k \in Range(subs)
  <1>1. CASE Resets
    <2>1. DOMAIN subs' = {}
      BY <1>1 DEF Resets
    <2>2. QED BY <2>1 DEF Range
  <1>2. CASE subs' = subs
    BY <1>2
  <1>3. CASE \E at, gone, parks : Passes(at, gone, parks)
    BY <1>3 DEF Passes
  <1>4. ASSUME NEW j, NEW scope, NEW gone, Connects(j, scope, gone)
        PROVE  k \in Range(subs)
    BY <1>4 DEF Connects
  <1>5. CASE \E j : Leaves(j)
    BY <1>5 DEF Leaves
  <1>6. QED BY <1>1, <1>2, <1>3, <1>4, <1>5
        DEF Summary, Broadcasts, Forwards, Stamps, Publishes, Sends, Queues

\* A stamped event is on its way to everybody in the hub.
LEMMA NewPending ==
  ASSUME BaseInv, NEW e \in Entry, Broadcasts(e) \/ Forwards(e), NEW k \in Range(subs)
  PROVE  Pending(e, k)'
  <1>1. CASE Broadcasts(e)
    <2>1. chain' = Append(chain, e)
      BY <1>1 DEF Broadcasts
    <2>2. e \in Range(chain')
      BY <2>1, AppendFacts DEF BaseInv, TypeInv
    <2>3. QED BY <2>2 DEF Pending
  <1>2. CASE Forwards(e)
    <2>1. StartPublish(e, "ipc")
      BY <1>2 DEF Forwards
    <2>2. Owes(running', e, k)
      BY <2>1, StartFacts DEF BaseInv
    <2>3. QED BY <2>2 DEF Pending, Owes
  <1>3. QED BY <1>1, <1>2

LEMMA LossStep ==
  ASSUME BaseInv, ReplaysAlike, LossInv, [HubNext]_vars
  PROVE  LossInv'
  <1>1. Summary /\ TypeInv /\ SubsInv' /\ StreamTypeOK'
    BY HubSummary, BaseStep DEF BaseInv
  <1>2. MarkInv'
    BY MarkStep DEF LossInv
  <1>3. SUFFICES ASSUME NEW k \in Clients, k \in Range(subs'), NEW e \in issued',
                        e.seq > conns'[k].base, LiveMatches(e, k)'
                 PROVE  e.seq \in Range(conns'[k].frames) \/ Pending(e, k)'
    BY <1>2 DEF LossInv, NoEventLost, Active
  <1>4. conns'[k].open /\ e \in Entry
    BY <1>1, <1>3 DEF SubsInv, Active, StreamTypeOK
  <1>5. CASE \E scope, gone : Connects(k, scope, gone)
    <2>1. PICK scope, gone : Connects(k, scope, gone)
      BY <1>5
    <2>2. issued' = issued
      BY <2>1 DEF Connects, Work, Still
    <2>3. QED BY <1>3, <2>1, <2>2, NewConnComplete
  <1>6. CASE ~\E scope, gone : Connects(k, scope, gone)
    <2>1. k \in Range(subs)
      BY <1>1, <1>3, <1>6, StayedIn
    <2>2. CASE e \notin issued
      <3>1. Broadcasts(e) \/ Forwards(e)
        BY <1>1, <1>3, <1>4, <2>2, NewEvents
      <3>2. QED BY <1>4, <2>1, <3>1, NewPending
    <2>3. CASE e \in issued
      <3>1. /\ conns[k].open /\ conns'[k].scope = conns[k].scope
            /\ conns'[k].base = conns[k].base
            /\ Range(conns[k].frames) \subseteq Range(conns'[k].frames)
        <4>1. CASE Kept(k)
          BY <4>1 DEF Kept
        <4>2. CASE \E i : Sends(i, k)
          BY <4>2, SendFacts
        <4>3. QED BY <1>1, <1>4, <1>6, <4>1, <4>2, ConnCases
      <3>2. LiveMatches(e, k) /\ e.seq > conns[k].base
        BY <1>3, <3>1, SameScope
      <3>3. e.seq \in Range(conns[k].frames) \/ Pending(e, k)
        BY <2>1, <2>3, <3>2 DEF LossInv, NoEventLost, Active
      <3>4. CASE e.seq \in Range(conns[k].frames)
        BY <3>1, <3>4
      <3>5. CASE Pending(e, k)
        <4>1. CASE Pending(e, k)'
          BY <4>1
        <4>2. ASSUME NEW i \in DOMAIN running, e = running[i].entry, Sends(i, k)
              PROVE  e.seq \in Range(conns'[k].frames)
          <5>1. Range(conns'[k].frames) = Range(conns[k].frames) \cup {running[i].entry.seq}
            BY <4>2, SendFacts
          <5>2. QED BY <4>2, <5>1
        <4>3. CASE AlreadyReplayed(conns[k], e.seq)
          BY <2>3, <3>1, <3>2, <4>3 DEF LossInv, MarkInv
        <4>4. QED BY <1>1, <1>3, <1>6, <3>1, <3>2, <3>5, <4>1, <4>2, <4>3, StillPending
      <3>6. QED BY <3>3, <3>4, <3>5
    <2>4. QED BY <2>2, <2>3
  <1>7. QED BY <1>5, <1>6

\* Where replay and live fanout agree on whom an event is for, every event a
\* connected client is owed is enqueued or still on its way to it: none falls
\* between the replay window and the live callback, or is dropped by the replay
\* mark, however slow the plugins are and whatever else publishes meanwhile.
THEOREM NothingOwedIsLost == ReplaysAlike => (HubSpec => []NoEventLost)
  <1> SUFFICES ASSUME ReplaysAlike PROVE HubSpec => []NoEventLost
    OBVIOUS
  <1>1. HubInit => LossInv
    <2> SUFFICES ASSUME HubInit PROVE LossInv
      OBVIOUS
    <2>1. DOMAIN subs = {} /\ \A k \in Clients : ~conns[k].open
      BY DEF HubInit, NoConn
    <2>2. QED BY <2>1 DEF LossInv, MarkInv, NoEventLost, Active, Range
  <1>2. BaseInv /\ LossInv /\ [HubNext]_vars => LossInv'
    BY LossStep
  <1>3. LossInv => NoEventLost
    BY DEF LossInv
  <1>4. QED BY <1>1, <1>2, <1>3, BaseHolds, PTL DEF HubSpec

----------------------------------------------------------------------------
(* What is on its way to a client, seen from after the step.                *)

LEMMA OwedBefore ==
  ASSUME NEW at, NEW gone, NEW parks, Work(at, gone, parks), NEW e, NEW s, Owes(running', e, s)
  PROVE  Owes(running, e, s) /\ s \notin gone
  <1>1. PICK n \in DOMAIN running' : running'[n].entry = e /\ s \in Range(running'[n].todo)
    BY DEF Owes
  <1>2. PICK i \in DOMAIN running :
          /\ running'[n].entry = running[i].entry
          /\ \A x \in Range(running'[n].todo) : x \in Range(running[i].todo) /\ x \notin gone
    BY DEF Work, Moved
  <1>3. QED BY <1>1, <1>2 DEF Owes

\* To a client that is not new, only a stamped event is newly on its way.
LEMMA PendingBefore ==
  ASSUME BaseInv, Summary, NEW k \in Clients, k \in Range(subs'), NEW e, Pending(e, k)',
         ~\E scope, gone : Connects(k, scope, gone)
  PROVE  Pending(e, k) \/ (e \in Entry /\ (Broadcasts(e) \/ Forwards(e)))
  <1>0. TypeInv /\ k \in Range(subs)
    BY StayedIn DEF BaseInv
  <1>1. CASE Resets
    <2>1. DOMAIN subs' = {}
      BY <1>1 DEF Resets
    <2>2. QED BY <2>1 DEF Range
  <1>2. e \in Range(chain') \/ Owes(running', e, k)
    BY DEF Pending, Owes
  <1>3. ASSUME e \in Range(chain) \/ Owes(running, e, k) PROVE Pending(e, k)
    BY <1>3 DEF Pending, Owes
  <1>4. ASSUME NEW f \in Entry, Broadcasts(f)
        PROVE  Pending(e, k) \/ e = f
    <2>1. chain' = Append(chain, f) /\ running' = running
      BY <1>4 DEF Broadcasts
    <2>2. \A y : y \in Range(chain') <=> y \in Range(chain) \/ y = f
      BY <1>0, <2>1, AppendFacts DEF TypeInv
    <2>3. QED BY <1>2, <1>3, <2>1, <2>2
  <1>5. ASSUME NEW f \in Entry, NEW lane \in {"chain", "ipc"}, StartPublish(f, lane),
               Owes(running', e, k)
        PROVE  Pending(e, k) \/ e = f
    <2>1. PICK n \in DOMAIN running' : running'[n].entry = e /\ k \in Range(running'[n].todo)
      BY <1>5 DEF Owes
    <2>2. running'[n].entry = f \/ \E i \in DOMAIN running : running'[n] = running[i]
      BY <1>0, <1>5, StartFacts
    <2>3. QED BY <1>3, <2>1, <2>2 DEF Owes
  <1>6. ASSUME NEW f \in Entry, Forwards(f)
        PROVE  Pending(e, k) \/ e = f
    BY <1>2, <1>3, <1>5, <1>6 DEF Forwards
  <1>7. CASE Publishes
    <2>1. /\ chain # <<>> /\ StartPublish(Head(chain), "chain") /\ chain' = Tail(chain)
      BY <1>7 DEF Publishes
    <2>2. chain \in Seq(Entry)
      BY <1>0 DEF TypeInv
    <2>3. /\ Head(chain) \in Entry
          /\ \A x : x \in Range(chain) <=> x = Head(chain) \/ x \in Range(chain')
      BY <2>1, <2>2, TailFacts
    <2>4. QED BY <1>2, <1>3, <1>5, <2>1, <2>3
  <1>8. ASSUME NEW at, NEW gone, NEW parks, Work(at, gone, parks)
        PROVE  Pending(e, k)
    <2>1. chain' = chain
      BY <1>8 DEF Work
    <2>2. QED BY <1>2, <1>3, <1>8, <2>1, OwedBefore
  <1>9. CASE \E j, q : Queues(j, q)
    BY <1>2, <1>3, <1>9 DEF Queues
  <1>10. QED BY <1>1, <1>4, <1>6, <1>7, <1>8, <1>9
         DEF Summary, Passes, Sends, Connects, Leaves

\* A new connection was in no snapshot: only what waits on the chain will come.
LEMMA PendingOnConnect ==
  ASSUME BaseInv, NEW k, NEW scope, NEW gone, Connects(k, scope, gone), NEW e, Pending(e, k)'
  PROVE  e \in Range(chain)
  <1>1. Work(0, gone, FALSE) /\ k \in gone /\ chain' = chain
    BY DEF Connects, Work
  <1>2. ~Owes(running', e, k)
    BY <1>1, OwedBefore
  <1>3. QED BY <1>1, <1>2 DEF Pending, Owes

\* A pending event is one of this process.
LEMMA PendingIssued ==
  ASSUME BaseInv, NEW k, NEW e, Pending(e, k)
  PROVE  e \in issued /\ e \in Entry /\ e.seq \in Nat /\ e.seq < counter.nextSeq
  <1>1. e \in issued
    BY DEF Pending, BaseInv, RunInv, StampInv
  <1>2. QED BY <1>1 DEF BaseInv, StreamTypeOK, ReplayInv, Entry

----------------------------------------------------------------------------
(* A connection carries the events in order.                                *)

LEMMA LaneStep ==
  ASSUME BaseInv, LaneInv, Summary, ~Forwarding
  PROVE  LaneInv'
  <1>0. /\ TypeInv /\ running \in Seq(Publish) /\ chain \in Seq(Entry)
        /\ Len(running) \in Nat /\ Len(running) <= 1
    BY DEF BaseInv, TypeInv, LaneInv
  <1>1. CASE Resets
    <2>1. running' = <<>> /\ chain' = <<>>
      BY <1>1 DEF Resets
    <2>2. DOMAIN running' = {} /\ DOMAIN chain' = {} /\ Len(running') = 0
      BY <2>1
    <2>3. QED BY <2>2 DEF LaneInv
  <1>2. ASSUME NEW e \in Entry, Broadcasts(e)
        PROVE  LaneInv'
    <2>1. chain' = Append(chain, e) /\ running' = running /\ counter.nextSeq <= e.seq
      BY <1>2 DEF Broadcasts, Stamps
    <2>2. /\ DOMAIN chain = 1..Len(chain) /\ Len(chain) \in Nat
          /\ DOMAIN chain' = 1..(Len(chain) + 1)
          /\ \A i \in DOMAIN chain : chain'[i] = chain[i]
          /\ chain'[Len(chain) + 1] = e
          /\ \A y : y \in Range(chain') <=> y \in Range(chain) \/ y = e
      BY <1>0, <2>1, AppendFacts
    <2>3. counter.nextSeq \in Nat /\ e.seq \in Nat
      BY DEF BaseInv, StreamTypeOK, Counter, Entry
    <2>4. \A f \in issued : f.seq < e.seq
      <3>1. \A f \in issued : f.seq \in Nat /\ f.seq < counter.nextSeq
        BY DEF BaseInv, StreamTypeOK, ReplayInv, Entry
      <3>2. QED BY <2>1, <2>3, <3>1
    <2>5. \A i \in DOMAIN chain : chain[i].seq < e.seq
      <3>1. \A i \in DOMAIN chain : chain[i] \in issued
        BY DEF BaseInv, StampInv, Range
      <3>2. QED BY <2>4, <3>1
    <2>6. \A i, j \in DOMAIN chain' : i < j => chain'[i].seq < chain'[j].seq
      <3> SUFFICES ASSUME NEW i \in DOMAIN chain', NEW j \in DOMAIN chain', i < j
                   PROVE  chain'[i].seq < chain'[j].seq
        OBVIOUS
      <3>1. i \in DOMAIN chain /\ (j \in DOMAIN chain \/ j = Len(chain) + 1)
        BY <2>2
      <3>2. CASE j \in DOMAIN chain
        BY <2>2, <3>1, <3>2 DEF LaneInv
      <3>3. CASE j = Len(chain) + 1
        <4>1. chain'[j] = e /\ chain'[i] = chain[i]
          BY <2>2, <3>1, <3>3
        <4>2. QED BY <2>5, <3>1, <4>1
      <3>4. QED BY <3>1, <3>2, <3>3
    <2>7. \A f \in Range(chain'), i \in DOMAIN running' : running'[i].entry.seq < f.seq
      <3>1. \A i \in DOMAIN running : running[i].entry \in issued
        BY DEF BaseInv, RunInv
      <3>2. QED BY <2>1, <2>2, <2>4, <3>1 DEF LaneInv
    <2>8. QED BY <2>1, <2>6, <2>7 DEF LaneInv
  <1>3. ASSUME NEW e \in Entry, Forwards(e)
        PROVE  FALSE
    BY <1>3 DEF Forwards
  <1>4. CASE Publishes
    <2> DEFINE e == Head(chain)
    <2>1. /\ chain # <<>> /\ StartPublish(e, "chain") /\ chain' = Tail(chain)
          /\ \A i \in DOMAIN running : running[i].lane # "chain"
      BY <1>4 DEF Publishes
    <2>2. DOMAIN running = {} /\ Len(running) = 0
      <3>1. DOMAIN running = {}
        BY <2>1 DEF LaneInv
      <3>2. DOMAIN running = 1..Len(running)
        BY <1>0
      <3>3. QED BY <1>0, <3>1, <3>2
    <2>3. e \in Entry
      BY <1>0, <2>1, TailFacts
    <2> HIDE DEF e
    <2>4. /\ running' \in Seq(Publish) /\ Len(running') <= Len(running) + 1
          /\ \A n \in DOMAIN running' : running'[n].entry = e /\ running'[n].lane = "chain"
      BY <1>0, <2>1, <2>2, <2>3, StartFacts
    <2>5. /\ DOMAIN chain' = 1..(Len(chain) - 1) /\ DOMAIN chain = 1..Len(chain)
          /\ Len(chain) \in Nat \ {0} /\ e = chain[1]
          /\ \A i \in 1..(Len(chain) - 1) : chain'[i] = chain[i + 1]
      BY <1>0, <2>1 DEF e
    <2>6. \A i \in DOMAIN chain' : i + 1 \in DOMAIN chain /\ i + 1 > 1 /\ 1 \in DOMAIN chain
      BY <2>5
    <2>7. \A i, j \in DOMAIN chain' : i < j => chain'[i].seq < chain'[j].seq
      <3> SUFFICES ASSUME NEW i \in DOMAIN chain', NEW j \in DOMAIN chain', i < j
                   PROVE  chain'[i].seq < chain'[j].seq
        OBVIOUS
      <3>1. i + 1 < j + 1 /\ chain'[i] = chain[i + 1] /\ chain'[j] = chain[j + 1]
        BY <2>5
      <3>2. QED BY <2>6, <3>1 DEF LaneInv
    <2>8. \A f \in Range(chain') : e.seq < f.seq
      <3> SUFFICES ASSUME NEW f \in Range(chain') PROVE e.seq < f.seq
        OBVIOUS
      <3>1. PICK i \in DOMAIN chain' : chain'[i] = f
        BY DEF Range
      <3>2. f = chain[i + 1] /\ i + 1 \in DOMAIN chain /\ i + 1 > 1 /\ 1 \in DOMAIN chain
        BY <2>5, <2>6, <3>1
      <3>3. QED BY <2>5, <3>2 DEF LaneInv
    <2>9. Len(running') <= 1
      BY <2>2, <2>4
    <2>10. QED BY <2>4, <2>7, <2>8, <2>9 DEF LaneInv
  <1>5. ASSUME NEW at, NEW gone, NEW parks, Work(at, gone, parks)
        PROVE  LaneInv'
    <2>1. /\ chain' = chain /\ running' \in Seq(Publish) /\ Len(running') <= Len(running)
          /\ \A n \in DOMAIN running' : \E i \in DOMAIN running :
               running'[n].entry = running[i].entry /\ running'[n].lane = running[i].lane
      BY <1>5 DEF Work, Moved
    <2>2. Len(running') <= 1
      BY <1>0, <2>1
    <2>3. QED BY <2>1, <2>2 DEF LaneInv
  <1>6. CASE \E j, q : Queues(j, q)
    BY <1>6 DEF Queues, LaneInv
  <1>7. QED BY <1>1, <1>2, <1>3, <1>4, <1>5, <1>6
        DEF Summary, Passes, Sends, Connects, Leaves

\* The frames of a connection after the step: increasing, and below the counter.
LEMMA FramesStep ==
  ASSUME BaseInv, OrderInv, Summary, NEW k \in Clients, conns'[k].open
  PROVE  /\ \A i, j \in DOMAIN conns'[k].frames :
              i < j => conns'[k].frames[i] < conns'[k].frames[j]
         /\ \A i \in DOMAIN conns'[k].frames : conns'[k].frames[i] < counter'.nextSeq
  <1>1. /\ counter.nextSeq \in Nat /\ counter'.nextSeq \in Nat
        /\ counter.nextSeq <= counter'.nextSeq /\ TypeInv
    BY CounterGrows DEF BaseInv
  <1>2. ASSUME conns[k].open
        PROVE  /\ conns[k].frames \in Seq(Nat)
               /\ \A i, j \in DOMAIN conns[k].frames :
                    i < j => conns[k].frames[i] < conns[k].frames[j]
               /\ \A i \in DOMAIN conns[k].frames : /\ conns[k].frames[i] \in Nat
                                                    /\ conns[k].frames[i] < counter'.nextSeq
    <2>1. conns[k].frames \in Seq(Nat)
      BY <1>1, <1>2, ConnFields
    <2>2. \A i \in DOMAIN conns[k].frames :
            conns[k].frames[i] \in Nat /\ conns[k].frames[i] < counter.nextSeq
      BY <1>2, <2>1 DEF OrderInv
    <2>3. \A i \in DOMAIN conns[k].frames : conns[k].frames[i] < counter'.nextSeq
      BY <1>1, <2>2
    <2>4. QED BY <1>2, <2>1, <2>2, <2>3 DEF OrderInv, FramesInOrder
  <1>3. CASE Kept(k)
    BY <1>2, <1>3 DEF Kept
  <1>4. ASSUME NEW n, Sends(n, k)
        PROVE  /\ \A i, j \in DOMAIN conns'[k].frames :
                    i < j => conns'[k].frames[i] < conns'[k].frames[j]
               /\ \A i \in DOMAIN conns'[k].frames : conns'[k].frames[i] < counter'.nextSeq
    <2> DEFINE x == running[n].entry.seq
               old == conns[k].frames
               new == conns'[k].frames
    <2>1. /\ conns[k].open /\ n \in DOMAIN running /\ x \in Nat /\ k \in Range(running[n].todo)
          /\ k \in Range(subs) /\ running[n].entry \in issued /\ new = Append(old, x)
      BY <1>4, SendFacts
    <2>2. old \in Seq(Nat) /\ \A i, j \in DOMAIN old : i < j => old[i] < old[j]
      BY <1>2, <2>1
    <2>3. \A i \in DOMAIN old : old[i] < x
      <3>1. Pending(running[n].entry, k) /\ running[n].entry \in Entry
        BY <2>1 DEF Pending, BaseInv, StreamTypeOK
      <3>2. After(running[n].entry, k)
        BY <2>1, <3>1 DEF OrderInv, Active
      <3>3. ~AlreadyReplayed(conns[k], x)
        BY <1>4 DEF Sends
      <3>4. QED BY <3>2, <3>3 DEF After
    <2>4. /\ DOMAIN old = 1..Len(old) /\ Len(old) \in Nat /\ DOMAIN new = 1..(Len(old) + 1)
          /\ \A i \in DOMAIN old : new[i] = old[i]
          /\ new[Len(old) + 1] = x
      BY <2>1, <2>2, AppendFacts
    <2>5. x < counter'.nextSeq
      <3>1. x < counter.nextSeq
        BY <2>1 DEF BaseInv, ReplayInv
      <3>2. QED BY <1>1, <2>1, <3>1
    <2> HIDE DEF x, old, new
    <2>6. ASSUME NEW i \in DOMAIN new, NEW j \in DOMAIN new, i < j
          PROVE  new[i] < new[j]
      <3>1. i \in DOMAIN old /\ (j \in DOMAIN old \/ j = Len(old) + 1)
        BY <2>4, <2>6
      <3>2. CASE j \in DOMAIN old
        BY <2>2, <2>4, <2>6, <3>1, <3>2
      <3>3. CASE j = Len(old) + 1
        BY <2>3, <2>4, <3>1, <3>3
      <3>4. QED BY <3>1, <3>2, <3>3
    <2>7. ASSUME NEW i \in DOMAIN new
          PROVE  new[i] < counter'.nextSeq
      <3>1. i \in DOMAIN old \/ i = Len(old) + 1
        BY <2>4
      <3>2. CASE i \in DOMAIN old
        BY <1>2, <2>1, <2>4, <3>2 DEF old
      <3>3. CASE i = Len(old) + 1
        BY <2>4, <2>5, <3>3
      <3>4. QED BY <3>1, <3>2, <3>3
    <2>8. QED BY <2>6, <2>7 DEF new
  <1>5. ASSUME NEW scope, NEW gone, Connects(k, scope, gone)
        PROVE  /\ \A i, j \in DOMAIN conns'[k].frames :
                    i < j => conns'[k].frames[i] < conns'[k].frames[j]
               /\ \A i \in DOMAIN conns'[k].frames : conns'[k].frames[i] < counter'.nextSeq
    <2> DEFINE c == conns'[k]
    <2>1. /\ scope \in Scopes /\ cursor[k] \in Nat
          /\ \/ \E from \in {-1, cursor[k]} : c = LiveConn(scope, from)
             \/ ring' \in Evict(ring) /\ c = ReplayConn(k, scope, cursor[k], ring')
      BY <1>5, ConnectFacts
    <2>2. counter' = counter
      BY <1>5 DEF Connects, Work, Still
    <2> HIDE DEF c
    <2>3. CASE \E from \in {-1, cursor[k]} : c = LiveConn(scope, from)
      <3>1. DOMAIN c.frames = {}
        BY <2>1, <2>3, LiveFacts
      <3>2. QED BY <3>1 DEF c
    <2>4. CASE ring' \in Evict(ring) /\ c = ReplayConn(k, scope, cursor[k], ring')
      <3>1. /\ \A i, j \in DOMAIN c.frames : i < j => c.frames[i] < c.frames[j]
            /\ \A i \in DOMAIN c.frames : c.frames[i] < counter.nextSeq
        BY <2>1, <2>4, ReplayFacts
      <3>2. QED BY <2>2, <3>1 DEF c
    <2>5. QED BY <2>1, <2>3, <2>4
  <1>6. QED BY <1>3, <1>4, <1>5, ConnCases

\* After a connection begins, the chain holds only what its replay covers or
\* what comes after its frames.
LEMMA AfterConnect ==
  ASSUME BaseInv, NEW k \in Clients, NEW scope, NEW gone, Connects(k, scope, gone),
         NEW e, e.seq \in Nat
  PROVE  After(e, k)'
  <1> DEFINE c == conns'[k]
  <1>1. /\ scope \in Scopes /\ cursor[k] \in Nat /\ c \in Conn
        /\ \/ \E from \in {-1, cursor[k]} : c = LiveConn(scope, from)
           \/ ring' \in Evict(ring) /\ c = ReplayConn(k, scope, cursor[k], ring')
    BY ConnectFacts
  <1> HIDE DEF c
  <1>2. CASE \E from \in {-1, cursor[k]} : c = LiveConn(scope, from)
    <2>1. DOMAIN c.frames = {}
      BY <1>1, <1>2, LiveFacts
    <2>2. QED BY <2>1 DEF After, c
  <1>3. CASE ring' \in Evict(ring) /\ c = ReplayConn(k, scope, cursor[k], ring')
    <2>1. \A i \in DOMAIN c.frames : c.frames[i] <= c.highWaterReplaySeq
      BY <1>1, <1>3, ReplayFacts
    <2>2. c.highWaterReplaySeq \in Int /\ c.frames \in Seq(Nat)
      BY <1>1 DEF Conn
    <2>3. \A i \in DOMAIN c.frames : c.frames[i] \in Nat
      BY <2>2
    <2>4. \/ c.highWaterReplaySeq >= 0 /\ e.seq <= c.highWaterReplaySeq
          \/ \A i \in DOMAIN c.frames : c.frames[i] < e.seq
      BY <2>1, <2>2, <2>3
    <2>5. QED BY <2>4 DEF After, AlreadyReplayed, c
  <1>4. QED BY <1>1, <1>2, <1>3

\* The subscriber just sent to is ahead of no publish: there is only one.
LEMMA SentIsDone ==
  ASSUME BaseInv, LaneInv, NEW i, NEW k, Sends(i, k), NEW e
  PROVE  ~Owes(running', e, k)
  <1> SUFFICES ASSUME Owes(running', e, k) PROVE FALSE
    OBVIOUS
  <1>1. i \in DOMAIN running /\ k = Head(running[i].todo)
        /\ Moved(running, running', i, {}, FALSE)
    BY DEF Sends, Work
  <1>2. PICK n \in DOMAIN running' : k \in Range(running'[n].todo)
    BY DEF Owes
  <1>3. PICK j \in DOMAIN running :
          j = i /\ Distinct(running[j].todo) => Head(running[j].todo) \notin Range(running'[n].todo)
    BY <1>1 DEF Moved
  <1>4. j = i
    <2>1. Len(running) \in Nat /\ DOMAIN running = 1..Len(running) /\ Len(running) <= 1
      BY DEF BaseInv, TypeInv, LaneInv
    <2>2. QED BY <1>1, <1>3, <2>1
  <1>5. Distinct(running[i].todo)
    BY <1>1 DEF BaseInv, RunInv
  <1>6. QED BY <1>1, <1>2, <1>3, <1>4, <1>5

LEMMA OrderStep ==
  ASSUME BaseInv, OrderInv, [HubNext]_vars, ~Forwarding
  PROVE  OrderInv'
  <1>1. Summary /\ BaseInv' /\ TypeInv /\ LaneInv
    BY HubSummary, BaseStep DEF BaseInv, OrderInv
  <1>2. LaneInv'
    BY <1>1, LaneStep
  <1>3. FramesInOrder' /\ \A k \in Clients : conns'[k].open =>
          \A i \in DOMAIN conns'[k].frames : conns'[k].frames[i] < counter'.nextSeq
    BY <1>1, FramesStep DEF FramesInOrder
  <1>4. ASSUME NEW k \in Clients, k \in Range(subs'), NEW e \in Entry, Pending(e, k)'
        PROVE  After(e, k)'
    <2>1. conns'[k].open /\ e.seq \in Nat
      BY <1>1, <1>4 DEF BaseInv, SubsInv, Active, Entry
    <2>2. CASE \E scope, gone : Connects(k, scope, gone)
      BY <2>1, <2>2, AfterConnect
    <2>3. CASE ~\E scope, gone : Connects(k, scope, gone)
      <3>1. k \in Range(subs) /\ (Pending(e, k) \/ Broadcasts(e) \/ Forwards(e))
        BY <1>1, <1>4, <2>3, StayedIn, PendingBefore
      <3>2. CASE Broadcasts(e) \/ Forwards(e)
        <4>1. conns' = conns /\ counter.nextSeq <= e.seq
          BY <3>2 DEF Broadcasts, Forwards, Stamps
        <4>2. conns[k].frames \in Seq(Nat) /\ counter.nextSeq \in Nat
          BY <1>1, <2>1, <4>1, ConnFields DEF BaseInv, StreamTypeOK, Counter
        <4>3. \A i \in DOMAIN conns[k].frames :
                conns[k].frames[i] \in Nat /\ conns[k].frames[i] < counter.nextSeq
          BY <2>1, <4>1, <4>2 DEF OrderInv
        <4>4. \A i \in DOMAIN conns'[k].frames : conns'[k].frames[i] < e.seq
          BY <2>1, <4>1, <4>2, <4>3
        <4>5. QED BY <4>4 DEF After
      <3>3. CASE Pending(e, k)
        <4>1. After(e, k)
          BY <3>1, <3>3 DEF OrderInv, Active
        <4>2. CASE Kept(k)
          BY <4>1, <4>2 DEF After, AlreadyReplayed, Kept
        <4>3. ASSUME NEW i, Sends(i, k) PROVE After(e, k)'
          <5> DEFINE x == running[i].entry.seq
                     old == conns[k].frames
                     new == conns'[k].frames
          <5>1. /\ i \in DOMAIN running /\ x \in Nat /\ old \in Seq(Nat) /\ new = Append(old, x)
                /\ conns'[k].highWaterReplaySeq = conns[k].highWaterReplaySeq
            BY <4>3, SendFacts
          <5>2. chain' = chain
            BY <4>3 DEF Sends, Work
          <5>3. e \in Range(chain)
            BY <1>1, <1>4, <4>3, <5>2, SentIsDone DEF Pending, Owes
          <5>4. x < e.seq
            BY <1>1, <5>1, <5>3 DEF LaneInv
          <5>5. CASE AlreadyReplayed(conns[k], e.seq)
            BY <5>1, <5>5 DEF After, AlreadyReplayed
          <5>6. CASE \A n \in DOMAIN old : old[n] < e.seq
            <6>1. \A n \in DOMAIN new : new[n] < e.seq
              <7> HIDE DEF x, old, new
              <7>1. /\ DOMAIN old = 1..Len(old) /\ Len(old) \in Nat
                    /\ DOMAIN new = 1..(Len(old) + 1)
                    /\ \A n \in DOMAIN old : new[n] = old[n]
                    /\ new[Len(old) + 1] = x
                BY <5>1, AppendFacts
              <7>2. \A n \in DOMAIN new : n \in DOMAIN old \/ n = Len(old) + 1
                BY <7>1
              <7>3. QED BY <5>4, <5>6, <7>1, <7>2
            <6>2. QED BY <6>1 DEF After
          <5>7. QED BY <4>1, <5>5, <5>6 DEF After
        <4>4. QED BY <1>1, <2>1, <2>3, <4>2, <4>3, ConnCases
      <3>4. QED BY <3>1, <3>2, <3>3
    <2>4. QED BY <2>2, <2>3
  <1>5. QED BY <1>2, <1>3, <1>4 DEF OrderInv, Active

\* While no worker process forwards events, every connection carries the events
\* in strictly increasing seq order, so none twice: the chain of
\* broadcastMessage and the replay's high-water mark see to it, however many
\* clients connect, reconnect and are shed and however slow the plugins are.
THEOREM ConnectionsCarryEventsInOrder == ~Forwarding => (HubSpec => []FramesInOrder)
  <1> SUFFICES ASSUME ~Forwarding PROVE HubSpec => []FramesInOrder
    OBVIOUS
  <1>1. HubInit => OrderInv
    <2> SUFFICES ASSUME HubInit PROVE OrderInv
      OBVIOUS
    <2>1. /\ running = <<>> /\ chain = <<>> /\ subs = <<>>
          /\ \A k \in Clients : ~conns[k].open
      BY DEF HubInit, NoConn
    <2>2. DOMAIN running = {} /\ DOMAIN chain = {} /\ DOMAIN subs = {} /\ Len(running) = 0
      BY <2>1
    <2>3. Range(subs) = {} /\ Range(chain) = {}
      BY <2>2 DEF Range
    <2>4. LaneInv
      BY <2>2, <2>3 DEF LaneInv
    <2>5. QED BY <2>1, <2>3, <2>4 DEF OrderInv, FramesInOrder, Active
  <1>2. BaseInv /\ OrderInv /\ [HubNext]_vars => OrderInv'
    BY OrderStep
  <1>3. OrderInv => FramesInOrder
    BY DEF OrderInv
  <1>4. QED BY <1>1, <1>2, <1>3, BaseHolds, PTL DEF HubSpec

----------------------------------------------------------------------------
(* Nothing at or below the presented cursor.                                *)

\* A serving daemon has loaded its reservation: the hub's boot runs the floor.
LEMMA LoadedStep ==
  ASSUME BaseInv, proc = "serving" => counter.seqReservationLoaded, [HubNext]_vars,
         ReservationInv', proc' = "serving"
  PROVE  counter'.seqReservationLoaded
  <1>1. CASE UNCHANGED <<proc, counter>>
    BY <1>1
  <1>2. CASE DaemonBoot
    <2>1. FloorSeqAbove
      BY <1>2 DEF DaemonBoot, StartProcess
    <2>2. PICK r1 \in ReadReservedCeiling, r2 \in ReadReservedCeiling,
               written \in WriteSucceeds, highest \in Nat,
               loaded \in Counter, raised \in Counter, reserved \in Counter :
            /\ loaded = LoadSeqReservation(counter, r1)
            /\ raised = RaiseAbove(loaded, highest)
            /\ reserved = ReserveSeqCapacity(raised, r2)
            /\ counter' = loaded \/ counter' = reserved
      BY <2>1, FloorSteps DEF BaseInv
    <2>3. r1 \in Nat /\ r2 \in Nat /\ counter \in Counter
      BY ReadsAreNat DEF BaseInv, StreamTypeOK
    <2>4. loaded.seqReservationLoaded
      BY <2>2, <2>3, LoadFacts
    <2>5. raised.seqReservationLoaded
      BY <2>2, <2>4, RaiseFacts
    <2>6. reserved.seqReservationLoaded
      BY <2>2, <2>3, <2>5, ReserveFacts
    <2>7. QED BY <2>2, <2>4, <2>6
  <1>3. CASE DaemonCrash
    BY <1>3 DEF DaemonCrash, Crash
  <1>4. ASSUME NEW conv \in Conversations, NEW t \in Targetings,
               BroadcastMessage(conv, t) \/ HandleEventsPublish(conv, t)
        PROVE  counter'.seqReservationLoaded
    <2>1. \E e : e \in issued'
      BY <1>4, Zenon DEF BroadcastMessage, HandleEventsPublish, StampAndBuffer
    <2>2. QED BY <2>1 DEF ReservationInv
  <1>5. CASE PublishStep \/ \E i \in DOMAIN running : CallbackSettles(i)
    BY <1>1, <1>5 DEF PublishStep, ChainPublish, Deliver, CallbackSettles, streamVars
  <1>6. CASE \E p \in Plugins : PluginSubscribe(p)
    BY <1>1, <1>6 DEF PluginSubscribe, streamVars
  <1>7. CASE \E k \in Clients :
               \/ \E scope \in Scopes : SubscribeAssistantEvents(k, scope)
               \/ HeartbeatTimer(k) \/ ClientReads(k) \/ AbortConnection(k) \/ DisposeClient(k)
    BY <1>1, <1>7 DEF SubscribeAssistantEvents, HeartbeatTimer, ClientReads, AbortConnection,
                      DisposeClient, streamVars
  <1>8. CASE UNCHANGED vars
    BY <1>1, <1>8 DEF vars, streamVars
  <1>9. QED BY <1>2, <1>3, <1>4, <1>5, <1>6, <1>7, <1>8 DEF HubNext

LEMMA UnparkedStep ==
  ASSUME BaseInv, Summary, Plugins = {}, \A i \in DOMAIN running : ~running[i].parked
  PROVE  \A n \in DOMAIN running' : ~running'[n].parked
  <1>1. CASE Resets
    <2>1. DOMAIN running' = {}
      BY <1>1 DEF Resets
    <2>2. QED BY <2>1
  <1>2. ASSUME NEW e \in Entry, NEW lane \in {"chain", "ipc"}, StartPublish(e, lane)
        PROVE  \A n \in DOMAIN running' : ~running'[n].parked
    <2>1. \A n \in DOMAIN running' :
            ~running'[n].parked \/ \E i \in DOMAIN running : running'[n] = running[i]
      BY <1>2, StartFacts DEF BaseInv
    <2>2. QED BY <2>1
  <1>3. CASE \E e \in Entry : Broadcasts(e) \/ Forwards(e)
    BY <1>2, <1>3 DEF Broadcasts, Forwards
  <1>4. CASE Publishes
    <2>1. Head(chain) \in Entry
      BY <1>4, TailFacts DEF Publishes, BaseInv, TypeInv
    <2>2. QED BY <1>2, <1>4, <2>1 DEF Publishes
  <1>5. ASSUME NEW at, NEW gone, NEW parks, Work(at, gone, parks), ~parks
        PROVE  \A n \in DOMAIN running' : ~running'[n].parked
    <2>1. \A n \in DOMAIN running' : \E i \in DOMAIN running :
            running'[n].parked => running[i].parked \/ parks
      BY <1>5 DEF Work, Moved
    <2>2. QED BY <1>5, <2>1
  <1>6. ASSUME NEW at, NEW gone, NEW parks, Passes(at, gone, parks)
        PROVE  \A n \in DOMAIN running' : ~running'[n].parked
    BY <1>5, <1>6 DEF Passes
  <1>7. CASE \E j, q : Queues(j, q)
    BY <1>7 DEF Queues
  <1>8. QED BY <1>1, <1>3, <1>4, <1>5, <1>6, <1>7 DEF Summary, Sends, Connects, Leaves

LEMMA CursorsStep ==
  ASSUME BaseInv, Summary, CursorInv
  PROVE  \A k \in Clients : cursor'[k] \in {0} \cup past' \cup Seqs(issued')
  <1> TAKE k \in Clients
  <1>1. cursor[k] \in {0} \cup past \cup Seqs(issued)
    BY DEF CursorInv
  <1>2. past \cup Seqs(issued) \subseteq past' \cup Seqs(issued')
    BY DEF Summary, Resets, Broadcasts, Forwards, Stamps, Publishes, Passes, Sends, Queues,
           Connects, Leaves, Work, Still, Seqs
  <1>3. CASE cursor' = cursor
    BY <1>1, <1>2, <1>3
  <1>4. ASSUME NEW j, NEW q, Queues(j, q)
        PROVE  cursor'[k] \in {0} \cup past' \cup Seqs(issued')
    <2>1. cursor'[k] = cursor[k] \/ (k = j /\ cursor'[k] \in Range(conns[k].queue))
      BY <1>4 DEF Queues
    <2>2. k = j => Range(conns[k].queue) \subseteq {0} \cup Seqs(issued)
      BY <1>4 DEF Queues, CursorInv
    <2>3. QED BY <1>1, <1>2, <2>1, <2>2
  <1>5. QED BY <1>3, <1>4
        DEF Summary, Resets, Broadcasts, Forwards, Stamps, Publishes, Passes, Sends, Connects, Leaves

\* What an open connection has carried and queued, after the step.
LEMMA AboveStep ==
  ASSUME BaseInv, ReservationInv, CursorInv, Summary, NEW k \in Clients, conns'[k].open
  PROVE  /\ conns'[k].from < counter'.nextSeq
         /\ Range(conns'[k].queue) \subseteq {0} \cup Seqs(issued')
         /\ \A i \in DOMAIN conns'[k].frames : conns'[k].frames[i] > conns'[k].from
  <1>1. /\ counter.nextSeq \in Nat /\ counter'.nextSeq \in Nat
        /\ counter.nextSeq <= counter'.nextSeq /\ TypeInv
    BY CounterGrows DEF BaseInv
  <1>2. Seqs(issued) \subseteq Seqs(issued')
    BY IssuedGrows DEF Seqs
  <1>3. ASSUME conns[k].open
        PROVE  /\ conns[k].from < counter'.nextSeq
               /\ Range(conns[k].queue) \subseteq {0} \cup Seqs(issued')
               /\ \A i \in DOMAIN conns[k].frames : conns[k].frames[i] > conns[k].from
    <2>1. conns[k].from \in Int
      BY <1>1, <1>3, ConnFields
    <2>2. conns[k].from < counter.nextSeq
      BY <1>3 DEF CursorInv
    <2>3. QED BY <1>1, <1>2, <1>3, <2>1, <2>2 DEF CursorInv
  <1>4. CASE Kept(k)
    BY <1>3, <1>4 DEF Kept
  <1>5. ASSUME NEW n, Sends(n, k)
        PROVE  /\ conns'[k].from < counter'.nextSeq
               /\ Range(conns'[k].queue) \subseteq {0} \cup Seqs(issued')
               /\ \A i \in DOMAIN conns'[k].frames : conns'[k].frames[i] > conns'[k].from
    <2> DEFINE x == running[n].entry.seq
               old == conns[k].frames
               new == conns'[k].frames
    <2>1. /\ conns[k].open /\ n \in DOMAIN running /\ x \in Nat /\ old \in Seq(Nat)
          /\ k \in Range(running[n].todo) /\ k \in Range(subs) /\ running[n].entry \in issued
          /\ new = Append(old, x) /\ conns'[k].from = conns[k].from
          /\ Range(conns'[k].queue) = Range(conns[k].queue) \cup {x}
      BY <1>5, SendFacts
    <2>2. x > conns[k].from
      <3>1. Pending(running[n].entry, k) /\ running[n].entry \in Entry
        BY <2>1 DEF Pending, BaseInv, StreamTypeOK
      <3>2. QED BY <2>1, <3>1 DEF CursorInv, Active
    <2>3. x \in Seqs(issued)
      BY <2>1 DEF Seqs
    <2>4. \A i \in DOMAIN new : new[i] > conns[k].from
      <3>1. /\ DOMAIN old = 1..Len(old) /\ Len(old) \in Nat /\ DOMAIN new = 1..(Len(old) + 1)
            /\ \A i \in DOMAIN old : new[i] = old[i]
            /\ new[Len(old) + 1] = x
        BY <2>1, AppendFacts
      <3>2. \A i \in DOMAIN old : old[i] > conns[k].from
        BY <1>3, <2>1
      <3> HIDE DEF x, old, new
      <3>3. \A i \in DOMAIN new : i \in DOMAIN old \/ i = Len(old) + 1
        BY <3>1
      <3>4. QED BY <2>2, <3>1, <3>2, <3>3
    <2>5. QED BY <1>2, <1>3, <2>1, <2>3, <2>4
  <1>6. ASSUME NEW scope, NEW gone, Connects(k, scope, gone)
        PROVE  /\ conns'[k].from < counter'.nextSeq
               /\ Range(conns'[k].queue) \subseteq {0} \cup Seqs(issued')
               /\ \A i \in DOMAIN conns'[k].frames : conns'[k].frames[i] > conns'[k].from
    <2> DEFINE c == conns'[k]
    <2>1. /\ scope \in Scopes /\ cursor[k] \in Nat
          /\ \/ \E from \in {-1, cursor[k]} : c = LiveConn(scope, from)
             \/ ring' \in Evict(ring) /\ c = ReplayConn(k, scope, cursor[k], ring')
      BY <1>6, ConnectFacts
    <2>2. cursor[k] < counter.nextSeq
      <3>1. proc = "serving"
        BY <1>6 DEF Connects
      <3>2. \A s \in past : s < counter.nextSeq
        BY <3>1 DEF CursorInv, ReservationInv
      <3>3. \A s \in Seqs(issued) : s < counter.nextSeq
        BY DEF BaseInv, ReplayInv, Seqs
      <3>4. 0 < counter.nextSeq
        BY DEF BaseInv, StreamTypeOK, Counter
      <3>5. QED BY <3>2, <3>3, <3>4 DEF CursorInv
    <2> HIDE DEF c
    <2>3. CASE \E from \in {-1, cursor[k]} : c = LiveConn(scope, from)
      <3>1. PICK from \in {-1, cursor[k]} : c = LiveConn(scope, from)
        BY <2>3
      <3>2. from \in Nat \cup {-1} /\ from < counter.nextSeq
        BY <1>1, <2>1, <2>2
      <3>3. DOMAIN c.frames = {} /\ Range(c.queue) = {0} /\ c.from = from
        BY <2>1, <3>1, <3>2, LiveFacts
      <3>4. from < counter'.nextSeq
        BY <1>1, <3>2
      <3>5. QED BY <3>3, <3>4 DEF c
    <2>4. CASE ring' \in Evict(ring) /\ c = ReplayConn(k, scope, cursor[k], ring')
      <3>1. /\ c.from = cursor[k] /\ Range(c.queue) \subseteq {0} \cup Seqs(issued)
            /\ \A i \in DOMAIN c.frames : c.frames[i] > cursor[k]
        BY <2>1, <2>4, ReplayFacts
      <3>2. cursor[k] < counter'.nextSeq
        BY <1>1, <2>1, <2>2
      <3>3. QED BY <1>2, <3>1, <3>2 DEF c
    <2>5. QED BY <2>1, <2>3, <2>4
  <1>7. QED BY <1>4, <1>5, <1>6, ConnCases

LEMMA CursorStep ==
  ASSUME BaseInv, ReservationInv, CursorInv, [HubNext]_vars, ReservationInv', Plugins = {}
  PROVE  CursorInv'
  <1>1. Summary /\ BaseInv' /\ TypeInv
    BY HubSummary, BaseStep DEF BaseInv
  <1>2. proc' = "serving" => counter'.seqReservationLoaded
    BY LoadedStep DEF CursorInv
  <1>3. \A i \in DOMAIN running' : ~running'[i].parked
    BY <1>1, UnparkedStep DEF CursorInv
  <1>4. ASSUME NEW k \in Clients, k \in Range(subs'), NEW e \in Entry, Pending(e, k)'
        PROVE  e.seq > conns'[k].from
    <2>1. conns'[k].open /\ e.seq \in Nat
      BY <1>1, <1>4 DEF BaseInv, SubsInv, Active, Entry
    <2>2. CASE \E scope, gone : Connects(k, scope, gone)
      <3>1. PICK scope, gone : Connects(k, scope, gone)
        BY <2>2
      <3>2. Quiescent
        BY <3>1 DEF Connects
      <3>3. DOMAIN running = {}
        BY <3>2 DEF Quiescent, CursorInv
      <3>4. chain = <<>>
        BY <3>2, <3>3 DEF Quiescent
      <3>5. DOMAIN chain = {}
        BY <3>4
      <3>6. e \in Range(chain)
        BY <1>4, <3>1, PendingOnConnect
      <3>7. QED BY <3>5, <3>6 DEF Range
    <2>3. CASE ~\E scope, gone : Connects(k, scope, gone)
      <3>1. k \in Range(subs) /\ (Pending(e, k) \/ Broadcasts(e) \/ Forwards(e))
        BY <1>1, <1>4, <2>3, StayedIn, PendingBefore
      <3>2. conns[k].open /\ conns'[k].from = conns[k].from
        <4>1. CASE Kept(k)
          BY <4>1 DEF Kept
        <4>2. CASE \E i : Sends(i, k)
          BY <4>2, SendFacts
        <4>3. QED BY <1>1, <2>1, <2>3, <4>1, <4>2, ConnCases
      <3>3. CASE Pending(e, k)
        BY <3>1, <3>2, <3>3 DEF CursorInv, Active
      <3>4. CASE Broadcasts(e) \/ Forwards(e)
        <4>1. counter.nextSeq <= e.seq /\ counter.nextSeq \in Nat
          BY <3>4 DEF Broadcasts, Forwards, Stamps, BaseInv, StreamTypeOK, Counter
        <4>2. conns[k].from \in Int /\ conns[k].from < counter.nextSeq
          BY <1>1, <3>2, ConnFields DEF CursorInv
        <4>3. QED BY <2>1, <3>2, <4>1, <4>2
      <3>5. QED BY <3>1, <3>3, <3>4
    <2>4. QED BY <2>2, <2>3
  <1>5. \A k \in Clients : conns'[k].open =>
          /\ conns'[k].from < counter'.nextSeq
          /\ Range(conns'[k].queue) \subseteq {0} \cup Seqs(issued')
          /\ \A i \in DOMAIN conns'[k].frames : conns'[k].frames[i] > conns'[k].from
    BY <1>1, AboveStep
  <1>6. \A k \in Clients : cursor'[k] \in {0} \cup past' \cup Seqs(issued')
    BY <1>1, CursorsStep
  <1>7. QED BY <1>2, <1>3, <1>4, <1>5, <1>6 DEF CursorInv, Active

\* With a reservation file that can be read and written, and no plugin that
\* could hold a publish back, a connection never carries an event at or below
\* the cursor its client presented, across any number of reconnects and daemon
\* restarts, forwarded events included.
THEOREM FramesStayAboveCursor ==
  SoundFile /\ Plugins = {} => (HubSpec => []FramesAboveCursor)
  <1> SUFFICES ASSUME SoundFile, Plugins = {} PROVE HubSpec => []FramesAboveCursor
    OBVIOUS
  <1>1. HubInit => ReservationInv
    BY FreshCounterFacts DEF HubInit, StreamInit, ReservationInv, NoReissue
  <1>2. HubInit => CursorInv
    <2> SUFFICES ASSUME HubInit PROVE CursorInv
      OBVIOUS
    <2>1. /\ running = <<>> /\ subs = <<>> /\ proc = "down"
          /\ \A k \in Clients : ~conns[k].open /\ cursor[k] = 0
      BY DEF HubInit, StreamInit, NoConn
    <2>2. DOMAIN running = {} /\ DOMAIN subs = {}
      BY <2>1
    <2>3. QED BY <2>1, <2>2 DEF CursorInv, Active, Range
  <1>3. BaseInv /\ ReservationInv /\ [HubNext]_vars => ReservationInv'
    BY StreamPart, ReservationStep DEF BaseInv
  <1>4. BaseInv /\ ReservationInv /\ CursorInv /\ [HubNext]_vars => CursorInv'
    BY <1>3, CursorStep
  <1>5. CursorInv => FramesAboveCursor
    BY DEF CursorInv, FramesAboveCursor
  <1>6. QED BY <1>1, <1>2, <1>3, <1>4, <1>5, BaseHolds, PTL DEF HubSpec

=============================================================================
