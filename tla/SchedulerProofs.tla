--------------------------- MODULE SchedulerProofs ---------------------------
(***************************************************************************)
(* Theorems about Scheduler, for any jobs, workers, retry budgets and      *)
(* bounds: settled jobs stay settled, a claim is exclusive, a one-shot     *)
(* succeeds once and once more per fault, nothing is charged twice, and a  *)
(* one-shot is given up only after every retry it is allowed.              *)
(***************************************************************************)
EXTENDS Scheduler, FiniteSetTheorems, TLAPS

Entry == [next : Nat, retry : Nat]

\* What a worker keeps of the rows it read: functions on sets of jobs.
Tables == UNION {[D -> Entry] : D \in SUBSET Jobs}

BusyAts == {"revert", "working", "won", "lost", "ok", "failed", "charge-ok", "count", "charge",
            "complete", "decide"}

\* A worker whose current job has succeeded, or is to be closed without a run.
Won == {"won", "ok", "charge-ok", "complete"}

WorkerRec == [at : {"dead", "idle", "recurring", "oneshot"} \cup BusyAts, ready : BOOLEAN,
              seen : Tables, claims : Tables, job : Jobs \cup {NoJob}, count : Nat]

JobRec == [mode : Modes, status : Statuses, enabled : BOOLEAN, next : {0} \cup Stamps,
           due : BOOLEAN, retry : Nat, more : BOOLEAN]

Sources == Workers \cup {NoRun}

DaemonRec == [at : {"up", "down", "recover", "close", "count", "charge", "decide", "revert"},
              todo : SUBSET (Sources \X Jobs), job : Jobs \cup {NoJob}, of : Sources,
              retry : Nat, count : Nat]

-----------------------------------------------------------------------------
(* The inductive invariant, in parts.                                      *)

\* Recovery is in the middle of a job.
Mending == daemon.at \in {"close", "count", "charge", "decide", "revert"}

TypeInv ==
  /\ job \in [Jobs -> JobRec]
  /\ open \subseteq Sources \X Jobs
  /\ worker \in [Workers -> WorkerRec]
  /\ daemon \in DaemonRec
  /\ quiesced \in BOOLEAN
  /\ ran \in [OneShots -> Nat]
  /\ faults \in [Jobs -> Nat]

\* Where a worker is says what it can have read and claimed.
InPlace(v) ==
  /\ v.at \in {"dead", "idle"} => DOMAIN v.seen = {} /\ DOMAIN v.claims = {}
  /\ v.at = "recurring" => DOMAIN v.seen \cup DOMAIN v.claims \subseteq Recurring
  /\ v.at = "oneshot" => DOMAIN v.seen \subseteq OneShots
  /\ v.at \in BusyAts => DOMAIN v.seen = {} /\ v.job \in DOMAIN v.claims
  /\ DOMAIN v.seen \cap DOMAIN v.claims = {}

StageInv ==
  /\ \A w \in Workers : InPlace(worker[w])
  /\ daemon.at \in {"up", "down"} => daemon.todo = {}
  /\ Mending => daemon.job \in Jobs

\* A recurring job that is armed has a nextRunAt; the one a worker has claimed
\* is no longer the one in the row, nor the one another worker has claimed.
StampInv ==
  \A j \in Recurring :
    /\ job[j].enabled => job[j].next # 0
    /\ \A w \in Workers : /\ j \in DOMAIN worker[w].seen => worker[w].seen[j].next # 0
                          /\ Holds(w, j) => /\ worker[w].claims[j].next # 0
                                            /\ worker[w].claims[j].next # job[j].next
    /\ \A v, w \in Workers :
         v # w /\ Holds(v, j) /\ Holds(w, j) => worker[v].claims[j].next # worker[w].claims[j].next

Entries(j) == {s \in daemon.todo : s[2] = j}

\* Until an execution of it is cut off or recovered, a one-shot that is held
\* is firing, has one holder, and is not on the list of a recovery that runs
\* beside a live worker.
OnceInv ==
  \A j \in OneShots : faults[j] = 0 =>
    /\ \A w \in Workers : Holds(w, j) => job[j].status = "firing"
    /\ \A v, w \in Workers : v # w => ~(Holds(v, j) /\ Holds(w, j))
    /\ (\E w \in Workers : Alive(w)) => Entries(j) = {} /\ ~(Mending /\ daemon.job = j)

\* The executions of j that may still succeed.
MaySucceed(v, j) == j \in DOMAIN v.claims /\ ~(v.at \in Won /\ v.job = j)
Yet(j) == {w \in Workers : MaySucceed(worker[w], j)}

One(b) == IF b THEN 1 ELSE 0

\* A further execution of j can come from the row itself ...
Claimable(j) == \/ job[j].status = "active"
                \/ job[j].status = "firing" /\ \A w \in Workers : ~Holds(w, j)

\* ... or from a recovery that takes j away from a live worker.
Pending(j) == IF \E w \in Workers : Alive(w)
                THEN Cardinality(Entries(j)) + One(Mending /\ daemon.job = j) ELSE 0

\* The successes of j and the ones still possible are paid for by faults.
CountInv ==
  \A j \in OneShots :
    ran[j] + Cardinality(Yet(j)) + One(Claimable(j)) + Pending(j) <= 1 + faults[j]

SchedulerInv == TypeInv /\ StageInv /\ StampInv /\ OnceInv /\ CountInv

-----------------------------------------------------------------------------
(* Tables.                                                                 *)

LEMMA TableFacts ==
  ASSUME NEW f \in Tables
  PROVE  DOMAIN f \subseteq Jobs /\ \A j \in DOMAIN f : f[j] \in Entry
  BY DEF Tables

LEMMA IsTable ==
  ASSUME NEW D \in SUBSET Jobs, NEW f \in [D -> Entry]
  PROVE  f \in Tables
  BY DEF Tables

LEMMA NoTable == << >> \in Tables /\ DOMAIN << >> = {}
  <1>1. DOMAIN << >> = {}
    OBVIOUS
  <1>2. << >> \in [{} -> Entry]
    OBVIOUS
  <1>3. QED BY <1>1, <1>2, IsTable

LEMMA WithoutFacts ==
  ASSUME NEW f \in Tables, NEW j
  PROVE  /\ Without(f, j) \in Tables /\ DOMAIN Without(f, j) = DOMAIN f \ {j}
         /\ \A i \in DOMAIN f : i # j => Without(f, j)[i] = f[i]
  <1>1. DOMAIN f \ {j} \in SUBSET Jobs /\ \A i \in DOMAIN f : f[i] \in Entry
    BY TableFacts
  <1>2. Without(f, j) \in [DOMAIN f \ {j} -> Entry]
    BY <1>1 DEF Without
  <1>3. Without(f, j) \in Tables
    BY <1>1, <1>2, IsTable
  <1>4. QED BY <1>3 DEF Without

LEMMA WithFacts ==
  ASSUME NEW f \in Tables, NEW j \in Jobs, NEW v \in Entry
  PROVE  /\ With(f, j, v) \in Tables /\ DOMAIN With(f, j, v) = DOMAIN f \cup {j}
         /\ With(f, j, v)[j] = v
         /\ \A i \in DOMAIN f : i # j => With(f, j, v)[i] = f[i]
  <1>1. DOMAIN f \cup {j} \in SUBSET Jobs /\ \A i \in DOMAIN f : f[i] \in Entry
    BY TableFacts
  <1>2. With(f, j, v) \in [DOMAIN f \cup {j} -> Entry]
    BY <1>1 DEF With
  <1>3. With(f, j, v) \in Tables
    BY <1>1, <1>2, IsTable
  <1>4. QED BY <1>3 DEF With

LEMMA StampsNat == 1 \in Stamps /\ \A s \in Stamps : s \in Nat /\ s # 0
  BY SchedulerConstants, FS_CardinalityType DEF Stamps

LEMMA ReadFacts ==
  ASSUME TypeInv, NEW S \in SUBSET Jobs
  PROVE  /\ Read(S) \in Tables /\ DOMAIN Read(S) \subseteq S
         /\ \A j \in DOMAIN Read(S) : job[j].enabled /\ Read(S)[j].next = job[j].next
  <1>1. DueAmong(S) \in SUBSET Jobs /\ DueAmong(S) \subseteq S
    BY DEF DueAmong
  <1>2. \A j \in Jobs : [next |-> job[j].next, retry |-> job[j].retry] \in Entry
    <2> SUFFICES ASSUME NEW j \in Jobs
                 PROVE  [next |-> job[j].next, retry |-> job[j].retry] \in Entry
      OBVIOUS
    <2> DEFINE r == job[j]
    <2>1. r \in JobRec
      BY DEF TypeInv
    <2> HIDE DEF r
    <2>2. r.next \in {0} \cup Stamps /\ r.retry \in Nat
      BY <2>1 DEF JobRec
    <2>3. r.next \in Nat
      BY <2>2, StampsNat
    <2>4. QED BY <2>2, <2>3 DEF Entry, r
  <1>3. Read(S) \in [DueAmong(S) -> Entry]
    BY <1>1, <1>2 DEF Read
  <1>4. Read(S) \in Tables
    BY <1>1, <1>3, IsTable
  <1>5. QED BY <1>1, <1>4 DEF Read, DueAmong

LEMMA WorkerFields ==
  ASSUME NEW v \in WorkerRec
  PROVE  /\ v.seen \in Tables /\ v.claims \in Tables
         /\ v.at \in {"dead", "idle", "recurring", "oneshot"} \cup BusyAts
         /\ DOMAIN v.seen \subseteq Jobs /\ DOMAIN v.claims \subseteq Jobs
         /\ \A j \in DOMAIN v.seen : v.seen[j] \in Entry
         /\ \A j \in DOMAIN v.claims : v.claims[j] \in Entry
  <1>1. /\ v.seen \in Tables /\ v.claims \in Tables
        /\ v.at \in {"dead", "idle", "recurring", "oneshot"} \cup BusyAts
    BY DEF WorkerRec
  <1>2. QED BY <1>1, TableFacts

-----------------------------------------------------------------------------
(* Stamps.                                                                 *)

\* A stamp that nobody has read exists, so FreshStamp is one.
LEMMA FreshFacts ==
  ASSUME TypeInv, StageInv, NEW j \in Jobs
  PROVE  /\ FreshStamp(j) \in Stamps /\ FreshStamp(j) # 0 /\ FreshStamp(j) # job[j].next
         /\ \A w \in Workers :
              /\ j \in DOMAIN worker[w].seen => FreshStamp(j) # worker[w].seen[j].next
              /\ Holds(w, j) => FreshStamp(j) # worker[w].claims[j].next
  <1> DEFINE held == {job[j].next}
        \cup {worker[w].seen[j].next : w \in {v \in Workers : j \in DOMAIN worker[v].seen}}
        \cup {worker[w].claims[j].next : w \in {v \in Workers : Holds(v, j)}}
             has[w \in Workers] == IF j \in DOMAIN worker[w].seen THEN worker[w].seen[j].next
                                                                 ELSE worker[w].claims[j].next
             image == {has[w] : w \in Workers}
  <1>1. IsFiniteSet(Workers) /\ Cardinality(Workers) \in Nat
    BY SchedulerConstants, FS_CardinalityType
  <1>2. IsFiniteSet(image) /\ Cardinality(image) <= Cardinality(Workers)
    <2>1. has \in Surjection(Workers, image)
      BY DEF Surjection
    <2>2. QED BY <1>1, <2>1, FS_Surjection
  <1>3. held \subseteq image \cup {job[j].next}
    <2>1. \A w \in Workers : ~(j \in DOMAIN worker[w].seen /\ Holds(w, j))
      BY DEF StageInv, InPlace, Holds
    <2>2. QED BY <2>1
  <1>4. /\ IsFiniteSet(image \cup {job[j].next})
        /\ Cardinality(image \cup {job[j].next}) <= Cardinality(Workers) + 1
    <2> HIDE DEF image
    <2>1. QED BY <1>1, <1>2, FS_AddElement, FS_CardinalityType
  <1>5. IsFiniteSet(held) /\ Cardinality(held) <= Cardinality(Workers) + 1
    <2> HIDE DEF image, held
    <2>1. IsFiniteSet(held) /\ Cardinality(held) <= Cardinality(image \cup {job[j].next})
      BY <1>3, <1>4, FS_Subset
    <2>2. /\ Cardinality(held) \in Nat /\ Cardinality(image \cup {job[j].next}) \in Nat
      BY <1>4, <2>1, FS_CardinalityType
    <2>3. QED BY <1>1, <1>4, <2>1, <2>2
  <1>6. Cardinality(Stamps) = Cardinality(Workers) + 2
    BY <1>1, FS_Interval DEF Stamps
  <1>7. \E s \in Stamps : s \notin held
    <2> HIDE DEF held
    <2> SUFFICES ASSUME Stamps \subseteq held PROVE FALSE
      OBVIOUS
    <2>1. Cardinality(Stamps) <= Cardinality(held) /\ Cardinality(held) \in Nat
      BY <1>5, FS_Subset, FS_CardinalityType
    <2>2. QED BY <1>1, <1>5, <1>6, <2>1
  <1>8. FreshStamp(j) \in Stamps /\ FreshStamp(j) \notin held
    BY <1>7 DEF FreshStamp
  <1>9. Stamps \subseteq Nat \ {0}
    BY <1>1 DEF Stamps
  <1>10. QED BY <1>8, <1>9

-----------------------------------------------------------------------------
(* The store's statements.                                                 *)

\* What a statement may do to a row: a recurring job keeps its nextRunAt and
\* is not armed, or gets one nobody has read, or is put out of use.
Sane(j, new) ==
  /\ new \in JobRec /\ new.mode = job[j].mode
  /\ j \in Recurring => \/ new.next = job[j].next /\ (new.enabled => job[j].enabled)
                        \/ new.next = FreshStamp(j)
                        \/ new.next = 0 /\ ~new.enabled

Status(row, status) == IF row.status = "firing" THEN status ELSE row.status

LEMMA JobFields ==
  ASSUME NEW r \in JobRec
  PROVE  /\ r.status \in Statuses /\ r.next \in {0} \cup Stamps /\ r.retry \in Nat
         /\ \A s \in Statuses : /\ [r EXCEPT !.status = s] \in JobRec
                                /\ [r EXCEPT !.status = s].status = s
                                /\ [r EXCEPT !.status = s].mode = r.mode
                                /\ [r EXCEPT !.status = s].next = r.next
                                /\ [r EXCEPT !.status = s].enabled = r.enabled
         /\ \A n \in Nat : /\ [r EXCEPT !.retry = n] \in JobRec
                           /\ [r EXCEPT !.retry = n].status = r.status
                           /\ [r EXCEPT !.retry = n].mode = r.mode
                           /\ [r EXCEPT !.retry = n].next = r.next
                           /\ [r EXCEPT !.retry = n].enabled = r.enabled
  BY DEF JobRec

LEMMA LaterFacts ==
  ASSUME TypeInv, StageInv, NEW j \in Jobs
  PROVE  /\ Sane(j, Later(j, job[j])) /\ Later(j, job[j]).status = job[j].status
         /\ Later(j, job[j]).next = FreshStamp(j)
         /\ Later(j, job[j]).enabled = job[j].enabled
  <1>1. job[j] \in JobRec /\ FreshStamp(j) \in Stamps
    BY FreshFacts DEF TypeInv
  <1>2. QED BY <1>1 DEF Later, JobRec, Sane

LEMMA RequeueFacts ==
  ASSUME TypeInv, StageInv, NEW j \in Jobs
  PROVE  Sane(j, Requeue(j, job[j])) /\ Requeue(j, job[j]).status = job[j].status
  <1>1. job[j] \in JobRec /\ FreshStamp(j) \in Stamps
    BY FreshFacts DEF TypeInv
  <1>2. QED BY <1>1 DEF Requeue, Later, JobRec, Sane

LEMMA FromFiringFacts ==
  ASSUME TypeInv, NEW j \in Jobs, NEW status \in Statuses,
         NEW enabled \in {FALSE, job[j].enabled}
  PROVE  /\ Sane(j, FromFiring(job[j], status, enabled))
         /\ FromFiring(job[j], status, enabled).status = Status(job[j], status)
         /\ FromFiring(job[j], status, enabled).next = job[j].next
  <1>1. job[j] \in JobRec /\ job[j].enabled \in BOOLEAN
    BY DEF TypeInv, JobRec
  <1>2. enabled \in BOOLEAN
    BY <1>1, Zenon
  <1> DEFINE new == [job[j] EXCEPT !.status = status, !.enabled = enabled]
  <1>3. /\ new \in JobRec /\ new.status = status /\ new.next = job[j].next
        /\ new.enabled => job[j].enabled
        /\ new.mode = job[j].mode
    BY <1>1, <1>2 DEF JobRec
  <1> HIDE DEF new
  <1>4. FromFiring(job[j], status, enabled) = IF job[j].status = "firing" THEN new ELSE job[j]
    BY DEF FromFiring, new
  <1>5. QED BY <1>1, <1>3, <1>4 DEF Sane, Status

LEMMA SettleFacts ==
  ASSUME TypeInv, NEW j \in Jobs
  PROVE  /\ Sane(j, CompleteOneShot(job[j]))
         /\ CompleteOneShot(job[j]).status = Status(job[j], "fired")
         /\ Sane(j, FailOneShotPermanently(job[j]))
         /\ FailOneShotPermanently(job[j]).status = Status(job[j], "cancelled")
         /\ Sane(j, RevertStatus(job[j]))
         /\ RevertStatus(job[j]).status = Status(job[j], "active")
         /\ Sane(j, RetryOneShot(job[j]))
         /\ RetryOneShot(job[j]).status = Status(job[j], "active")
  <1>1. /\ "fired" \in Statuses /\ "cancelled" \in Statuses /\ "active" \in Statuses
        /\ job[j] \in JobRec
    BY DEF Statuses, TypeInv
  <1>2. /\ Sane(j, CompleteOneShot(job[j]))
        /\ CompleteOneShot(job[j]).status = Status(job[j], "fired")
    BY <1>1, FromFiringFacts DEF CompleteOneShot
  <1>3. /\ Sane(j, FailOneShotPermanently(job[j]))
        /\ FailOneShotPermanently(job[j]).status = Status(job[j], "cancelled")
    BY <1>1, FromFiringFacts DEF FailOneShotPermanently
  <1>4. /\ Sane(j, RevertStatus(job[j]))
        /\ RevertStatus(job[j]).status = Status(job[j], "active")
        /\ RevertStatus(job[j]).next = job[j].next
    BY <1>1, FromFiringFacts DEF RevertStatus
  <1>5. CASE job[j].status # "firing"
    <2>1. RetryOneShot(job[j]) = job[j]
      BY <1>5 DEF RetryOneShot
    <2>2. QED BY <1>1, <1>2, <1>3, <1>4, <1>5, <2>1 DEF Sane, Status
  <1>6. CASE job[j].status = "firing"
    <2> DEFINE r == RevertStatus(job[j])
               new == [r EXCEPT !.retry = r.retry + 1]
    <2>1. r \in JobRec /\ r.next = job[j].next
      BY <1>4 DEF Sane
    <2>2. r.enabled => job[j].enabled
      BY <1>1, <1>6 DEF RevertStatus, FromFiring, JobRec
    <2>3. RetryOneShot(job[j]) = new
      BY <1>6 DEF RetryOneShot
    <2> HIDE DEF r
    <2>4. /\ new \in JobRec /\ new.status = r.status /\ new.next = r.next
          /\ new.enabled = r.enabled /\ new.mode = r.mode
      BY <2>1, JobFields
    <2> HIDE DEF new
    <2>5. Sane(j, new) /\ new.status = Status(job[j], "active")
      BY <1>4, <2>1, <2>2, <2>4 DEF Sane, r
    <2>6. QED BY <1>2, <1>3, <1>4, <2>3, <2>5
  <1>7. QED BY <1>5, <1>6

LEMMA ChargeFacts ==
  ASSUME TypeInv, NEW j \in Jobs, NEW ok \in BOOLEAN, NEW count \in Nat
  PROVE  /\ Sane(j, ChargeRetry(job[j], ok, count))
         /\ ChargeRetry(job[j], ok, count).status = job[j].status
  <1>1. job[j] \in JobRec
    BY DEF TypeInv
  <1>2. (IF ok THEN 0 ELSE count + 1) \in Nat
    OBVIOUS
  <1>3. QED BY <1>1, <1>2, JobFields DEF ChargeRetry, Sane

LEMMA AdvanceFacts ==
  ASSUME TypeInv, StageInv, NEW j \in Jobs, job[j].next # 0
  PROVE  /\ Sane(j, Advance(j, job[j])) /\ Advance(j, job[j]).status = job[j].status
         /\ Advance(j, job[j]).next # job[j].next
  <1>1. job[j] \in JobRec
    BY DEF TypeInv
  <1>2. CASE job[j].more
    BY <1>2, LaterFacts, FreshFacts DEF Advance
  <1>3. CASE ~job[j].more
    BY <1>1, <1>3 DEF Advance, JobRec, Sane
  <1>4. QED BY <1>2, <1>3

LEMMA ApplyFacts ==
  ASSUME TypeInv, StageInv, NEW j \in Jobs, NEW retry \in Nat
  PROVE  LET new == ApplyRetryDecision(j, job[j], retry) IN
         /\ Sane(j, new)
         /\ DecideRetry(retry) => new.status = job[j].status
         /\ ~DecideRetry(retry) /\ j \in OneShots => new.status = Status(job[j], "cancelled")
         /\ j \in Recurring => new.status = job[j].status
  <1>1. job[j] \in JobRec /\ (j \in OneShots \/ j \in Recurring) /\ OneShots \cap Recurring = {}
    BY SchedulerConstants DEF TypeInv, Jobs
  <1>2. CASE DecideRetry(retry)
    <2>1. ApplyRetryDecision(j, job[j], retry) = Later(j, job[j])
      BY <1>2 DEF ApplyRetryDecision
    <2>2. QED BY <1>2, <2>1, LaterFacts
  <1>3. CASE ~DecideRetry(retry) /\ j \in OneShots
    <2>1. ApplyRetryDecision(j, job[j], retry) = FailOneShotPermanently(job[j])
      BY <1>3 DEF ApplyRetryDecision
    <2>2. QED BY <1>1, <1>3, <2>1, SettleFacts
  <1>4. CASE ~DecideRetry(retry) /\ j \notin OneShots
    <2>1. ApplyRetryDecision(j, job[j], retry) = [job[j] EXCEPT !.retry = 0]
      BY <1>4 DEF ApplyRetryDecision
    <2>2. /\ [job[j] EXCEPT !.retry = 0] \in JobRec
          /\ [job[j] EXCEPT !.retry = 0].status = job[j].status
          /\ [job[j] EXCEPT !.retry = 0].next = job[j].next
          /\ [job[j] EXCEPT !.retry = 0].enabled = job[j].enabled
      BY <1>1, JobFields
    <2>3. QED BY <1>4, <2>1, <2>2 DEF Sane
  <1>5. QED BY <1>2, <1>3, <1>4

-----------------------------------------------------------------------------
(* What a step of one worker does, for each job.                           *)

Moves(w, v) == /\ worker' \in [Workers -> WorkerRec]
               /\ worker'[w] = v
               /\ \A x \in Workers : x # w => worker'[x] = worker[x]

\* A recurring job: the row is written sanely; what is read is what the armed
\* row says; what is claimed is what the row said and says no longer.
RecurringEffect(w, v, j) ==
  /\ Sane(j, job'[j])
  /\ j \in DOMAIN v.seen =>
       \/ j \in DOMAIN worker[w].seen /\ v.seen[j] = worker[w].seen[j]
       \/ job[j].enabled /\ v.seen[j].next = job[j].next
  /\ j \in DOMAIN v.claims =>
       \/ Holds(w, j) /\ v.claims[j] = worker[w].claims[j]
       \/ /\ v.claims[j].next = job[j].next /\ job[j].next # 0
          /\ job'[j].next # job[j].next

\* A one-shot: nothing happens to it, or it is claimed, has succeeded, or is
\* let go with its row written from firing.
Kept(w, v, i) == /\ ran'[i] = ran[i] /\ job'[i].status = job[i].status
                 /\ i \in DOMAIN v.claims <=> Holds(w, i)
                 /\ MaySucceed(v, i) => MaySucceed(worker[w], i)

Claimed(w, v, i) == /\ ran'[i] = ran[i]
                    /\ job[i].status = "active" /\ job'[i].status = "firing"
                    /\ ~Holds(w, i) /\ i \in DOMAIN v.claims

Succeeded(w, v, i) == /\ ran'[i] = ran[i] + 1 /\ job'[i].status = job[i].status
                      /\ Holds(w, i) /\ i \in DOMAIN v.claims
                      /\ MaySucceed(worker[w], i) /\ ~MaySucceed(v, i)

Ended(w, v, i) == /\ ran'[i] = ran[i]
                  /\ Holds(w, i) /\ i \notin DOMAIN v.claims
                  /\ job'[i].status # "firing"
                  /\ \/ job'[i].status = job[i].status
                     \/ /\ job[i].status = "firing"
                        /\ job'[i].status = "active" => MaySucceed(worker[w], i)

OneShotEffect(w, v, i) ==
  Kept(w, v, i) \/ Claimed(w, v, i) \/ Succeeded(w, v, i) \/ Ended(w, v, i)

Effect(w, v) ==
  /\ Moves(w, v) /\ InPlace(v) /\ v.at # "dead" /\ worker[w].at # "dead"
  /\ job' \in [Jobs -> JobRec] /\ open' \subseteq Sources \X Jobs
  /\ \A j \in Jobs : Sane(j, job'[j])
  /\ ran' \in [OneShots -> Nat]
  /\ UNCHANGED << daemon, quiesced, faults >>
  /\ \A j \in Recurring : RecurringEffect(w, v, j)
  /\ \A i \in OneShots : OneShotEffect(w, v, i)
  /\ \A j \in Jobs : Settled(j) => job'[j].status = job[j].status

LEMMA MovesTo ==
  ASSUME TypeInv, NEW w \in Workers, NEW v \in WorkerRec, worker' = [worker EXCEPT ![w] = v]
  PROVE  Moves(w, v)
  BY DEF TypeInv, Moves

LEMMA SaneSelf ==
  ASSUME TypeInv, job' = job
  PROVE  /\ job' \in [Jobs -> JobRec]
         /\ \A j \in Jobs : Sane(j, job'[j]) /\ job'[j].status = job[j].status
  BY DEF TypeInv, Sane

LEMMA JobWrite ==
  ASSUME TypeInv, NEW j \in Jobs, NEW new, Sane(j, new), job' = [job EXCEPT ![j] = new]
  PROVE  /\ job' \in [Jobs -> JobRec] /\ job'[j] = new
         /\ \A i \in Jobs : i # j => job'[i] = job[i]
         /\ \A i \in Jobs : Sane(i, job'[i])
  <1>1. new \in JobRec
    BY DEF Sane
  <1>2. /\ job' \in [Jobs -> JobRec] /\ job'[j] = new
        /\ \A i \in Jobs : i # j => job'[i] = job[i]
    BY <1>1 DEF TypeInv
  <1>3. \A i \in Jobs : Sane(i, job[i])
    BY DEF TypeInv, Sane
  <1>4. QED BY <1>2, <1>3

\* The worker keeps its claims, and no status changes.
LEMMA KeepEffect ==
  ASSUME TypeInv, StageInv, NEW w \in Workers, NEW v, Moves(w, v), InPlace(v),
         v.at # "dead", worker[w].at # "dead",
         v.claims = worker[w].claims,
         \A i \in OneShots : MaySucceed(v, i) => MaySucceed(worker[w], i),
         \A j \in Recurring : j \in DOMAIN v.seen =>
            \/ j \in DOMAIN worker[w].seen /\ v.seen[j] = worker[w].seen[j]
            \/ job[j].enabled /\ v.seen[j].next = job[j].next,
         job' \in [Jobs -> JobRec],
         \A j \in Jobs : Sane(j, job'[j]) /\ job'[j].status = job[j].status,
         open' \subseteq Sources \X Jobs,
         UNCHANGED << daemon, quiesced, ran, faults >>
  PROVE  Effect(w, v)
  <1>1. OneShots \subseteq Jobs /\ Recurring \subseteq Jobs
    BY DEF Jobs
  <1>2. \A j \in Recurring : RecurringEffect(w, v, j)
    BY <1>1 DEF RecurringEffect, Holds
  <1>3. \A i \in OneShots : OneShotEffect(w, v, i)
    BY <1>1 DEF OneShotEffect, Kept, Holds
  <1>4. ran' \in [OneShots -> Nat]
    BY DEF TypeInv
  <1>5. QED BY <1>2, <1>3, <1>4 DEF Effect

Finished(w) == [worker[w] EXCEPT !.at = "oneshot", !.job = NoJob,
                                 !.claims = Without(worker[w].claims, worker[w].job)]

LEMMA FinishedFacts ==
  ASSUME TypeInv, StageInv, NEW w \in Workers, worker[w].at \in BusyAts
  PROVE  LET v == Finished(w) IN
         /\ v \in WorkerRec /\ v.at = "oneshot" /\ InPlace(v)
         /\ v.seen = worker[w].seen /\ DOMAIN v.seen = {}
         /\ DOMAIN v.claims = DOMAIN worker[w].claims \ {worker[w].job}
         /\ \A i \in DOMAIN v.claims : v.claims[i] = worker[w].claims[i]
         /\ worker[w].job \in Jobs /\ Holds(w, worker[w].job)
         /\ Done(w) => Moves(w, v)
  <1> DEFINE v == Finished(w)
             rest == Without(worker[w].claims, worker[w].job)
  <1>1. /\ worker[w] \in WorkerRec /\ worker[w].claims \in Tables
        /\ DOMAIN worker[w].claims \subseteq Jobs
    BY WorkerFields DEF TypeInv
  <1>2. DOMAIN worker[w].seen = {} /\ worker[w].job \in DOMAIN worker[w].claims
    BY DEF StageInv, InPlace
  <1>3. /\ rest \in Tables /\ DOMAIN rest = DOMAIN worker[w].claims \ {worker[w].job}
        /\ \A i \in DOMAIN rest : rest[i] = worker[w].claims[i]
    <2>1. /\ rest \in Tables /\ DOMAIN rest = DOMAIN worker[w].claims \ {worker[w].job}
          /\ \A i \in DOMAIN worker[w].claims :
               i # worker[w].job => rest[i] = worker[w].claims[i]
      BY <1>1, WithoutFacts
    <2> HIDE DEF rest
    <2>2. QED BY <2>1
  <1>4. v = [worker[w] EXCEPT !.at = "oneshot", !.job = NoJob, !.claims = rest]
    BY DEF Finished
  <1> HIDE DEF rest, v
  <1>5. /\ v \in WorkerRec /\ v.at = "oneshot" /\ v.seen = worker[w].seen /\ v.claims = rest
    BY <1>1, <1>3, <1>4 DEF WorkerRec
  <1>6. InPlace(v)
    BY <1>2, <1>5 DEF InPlace, BusyAts
  <1>7. ASSUME Done(w) PROVE Moves(w, v)
    <2>1. worker' = [worker EXCEPT ![w] = v]
      BY <1>7 DEF Done, v, Finished
    <2>2. QED BY <1>5, <2>1, MovesTo
  <1>8. QED BY <1>1, <1>2, <1>3, <1>5, <1>6, <1>7 DEF Holds, v

\* The worker is done with its job.
LEMMA EndEffect ==
  ASSUME TypeInv, StageInv, NEW w \in Workers, worker[w].at \in BusyAts, Done(w),
         job' \in [Jobs -> JobRec],
         \A j \in Jobs : Sane(j, job'[j]),
         \A j \in Jobs : j # worker[w].job => job'[j].status = job[j].status,
         \/ job'[worker[w].job].status = job[worker[w].job].status
         \/ job[worker[w].job].status = "firing",
         worker[w].job \in OneShots =>
            /\ job'[worker[w].job].status # "firing"
            /\ job[worker[w].job].status = "firing" /\ job'[worker[w].job].status = "active"
                 => worker[w].at \notin Won,
         open' \subseteq Sources \X Jobs,
         UNCHANGED << daemon, quiesced, ran, faults >>
  PROVE  \E v : Effect(w, v)
  <1> DEFINE v == Finished(w)
             j == worker[w].job
  <1>1. /\ Moves(w, v) /\ InPlace(v) /\ v.at = "oneshot"
        /\ DOMAIN v.seen = {}
        /\ DOMAIN v.claims = DOMAIN worker[w].claims \ {j}
        /\ \A i \in DOMAIN v.claims : v.claims[i] = worker[w].claims[i]
        /\ j \in Jobs /\ Holds(w, j)
    BY FinishedFacts
  <1> HIDE DEF v, j
  <1>2. OneShots \subseteq Jobs /\ Recurring \subseteq Jobs
    BY DEF Jobs
  <1>3. \A i \in Recurring : RecurringEffect(w, v, i)
    BY <1>1, <1>2 DEF RecurringEffect, Holds
  <1>4. ASSUME NEW i \in OneShots PROVE OneShotEffect(w, v, i)
    <2>1. CASE i # j
      <3>1. /\ ran'[i] = ran[i] /\ job'[i].status = job[i].status
            /\ i \in DOMAIN v.claims <=> Holds(w, i)
        BY <1>1, <1>2, <2>1 DEF Holds, j
      <3>2. MaySucceed(v, i) => MaySucceed(worker[w], i)
        BY <1>1, <2>1 DEF MaySucceed, j
      <3>3. QED BY <3>1, <3>2 DEF OneShotEffect, Kept
    <2>2. CASE i = j
      <3>1. ran'[i] = ran[i] /\ Holds(w, i) /\ i \notin DOMAIN v.claims
        BY <1>1, <2>2
      <3>2. worker[w].at \notin Won => MaySucceed(worker[w], i)
        BY <3>1 DEF MaySucceed, Holds
      <3>3. Ended(w, v, i)
        BY <2>2, <3>1, <3>2 DEF Ended, j
      <3>4. QED BY <3>3 DEF OneShotEffect
    <2>3. QED BY <2>1, <2>2
  <1>5. \A i \in Jobs : Settled(i) => job'[i].status = job[i].status
    BY DEF Settled, j
  <1>6. ran' \in [OneShots -> Nat] /\ worker[w].at # "dead"
    BY DEF TypeInv, BusyAts
  <1>7. Effect(w, v)
    BY <1>1, <1>3, <1>4, <1>5, <1>6 DEF Effect
  <1>8. QED BY <1>7

LEMMA BusyFacts ==
  ASSUME TypeInv, StageInv, NEW w \in Workers, worker[w].at \in BusyAts
  PROVE  /\ worker[w] \in WorkerRec /\ worker[w].at # "dead" /\ worker[w].count \in Nat
         /\ DOMAIN worker[w].seen = {} /\ worker[w].job \in DOMAIN worker[w].claims
         /\ worker[w].job \in Jobs /\ worker[w].claims[worker[w].job].retry \in Nat
  <1>1. worker[w] \in WorkerRec /\ worker[w].count \in Nat
    BY DEF TypeInv, WorkerRec
  <1>2. DOMAIN worker[w].seen = {} /\ worker[w].job \in DOMAIN worker[w].claims
    BY DEF StageInv, InPlace
  <1>3. worker[w].job \in Jobs /\ worker[w].claims[worker[w].job] \in Entry
    BY <1>1, <1>2, WorkerFields
  <1>4. QED BY <1>1, <1>2, <1>3 DEF Entry, BusyAts

\* On to another statement of the same job, with a count read or not.
Goes(w, at, n) == worker' = [worker EXCEPT ![w] = [worker[w] EXCEPT !.at = at, !.count = n]]

LEMMA GotoGoes ==
  ASSUME TypeInv, NEW w \in Workers, NEW at, Goto(w, at)
  PROVE  Goes(w, at, worker[w].count)
  <1>1. worker[w] \in WorkerRec
    BY DEF TypeInv
  <1>2. [worker[w] EXCEPT !.at = at] = [worker[w] EXCEPT !.at = at, !.count = worker[w].count]
    BY <1>1 DEF WorkerRec
  <1>3. QED BY <1>2 DEF Goto, Goes

LEMMA CountGoes ==
  ASSUME NEW w \in Workers, NEW at, NEW n,
         worker' = [worker EXCEPT ![w].at = at, ![w].count = n]
  PROVE  Goes(w, at, n)
  BY DEF Goes

LEMMA GotoEffect ==
  ASSUME TypeInv, StageInv, NEW w \in Workers, worker[w].at \in BusyAts,
         NEW at \in BusyAts, NEW n \in Nat, Goes(w, at, n), worker[w].at \in Won => at \in Won,
         job' \in [Jobs -> JobRec],
         \A j \in Jobs : Sane(j, job'[j]) /\ job'[j].status = job[j].status,
         open' \subseteq Sources \X Jobs,
         UNCHANGED << daemon, quiesced, ran, faults >>
  PROVE  \E v : Effect(w, v)
  <1> DEFINE v == [worker[w] EXCEPT !.at = at, !.count = n]
  <1>1. /\ worker[w] \in WorkerRec /\ worker[w].at # "dead"
        /\ DOMAIN worker[w].seen = {} /\ worker[w].job \in DOMAIN worker[w].claims
    BY BusyFacts
  <1>2. /\ v \in WorkerRec /\ v.at = at /\ v.seen = worker[w].seen
        /\ v.claims = worker[w].claims /\ v.job = worker[w].job
    BY <1>1 DEF WorkerRec
  <1>3. worker' = [worker EXCEPT ![w] = v]
    BY DEF Goes
  <1> HIDE DEF v
  <1>4. Moves(w, v)
    BY <1>2, <1>3, MovesTo
  <1>5. InPlace(v) /\ v.at # "dead"
    BY <1>1, <1>2 DEF InPlace, BusyAts
  <1>6. \A i \in OneShots : MaySucceed(v, i) => MaySucceed(worker[w], i)
    BY <1>2 DEF MaySucceed
  <1>7. Effect(w, v)
    BY <1>1, <1>2, <1>4, <1>5, <1>6, KeepEffect
  <1>8. QED BY <1>7

LEMMA TickEffect ==
  ASSUME TypeInv, StageInv, NEW w \in Workers,
         SelectRecurring(w) \/ SelectOneShots(w) \/ TickEnds(w) \/ ToolsReady(w) \/ ToolsReload(w)
  PROVE  \E v : Effect(w, v)
  <1>1. /\ worker[w] \in WorkerRec /\ InPlace(worker[w]) /\ worker[w].at # "dead"
        /\ open' \subseteq Sources \X Jobs /\ UNCHANGED << job, daemon, quiesced, ran, faults >>
    <2>1. worker[w] \in WorkerRec /\ InPlace(worker[w])
      BY DEF TypeInv, StageInv
    <2>2. worker[w].at # "dead"
      BY DEF SelectRecurring, SelectOneShots, TickEnds, InLoop, ToolsReady, ToolsReload, Alive
    <2>3. UNCHANGED << rows, daemon, quiesced, ghosts >>
      BY DEF SelectRecurring, SelectOneShots, TickEnds, ToolsReady, ToolsReload
    <2>4. QED BY <2>1, <2>2, <2>3 DEF rows, ghosts, TypeInv
  <1>2. /\ job' \in [Jobs -> JobRec]
        /\ \A j \in Jobs : Sane(j, job'[j]) /\ job'[j].status = job[j].status
    BY <1>1, SaneSelf
  <1>3. OneShots \in SUBSET Jobs /\ Recurring \in SUBSET Jobs /\ OneShots \cap Recurring = {}
    BY SchedulerConstants DEF Jobs
  <1>4. ASSUME NEW v \in WorkerRec, worker' = [worker EXCEPT ![w] = v], InPlace(v),
               v.at \in {"idle", "recurring", "oneshot"} \/ v.at = worker[w].at,
               v.claims = worker[w].claims, v.job = worker[w].job,
               \A j \in Recurring : j \in DOMAIN v.seen =>
                  \/ j \in DOMAIN worker[w].seen /\ v.seen[j] = worker[w].seen[j]
                  \/ job[j].enabled /\ v.seen[j].next = job[j].next,
               worker[w].at \notin Won \/ v.at = worker[w].at
        PROVE  \E x : Effect(w, x)
    <2>1. Moves(w, v)
      BY <1>4, MovesTo
    <2>2. v.at # "dead"
      BY <1>1, <1>4
    <2>3. \A i \in OneShots : MaySucceed(v, i) => MaySucceed(worker[w], i)
      BY <1>4 DEF MaySucceed
    <2>4. Effect(w, v)
      BY <1>1, <1>2, <1>4, <2>1, <2>2, <2>3, KeepEffect
    <2>5. QED BY <2>4
  <1>5. CASE SelectRecurring(w)
    <2> DEFINE read == Read(Recurring)
               v == [worker[w] EXCEPT !.at = "recurring", !.seen = read]
    <2>1. /\ read \in Tables /\ DOMAIN read \subseteq Recurring
          /\ \A j \in DOMAIN read : job[j].enabled /\ read[j].next = job[j].next
      BY <1>3, ReadFacts
    <2>2. worker' = [worker EXCEPT ![w] = v] /\ worker[w].at = "idle"
      BY <1>5 DEF SelectRecurring
    <2> HIDE DEF read
    <2>3. /\ v \in WorkerRec /\ v.at = "recurring" /\ v.seen = read
          /\ v.claims = worker[w].claims /\ v.job = worker[w].job
      BY <1>1, <2>1 DEF WorkerRec
    <2> HIDE DEF v
    <2>4. DOMAIN v.claims = {} /\ InPlace(v)
      BY <1>1, <2>1, <2>2, <2>3 DEF InPlace, BusyAts
    <2>5. QED BY <1>4, <2>1, <2>2, <2>3, <2>4 DEF Won
  <1>6. CASE SelectOneShots(w)
    <2> DEFINE read == Read(OneShots)
               v == [worker[w] EXCEPT !.at = "oneshot", !.seen = read]
    <2>1. /\ read \in Tables /\ DOMAIN read \subseteq OneShots
          /\ \A j \in DOMAIN read : job[j].enabled /\ read[j].next = job[j].next
      BY <1>3, ReadFacts
    <2>2. worker' = [worker EXCEPT ![w] = v] /\ worker[w].at = "recurring"
      BY <1>6 DEF SelectOneShots
    <2> HIDE DEF read
    <2>3. /\ v \in WorkerRec /\ v.at = "oneshot" /\ v.seen = read
          /\ v.claims = worker[w].claims /\ v.job = worker[w].job
      BY <1>1, <2>1 DEF WorkerRec
    <2> HIDE DEF v
    <2>4. InPlace(v)
      BY <1>1, <1>3, <2>1, <2>2, <2>3 DEF InPlace, BusyAts
    <2>5. QED BY <1>4, <2>1, <2>2, <2>3, <2>4 DEF Won
  <1>7. CASE TickEnds(w)
    <2> DEFINE v == [worker[w] EXCEPT !.at = "idle"]
    <2>1. /\ worker' = [worker EXCEPT ![w] = v] /\ worker[w].at = "oneshot"
          /\ worker[w].seen = << >> /\ worker[w].claims = << >>
      BY <1>7 DEF TickEnds, InLoop
    <2>2. /\ v \in WorkerRec /\ v.at = "idle" /\ v.seen = worker[w].seen
          /\ v.claims = worker[w].claims /\ v.job = worker[w].job
      BY <1>1 DEF WorkerRec
    <2> HIDE DEF v
    <2>3. DOMAIN v.seen = {} /\ DOMAIN v.claims = {}
      BY <2>1, <2>2, NoTable
    <2>4. InPlace(v)
      BY <2>2, <2>3 DEF InPlace, BusyAts
    <2>5. QED BY <1>4, <2>1, <2>2, <2>3, <2>4 DEF Won
  <1>8. ASSUME NEW ready \in BOOLEAN, worker' = [worker EXCEPT ![w].ready = ready]
        PROVE  \E x : Effect(w, x)
    <2> DEFINE v == [worker[w] EXCEPT !.ready = ready]
    <2>1. worker' = [worker EXCEPT ![w] = v]
      BY <1>8
    <2>2. /\ v \in WorkerRec /\ v.at = worker[w].at /\ v.seen = worker[w].seen
          /\ v.claims = worker[w].claims /\ v.job = worker[w].job
      BY <1>1 DEF WorkerRec
    <2> HIDE DEF v
    <2>3. InPlace(v)
      BY <1>1, <2>2 DEF InPlace
    <2>4. QED BY <1>4, <2>1, <2>2, <2>3
  <1>9. QED
    BY <1>5, <1>6, <1>7, <1>8 DEF ToolsReady, ToolsReload

LEMMA ClaimEffect ==
  ASSUME TypeInv, StageInv, StampInv, NEW w \in Workers, NEW j \in Jobs, Claim(w, j)
  PROVE  \E v : Effect(w, v)
  <1> DEFINE seen == worker[w].seen[j]
             fewer == Without(worker[w].seen, j)
             more == With(worker[w].claims, j, seen)
  <1>1. /\ worker[w].at \in {"recurring", "oneshot"} /\ j \in DOMAIN worker[w].seen
        /\ open' \subseteq Sources \X Jobs /\ UNCHANGED << daemon, quiesced, ran, faults >>
    BY DEF Claim, TypeInv, ghosts
  <1>2. /\ worker[w] \in WorkerRec /\ InPlace(worker[w]) /\ seen \in Entry
        /\ worker[w].seen \in Tables /\ worker[w].claims \in Tables
    BY <1>1, WorkerFields DEF TypeInv, StageInv
  <1>3. /\ fewer \in Tables /\ DOMAIN fewer = DOMAIN worker[w].seen \ {j}
        /\ \A i \in DOMAIN worker[w].seen : i # j => fewer[i] = worker[w].seen[i]
    BY <1>2, WithoutFacts
  <1>4. /\ more \in Tables /\ DOMAIN more = DOMAIN worker[w].claims \cup {j}
        /\ more[j] = seen
        /\ \A i \in DOMAIN worker[w].claims : i # j => more[i] = worker[w].claims[i]
    BY <1>2, WithFacts
  <1>5. j \notin DOMAIN worker[w].claims /\ worker[w].at \notin Won
    BY <1>1, <1>2 DEF InPlace, Won
  <1>6. OneShots \subseteq Jobs /\ Recurring \subseteq Jobs /\ OneShots \cap Recurring = {}
    BY SchedulerConstants DEF Jobs
  <1>7. CASE ~ClaimHolds(j, seen)
    <2> DEFINE v == [worker[w] EXCEPT !.seen = fewer]
    <2>1. worker' = [worker EXCEPT ![w] = v] /\ job' = job
      BY <1>7 DEF Claim
    <2> HIDE DEF fewer, seen
    <2>2. /\ v \in WorkerRec /\ v.at = worker[w].at /\ v.seen = fewer
          /\ v.claims = worker[w].claims /\ v.job = worker[w].job
      BY <1>2, <1>3 DEF WorkerRec
    <2> HIDE DEF v
    <2>3. InPlace(v)
      BY <1>1, <1>2, <1>3, <2>2 DEF InPlace, BusyAts
    <2>4. /\ Moves(w, v) /\ v.at # "dead" /\ worker[w].at # "dead"
      BY <1>1, <2>1, <2>2, MovesTo
    <2>5. \A i \in OneShots : MaySucceed(v, i) => MaySucceed(worker[w], i)
      BY <2>2 DEF MaySucceed
    <2>6. /\ job' \in [Jobs -> JobRec]
          /\ \A i \in Jobs : Sane(i, job'[i]) /\ job'[i].status = job[i].status
      BY <2>1, SaneSelf
    <2>7. Effect(w, v)
      BY <1>1, <1>3, <2>2, <2>3, <2>4, <2>5, <2>6, KeepEffect
    <2>8. QED BY <2>7
  <1>8. CASE ClaimHolds(j, seen)
    <2> DEFINE v == [worker[w] EXCEPT !.seen = fewer, !.claims = more]
               new == IF j \in Recurring THEN Advance(j, job[j])
                                         ELSE [job[j] EXCEPT !.status = "firing"]
    <2>1. worker' = [worker EXCEPT ![w] = v] /\ job' = [job EXCEPT ![j] = new]
      BY <1>8 DEF Claim
    <2>2. /\ Sane(j, new)
          /\ j \in Recurring => new.next # job[j].next /\ job[j].next # 0 /\ job[j].next = seen.next
          /\ j \in Recurring => new.status = job[j].status
          /\ j \in OneShots => job[j].status = "active" /\ new.status = "firing"
      <3>1. CASE j \in Recurring
        <4>1. job[j].next = seen.next /\ seen.next # 0
          BY <1>1, <1>8, <3>1 DEF ClaimHolds, StampInv
        <4>2. QED BY <1>6, <3>1, <4>1, AdvanceFacts
      <3>2. CASE j \notin Recurring
        <4>1. job[j].status = "active" /\ job[j] \in JobRec /\ "firing" \in Statuses
          BY <1>8, <3>2 DEF ClaimHolds, TypeInv, Statuses
        <4>2. /\ [job[j] EXCEPT !.status = "firing"] \in JobRec
              /\ [job[j] EXCEPT !.status = "firing"].status = "firing"
          BY <4>1, JobFields
        <4>3. QED BY <3>2, <4>1, <4>2 DEF Sane
      <3>3. QED BY <3>1, <3>2
    <2> HIDE DEF fewer, more, new
    <2>3. /\ v \in WorkerRec /\ v.at = worker[w].at /\ v.seen = fewer
          /\ v.claims = more /\ v.job = worker[w].job
      BY <1>2, <1>3, <1>4 DEF WorkerRec
    <2> HIDE DEF v
    <2>4. InPlace(v)
      BY <1>1, <1>2, <1>3, <1>4, <2>3 DEF InPlace, BusyAts
    <2>5. /\ Moves(w, v) /\ v.at # "dead" /\ worker[w].at # "dead"
      BY <1>1, <2>1, <2>3, MovesTo
    <2>6. /\ job' \in [Jobs -> JobRec] /\ job'[j] = new
          /\ \A i \in Jobs : i # j => job'[i] = job[i]
          /\ \A i \in Jobs : Sane(i, job'[i])
      BY <2>1, <2>2, JobWrite
    <2>7. ASSUME NEW i \in Recurring PROVE RecurringEffect(w, v, i)
      <3>1. i \in DOMAIN v.seen => i \in DOMAIN worker[w].seen /\ v.seen[i] = worker[w].seen[i]
        BY <1>3, <2>3
      <3>2. CASE i = j
        BY <1>4, <1>6, <2>2, <2>3, <2>6, <3>1, <3>2 DEF RecurringEffect
      <3>3. CASE i # j
        BY <1>4, <1>6, <2>3, <2>6, <3>1, <3>3 DEF RecurringEffect, Holds
      <3>4. QED BY <3>2, <3>3
    <2>8. ASSUME NEW i \in OneShots PROVE OneShotEffect(w, v, i)
      <3>1. CASE i = j
        BY <1>1, <1>4, <1>5, <1>6, <2>2, <2>3, <2>6, <3>1 DEF OneShotEffect, Claimed, Holds
      <3>2. CASE i # j
        <4>1. /\ ran'[i] = ran[i] /\ job'[i].status = job[i].status
              /\ i \in DOMAIN v.claims <=> Holds(w, i)
          BY <1>1, <1>4, <1>6, <2>3, <2>6, <3>2 DEF Holds
        <4>2. MaySucceed(v, i) => MaySucceed(worker[w], i)
          BY <1>5, <4>1 DEF MaySucceed, Holds
        <4>3. QED BY <4>1, <4>2 DEF OneShotEffect, Kept
      <3>3. QED BY <3>1, <3>2
    <2>9. \A i \in Jobs : Settled(i) => job'[i].status = job[i].status
      <3>1. j \in Recurring \/ j \in OneShots
        BY DEF Jobs
      <3>2. QED BY <2>2, <2>6, <3>1 DEF Settled
    <2>10. ran' \in [OneShots -> Nat]
      BY <1>1 DEF TypeInv
    <2>11. Effect(w, v)
      BY <1>1, <2>4, <2>5, <2>6, <2>7, <2>8, <2>9, <2>10 DEF Effect
    <2>12. QED BY <2>11
  <1>9. QED BY <1>7, <1>8

\* The worker takes up a claimed job.
LEMMA BeginEffect ==
  ASSUME TypeInv, StageInv, NEW w \in Workers, NEW j \in Jobs, Begins(w, j),
         NEW at \in {"revert", "working"},
         worker' = [worker EXCEPT ![w].at = at, ![w].job = j],
         job' \in [Jobs -> JobRec],
         \A i \in Jobs : Sane(i, job'[i]) /\ job'[i].status = job[i].status,
         open' \subseteq Sources \X Jobs,
         UNCHANGED << daemon, quiesced, ran, faults >>
  PROVE  \E v : Effect(w, v)
  <1> DEFINE v == [worker[w] EXCEPT !.at = at, !.job = j]
  <1>1. /\ worker[w] \in WorkerRec /\ worker[w].at = "oneshot" /\ worker[w].seen = << >>
        /\ j \in DOMAIN worker[w].claims
    BY DEF TypeInv, Begins, InLoop, Foremost
  <1>2. DOMAIN worker[w].seen = {}
    BY <1>1, NoTable
  <1>3. /\ v \in WorkerRec /\ v.at = at /\ v.seen = worker[w].seen
        /\ v.claims = worker[w].claims /\ v.job = j
    BY <1>1 DEF WorkerRec, BusyAts
  <1>4. worker' = [worker EXCEPT ![w] = v]
    OBVIOUS
  <1> HIDE DEF v
  <1>5. Moves(w, v)
    BY <1>3, <1>4, MovesTo
  <1>6. InPlace(v) /\ v.at # "dead" /\ worker[w].at # "dead"
    BY <1>1, <1>2, <1>3 DEF InPlace, BusyAts
  <1>7. \A i \in OneShots : MaySucceed(v, i) => MaySucceed(worker[w], i)
    BY <1>1, <1>3 DEF MaySucceed, Won
  <1>8. Effect(w, v)
    BY <1>2, <1>3, <1>5, <1>6, <1>7, KeepEffect
  <1>9. QED BY <1>8

LEMMA DeferEffect ==
  ASSUME TypeInv, StageInv, NEW w \in Workers, NEW j \in Jobs, Defer(w, j)
  PROVE  \E v : Effect(w, v)
  <1>1. /\ Begins(w, j) /\ worker' = [worker EXCEPT ![w].at = "revert", ![w].job = j]
        /\ job' = [job EXCEPT ![j] = Requeue(j, job[j])]
        /\ open' \subseteq Sources \X Jobs /\ UNCHANGED << daemon, quiesced, ran, faults >>
    BY DEF Defer, TypeInv, ghosts
  <1>2. Sane(j, Requeue(j, job[j])) /\ Requeue(j, job[j]).status = job[j].status
    BY RequeueFacts
  <1>3. /\ job' \in [Jobs -> JobRec]
        /\ \A i \in Jobs : Sane(i, job'[i]) /\ job'[i].status = job[i].status
    BY <1>1, <1>2, JobWrite
  <1>4. QED BY <1>1, <1>3, BeginEffect

LEMMA StartEffect ==
  ASSUME TypeInv, StageInv, NEW w \in Workers, NEW j \in Jobs, Start(w, j)
  PROVE  \E v : Effect(w, v)
  <1>1. /\ Begins(w, j) /\ worker' = [worker EXCEPT ![w].at = "working", ![w].job = j]
        /\ job' = job /\ open' \subseteq Sources \X Jobs
        /\ UNCHANGED << daemon, quiesced, ran, faults >>
    BY DEF Start, TypeInv, ghosts, Sources
  <1>2. QED BY <1>1, SaneSelf, BeginEffect

LEMMA SucceedEffect ==
  ASSUME TypeInv, StageInv, NEW w \in Workers, Succeed(w)
  PROVE  \E v : Effect(w, v)
  <1> DEFINE j == worker[w].job
  <1>1. /\ worker[w].at = "working" /\ worker[w].at \in BusyAts
        /\ ran' = [i \in OneShots |-> IF i = j THEN ran[i] + 1 ELSE ran[i]]
        /\ Goto(w, "ok") \/ Goto(w, "won") \/ (j \in Recurring /\ Done(w))
        /\ job' = job /\ open' \subseteq Sources \X Jobs
        /\ UNCHANGED << daemon, quiesced, faults >>
    BY DEF Succeed, rows, BusyAts, TypeInv
  <1>2. /\ worker[w] \in WorkerRec /\ worker[w].at # "dead"
        /\ DOMAIN worker[w].seen = {} /\ j \in DOMAIN worker[w].claims /\ j \in Jobs
    BY <1>1, BusyFacts
  <1>3. OneShots \subseteq Jobs /\ Recurring \subseteq Jobs /\ OneShots \cap Recurring = {}
    BY SchedulerConstants DEF Jobs
  <1>4. /\ job' \in [Jobs -> JobRec]
        /\ \A i \in Jobs : Sane(i, job'[i]) /\ job'[i].status = job[i].status
    BY <1>1, SaneSelf
  <1>5. ran' \in [OneShots -> Nat] /\ (j \notin OneShots => ran' = ran)
    BY <1>1 DEF TypeInv
  <1> HIDE DEF j
  <1>6. CASE j \notin OneShots
    <2>1. ran' = ran
      BY <1>5, <1>6
    <2>2. CASE Done(w)
      BY <1>1, <1>4, <1>6, <2>1, <2>2, EndEffect DEF j
    <2>3. ASSUME NEW at \in {"ok", "won"}, Goto(w, at) PROVE \E v : Effect(w, v)
      <3>1. at \in BusyAts /\ at \in Won
        BY DEF BusyAts, Won
      <3>2. Goes(w, at, worker[w].count) /\ worker[w].count \in Nat
        BY <1>1, <2>3, GotoGoes, BusyFacts
      <3>3. QED BY <1>1, <1>4, <2>1, <3>1, <3>2, GotoEffect
    <2>4. QED BY <1>1, <2>2, <2>3
  <1>7. CASE j \in OneShots
    <2> PICK at \in {"ok", "won"} : Goto(w, at)
      BY <1>1, <1>3, <1>7
    <2> DEFINE v == [worker[w] EXCEPT !.at = at]
    <2>1. worker' = [worker EXCEPT ![w] = v]
      BY DEF Goto
    <2>2. /\ v \in WorkerRec /\ v.at \in {"ok", "won"} /\ v.seen = worker[w].seen
          /\ v.claims = worker[w].claims /\ v.job = j
      BY <1>2 DEF WorkerRec, BusyAts, j
    <2> HIDE DEF v
    <2>3. Moves(w, v)
      BY <2>1, <2>2, MovesTo
    <2>4. InPlace(v) /\ v.at # "dead"
      BY <1>2, <2>2 DEF InPlace, BusyAts
    <2>5. \A i \in Recurring : RecurringEffect(w, v, i)
      BY <1>2, <1>3, <1>4, <2>2 DEF RecurringEffect, Holds
    <2>6. ASSUME NEW i \in OneShots PROVE OneShotEffect(w, v, i)
      <3>1. job'[i].status = job[i].status
        BY <1>1
      <3>2. CASE i = j
        <4>1. MaySucceed(worker[w], i) /\ ~MaySucceed(v, i)
          BY <1>1, <1>2, <2>2, <3>2 DEF MaySucceed, Won
        <4>2. ran'[i] = ran[i] + 1
          BY <1>1, <3>2
        <4>3. Holds(w, i) /\ i \in DOMAIN v.claims
          BY <1>2, <2>2, <3>2 DEF Holds
        <4>4. QED BY <3>1, <4>1, <4>2, <4>3 DEF OneShotEffect, Succeeded
      <3>3. CASE i # j
        <4>1. ran'[i] = ran[i]
          BY <1>1, <3>3
        <4>2. MaySucceed(v, i) => MaySucceed(worker[w], i)
          BY <1>1, <2>2 DEF MaySucceed, Won
        <4>3. i \in DOMAIN v.claims <=> Holds(w, i)
          BY <2>2 DEF Holds
        <4>4. QED BY <3>1, <4>1, <4>2, <4>3 DEF OneShotEffect, Kept
      <3>4. QED BY <3>2, <3>3
    <2>7. \A i \in Jobs : Settled(i) => job'[i].status = job[i].status
      BY <1>4
    <2>8. Effect(w, v)
      BY <1>1, <1>2, <1>4, <1>5, <2>3, <2>4, <2>5, <2>6, <2>7 DEF Effect
    <2>9. QED BY <2>8
  <1>8. QED BY <1>6, <1>7

\* The worker writes its job's row and is done with it.
LEMMA WriteAndEnd ==
  ASSUME TypeInv, StageInv, NEW w \in Workers, worker[w].at \in BusyAts, Done(w),
         NEW new, Sane(worker[w].job, new), job' = [job EXCEPT ![worker[w].job] = new],
         \/ new.status = job[worker[w].job].status
         \/ job[worker[w].job].status = "firing",
         worker[w].job \in OneShots =>
            /\ new.status # "firing"
            /\ job[worker[w].job].status = "firing" /\ new.status = "active"
                 => worker[w].at \notin Won,
         open' = open, UNCHANGED << daemon, quiesced, ran, faults >>
  PROVE  \E v : Effect(w, v)
  <1>1. worker[w].job \in Jobs
    BY BusyFacts
  <1>2. /\ job' \in [Jobs -> JobRec] /\ job'[worker[w].job] = new
        /\ \A i \in Jobs : i # worker[w].job => job'[i] = job[i]
        /\ \A i \in Jobs : Sane(i, job'[i])
    BY <1>1, JobWrite
  <1>3. open' \subseteq Sources \X Jobs
    BY DEF TypeInv
  <1>4. QED BY <1>2, <1>3, EndEffect

\* The worker writes its job's row, keeps its status, and goes on with it.
LEMMA WriteAndGoto ==
  ASSUME TypeInv, StageInv, NEW w \in Workers, worker[w].at \in BusyAts,
         NEW at \in BusyAts, NEW n \in Nat, Goes(w, at, n), worker[w].at \in Won => at \in Won,
         NEW new, Sane(worker[w].job, new), job' = [job EXCEPT ![worker[w].job] = new],
         new.status = job[worker[w].job].status,
         open' = open, UNCHANGED << daemon, quiesced, ran, faults >>
  PROVE  \E v : Effect(w, v)
  <1>1. worker[w].job \in Jobs
    BY BusyFacts
  <1>2. /\ job' \in [Jobs -> JobRec] /\ job'[worker[w].job] = new
        /\ \A i \in Jobs : i # worker[w].job => job'[i] = job[i]
        /\ \A i \in Jobs : Sane(i, job'[i])
    BY <1>1, JobWrite
  <1>3. open' \subseteq Sources \X Jobs
    BY DEF TypeInv
  <1>4. QED BY <1>2, <1>3, GotoEffect

LEMMA OutcomeEffect ==
  ASSUME TypeInv, StageInv, NEW w \in Workers, FindBusy(w) \/ FindGone(w) \/ Fail(w)
  PROVE  \E v : Effect(w, v)
  <1> DEFINE j == worker[w].job
  <1>1. /\ worker[w].at = "working" /\ worker[w].at \in BusyAts
        /\ worker[w].at \notin Won /\ j \in Jobs /\ worker[w].count \in Nat
    <2>1. worker[w].at = "working"
      BY DEF FindBusy, FindGone, Fail
    <2>2. worker[w].at \in BusyAts /\ worker[w].at \notin Won
      BY <2>1 DEF BusyAts, Won
    <2>3. QED BY <2>1, <2>2, BusyFacts
  <1>2. /\ "complete" \in BusyAts /\ "failed" \in BusyAts /\ "lost" \in BusyAts
        /\ OneShots \cap Recurring = {} /\ (j \in OneShots \/ j \in Recurring)
    BY <1>1, SchedulerConstants DEF BusyAts, Jobs
  <1>3. CASE FindBusy(w)
    <2> DEFINE new == IF j \in Recurring THEN job[j]
                      ELSE IF worker[w].claims[j].retry >= WakeMaxRetries
                             THEN FailOneShotPermanently(job[j])
                             ELSE RetryOneShot(job[j])
    <2>1. /\ job' = [job EXCEPT ![j] = new] /\ Done(w) /\ open' = open
          /\ UNCHANGED << daemon, quiesced, ran, faults >>
      BY <1>3 DEF FindBusy
    <2>2. /\ Sane(j, new)
          /\ \/ j \in Recurring /\ new.status = job[j].status
             \/ new.status = Status(job[j], "cancelled")
             \/ new.status = Status(job[j], "active")
      <3>1. CASE j \in Recurring
        <4>1. new = job[j] /\ job[j] \in JobRec
          BY <1>1, <3>1 DEF TypeInv
        <4> HIDE DEF new
        <4>2. QED BY <3>1, <4>1 DEF Sane
      <3>2. CASE j \notin Recurring
        <4>1. new = FailOneShotPermanently(job[j]) \/ new = RetryOneShot(job[j])
          BY <3>2
        <4> HIDE DEF new
        <4>2. QED BY <1>1, <4>1, SettleFacts
      <3>3. QED BY <3>1, <3>2
    <2> HIDE DEF new
    <2>3. /\ new.status = job[j].status \/ job[j].status = "firing"
          /\ j \in OneShots => new.status # "firing"
      BY <1>2, <2>2 DEF Status
    <2>4. QED BY <1>1, <2>1, <2>2, <2>3, WriteAndEnd
  <1>4. CASE FindGone(w)
    <2>1. /\ IF j \in OneShots THEN Goto(w, "complete") ELSE Done(w)
          /\ job' = job /\ open' \subseteq Sources \X Jobs
          /\ UNCHANGED << daemon, quiesced, ran, faults >>
      BY <1>4 DEF FindGone, rows, ghosts, TypeInv
    <2>2. CASE j \in OneShots
      <3>1. Goes(w, "complete", worker[w].count)
        BY <2>1, <2>2, GotoGoes
      <3>2. QED BY <1>1, <1>2, <2>1, <3>1, SaneSelf, GotoEffect
    <2>3. CASE j \notin OneShots
      BY <1>1, <2>1, <2>3, SaneSelf, EndEffect
    <2>4. QED BY <2>2, <2>3
  <1>5. CASE Fail(w)
    <2>1. /\ Goto(w, "failed") \/ Goto(w, "lost")
          /\ job' = job /\ open' \subseteq Sources \X Jobs
          /\ UNCHANGED << daemon, quiesced, ran, faults >>
      BY <1>5 DEF Fail, rows, TypeInv
    <2>2. Goes(w, "failed", worker[w].count) \/ Goes(w, "lost", worker[w].count)
      BY <2>1, GotoGoes
    <2>3. QED BY <1>1, <1>2, <2>1, <2>2, SaneSelf, GotoEffect
  <1>6. QED BY <1>3, <1>4, <1>5

LEMMA CloseEffect ==
  ASSUME TypeInv, StageInv, NEW w \in Workers,
         OpenRun(w) \/ CloseRun(w) \/ Count(w) \/ Charge(w)
  PROVE  \E v : Effect(w, v)
  <1> DEFINE j == worker[w].job
  <1>1. worker[w].at \in BusyAts /\ j \in Jobs /\ worker[w].count \in Nat
    <2>1. worker[w].at \in BusyAts
      BY DEF OpenRun, CloseRun, Count, Charge, BusyAts
    <2>2. QED BY <2>1, BusyFacts
  <1>2. ASSUME NEW at \in BusyAts, Goto(w, at), worker[w].at \in Won => at \in Won, job' = job,
               open' \subseteq Sources \X Jobs, UNCHANGED << daemon, quiesced, ran, faults >>
        PROVE  \E v : Effect(w, v)
    <2>1. Goes(w, at, worker[w].count)
      BY <1>2, GotoGoes
    <2>2. QED BY <1>1, <1>2, <2>1, SaneSelf, GotoEffect
  <1>4. CASE OpenRun(w)
    <2> DEFINE at == IF worker[w].at = "won" THEN "ok" ELSE "failed"
    <2>1. /\ Goto(w, at) /\ at \in BusyAts /\ (worker[w].at \in Won => at \in Won)
      BY <1>4 DEF OpenRun, BusyAts, Won
    <2>2. /\ job' = job /\ open' = open \cup {<< w, j >>}
          /\ UNCHANGED << daemon, quiesced, ran, faults >>
      BY <1>4 DEF OpenRun, ghosts
    <2> HIDE DEF at
    <2>3. open' \subseteq Sources \X Jobs
      BY <1>1, <2>2 DEF Sources, TypeInv
    <2>4. QED BY <1>2, <2>1, <2>2, <2>3
  <1>5. CASE CloseRun(w)
    <2> DEFINE at == IF worker[w].at = "ok" THEN "charge-ok" ELSE "count"
    <2>1. /\ Goto(w, at) /\ at \in BusyAts /\ (worker[w].at \in Won => at \in Won)
      BY <1>5 DEF CloseRun, BusyAts, Won
    <2>2. /\ job' = job /\ open' \subseteq Sources \X Jobs
          /\ UNCHANGED << daemon, quiesced, ran, faults >>
      BY <1>5 DEF CloseRun, ghosts, TypeInv
    <2> HIDE DEF at
    <2>3. QED BY <1>2, <2>1, <2>2
  <1>6. CASE Count(w)
    <2>1. /\ worker' = [worker EXCEPT ![w].at = "charge", ![w].count = job[j].retry]
          /\ job' = job /\ open' \subseteq Sources \X Jobs
          /\ UNCHANGED << daemon, quiesced, ran, faults >>
          /\ "charge" \in BusyAts /\ worker[w].at \notin Won
      BY <1>6 DEF Count, rows, ghosts, TypeInv, BusyAts, Won
    <2>2. job[j].retry \in Nat
      BY <1>1, JobFields DEF TypeInv
    <2>3. Goes(w, "charge", job[j].retry)
      BY <2>1, CountGoes
    <2>4. QED BY <1>1, <2>1, <2>2, <2>3, SaneSelf, GotoEffect
  <1>3. CASE Charge(w)
    <2> DEFINE ok == worker[w].at = "charge-ok"
               new == ChargeRetry(job[j], ok, worker[w].count)
    <2>1. /\ job' = [job EXCEPT ![j] = new] /\ open' = open
          /\ UNCHANGED << daemon, quiesced, ran, faults >>
      BY <1>3 DEF Charge, ghosts
    <2>2. (CASE ~ok -> worker' = [worker EXCEPT ![w].at = "decide", ![w].count = 0]
             [] ok /\ j \in OneShots -> Goto(w, "complete")
             [] OTHER -> Done(w))
      BY <1>3 DEF Charge
    <2>3. /\ worker[w].at \in {"charge-ok", "charge"} /\ ok \in BOOLEAN
          /\ "decide" \in BusyAts /\ "complete" \in BusyAts
      BY <1>3 DEF Charge, BusyAts
    <2>4. Sane(j, new) /\ new.status = job[j].status
      BY <1>1, <2>3, ChargeFacts
    <2> HIDE DEF new
    <2>5. CASE ~ok
      <3>1. Goes(w, "decide", 0) /\ worker[w].at \notin Won /\ 0 \in Nat
        <4>1. worker' = [worker EXCEPT ![w].at = "decide", ![w].count = 0]
          BY <2>2, <2>5
        <4>2. Goes(w, "decide", 0)
          BY <4>1, CountGoes
        <4>3. QED BY <2>3, <2>5, <4>2 DEF Won
      <3>2. QED BY <1>1, <2>1, <2>3, <2>4, <3>1, WriteAndGoto
    <2>6. CASE ok /\ j \in OneShots
      <3>1. Goes(w, "complete", worker[w].count) /\ "complete" \in Won
        BY <2>2, <2>6, GotoGoes DEF Won
      <3>2. QED BY <1>1, <2>1, <2>3, <2>4, <3>1, WriteAndGoto
    <2>7. CASE ok /\ j \notin OneShots
      <3>1. Done(w)
        BY <2>2, <2>7
      <3>2. QED BY <1>1, <2>1, <2>4, <2>7, <3>1, WriteAndEnd
    <2>8. QED BY <2>5, <2>6, <2>7
  <1>7. QED BY <1>3, <1>4, <1>5, <1>6

LEMMA SettleEffect ==
  ASSUME TypeInv, StageInv, NEW w \in Workers, Complete(w) \/ Decide(w) \/ Revert(w)
  PROVE  \E v : Effect(w, v)
  <1> DEFINE j == worker[w].job
             retry == worker[w].claims[j].retry
  <1>1. worker[w].at \in BusyAts /\ j \in Jobs /\ retry \in Nat
    <2>1. worker[w].at \in BusyAts
      BY DEF Complete, Decide, Revert, BusyAts
    <2>2. QED BY <2>1, BusyFacts
  <1>2. CASE Complete(w)
    <2>1. /\ job' = [job EXCEPT ![j] = CompleteOneShot(job[j])] /\ Done(w) /\ open' = open
          /\ UNCHANGED << daemon, quiesced, ran, faults >>
      BY <1>2 DEF Complete, ghosts
    <2>2. Sane(j, CompleteOneShot(job[j])) /\ CompleteOneShot(job[j]).status = Status(job[j], "fired")
      BY <1>1, SettleFacts
    <2>3. QED BY <1>1, <2>1, <2>2, WriteAndEnd DEF Status
  <1>3. CASE Revert(w)
    <2>1. /\ job' = [job EXCEPT ![j] = RevertStatus(job[j])] /\ Done(w) /\ open' = open
          /\ UNCHANGED << daemon, quiesced, ran, faults >> /\ worker[w].at \notin Won
      BY <1>3 DEF Revert, ghosts, Won
    <2>2. Sane(j, RevertStatus(job[j])) /\ RevertStatus(job[j]).status = Status(job[j], "active")
      BY <1>1, SettleFacts
    <2>3. QED BY <1>1, <2>1, <2>2, WriteAndEnd DEF Status
  <1>4. CASE Decide(w)
    <2> DEFINE new == ApplyRetryDecision(j, job[j], retry)
    <2>1. /\ job' = [job EXCEPT ![j] = new] /\ open' = open
          /\ UNCHANGED << daemon, quiesced, ran, faults >>
          /\ IF DecideRetry(retry) THEN Goto(w, "revert") ELSE Done(w)
          /\ worker[w].at \notin Won /\ "revert" \in BusyAts
      BY <1>4 DEF Decide, ghosts, Won, BusyAts
    <2>2. /\ Sane(j, new)
          /\ DecideRetry(retry) => new.status = job[j].status
          /\ ~DecideRetry(retry) /\ j \in OneShots => new.status = Status(job[j], "cancelled")
          /\ j \in Recurring => new.status = job[j].status
      BY <1>1, ApplyFacts
    <2> HIDE DEF new
    <2>3. CASE DecideRetry(retry)
      <3>1. Goes(w, "revert", worker[w].count) /\ worker[w].count \in Nat
        BY <1>1, <2>1, <2>3, GotoGoes, BusyFacts
      <3>2. QED BY <1>1, <2>1, <2>2, <2>3, <3>1, WriteAndGoto
    <2>4. CASE ~DecideRetry(retry)
      <3>1. j \in OneShots \/ j \in Recurring
        BY <1>1 DEF Jobs
      <3>2. /\ new.status = job[j].status \/ job[j].status = "firing"
            /\ j \in OneShots => new.status # "firing"
        BY <2>2, <2>4, <3>1 DEF Status
      <3>3. QED BY <1>1, <2>1, <2>2, <2>4, <3>2, WriteAndEnd
    <2>5. QED BY <2>3, <2>4
  <1>5. QED BY <1>2, <1>3, <1>4

\* Every step a worker takes has such an effect.
LEMMA WorkerEffect ==
  ASSUME TypeInv, StageInv, StampInv, NEW w \in Workers,
         WorkerStep(w) \/ Outcome(w) \/ ToolsReady(w) \/ ToolsReload(w)
  PROVE  \E v : Effect(w, v)
  <1>1. CASE WorkerStep(w)
    <2>1. CASE \E j \in Jobs : Claim(w, j) \/ Defer(w, j) \/ Start(w, j)
      BY <2>1, ClaimEffect, DeferEffect, StartEffect
    <2>2. QED BY <1>1, <2>1, TickEffect, CloseEffect, SettleEffect DEF WorkerStep
  <1>2. CASE Outcome(w)
    BY <1>2, SucceedEffect, OutcomeEffect DEF Outcome
  <1>3. QED BY <1>1, <1>2, TickEffect

-----------------------------------------------------------------------------
(* Such a step preserves the invariant.                                    *)

LEMMA EffectType ==
  ASSUME TypeInv, StageInv, NEW w \in Workers, NEW v, Effect(w, v)
  PROVE  TypeInv' /\ StageInv'
  <1>1. TypeInv'
    BY DEF Effect, Moves, TypeInv
  <1>2. \A x \in Workers : InPlace(worker'[x])
    BY DEF Effect, Moves, StageInv
  <1>3. QED BY <1>1, <1>2 DEF Effect, StageInv, Mending, InPlace

LEMMA EffectStamp ==
  ASSUME TypeInv, StageInv, StampInv, NEW w \in Workers, NEW v, Effect(w, v)
  PROVE  StampInv'
  <1> SUFFICES ASSUME NEW j \in Recurring
               PROVE  /\ job'[j].enabled => job'[j].next # 0
                      /\ \A x \in Workers :
                           /\ j \in DOMAIN worker'[x].seen => worker'[x].seen[j].next # 0
                           /\ j \in DOMAIN worker'[x].claims =>
                                /\ worker'[x].claims[j].next # 0
                                /\ worker'[x].claims[j].next # job'[j].next
                      /\ \A x, y \in Workers :
                           x # y /\ j \in DOMAIN worker'[x].claims /\ j \in DOMAIN worker'[y].claims
                             => worker'[x].claims[j].next # worker'[y].claims[j].next
    BY DEF StampInv, Holds
  <1>1. j \in Jobs
    BY DEF Jobs
  <1>2. /\ FreshStamp(j) # 0
        /\ \A x \in Workers : Holds(x, j) => FreshStamp(j) # worker[x].claims[j].next
    BY <1>1, FreshFacts
  <1>3. RecurringEffect(w, v, j) /\ Sane(j, job'[j]) /\ Moves(w, v)
    BY DEF Effect, RecurringEffect
  <1>4. /\ job[j].enabled => job[j].next # 0
        /\ \A x \in Workers : /\ j \in DOMAIN worker[x].seen => worker[x].seen[j].next # 0
                              /\ Holds(x, j) => /\ worker[x].claims[j].next # 0
                                                /\ worker[x].claims[j].next # job[j].next
        /\ \A x, y \in Workers :
             x # y /\ Holds(x, j) /\ Holds(y, j)
               => worker[x].claims[j].next # worker[y].claims[j].next
    BY DEF StampInv
  <1>5. \/ job'[j].next = job[j].next /\ (job'[j].enabled => job[j].enabled)
        \/ job'[j].next = FreshStamp(j)
        \/ job'[j].next = 0 /\ ~job'[j].enabled
    BY <1>3 DEF Sane
  <1>6. job'[j].enabled => job'[j].next # 0
    BY <1>2, <1>4, <1>5
  <1>7. worker'[w] = v /\ \A x \in Workers : x # w => worker'[x] = worker[x]
    BY <1>3 DEF Moves
  <1>8. ASSUME NEW x \in Workers
        PROVE  j \in DOMAIN worker'[x].seen => worker'[x].seen[j].next # 0
    <2>1. CASE x = w
      BY <1>3, <1>4, <1>7, <2>1 DEF RecurringEffect
    <2>2. CASE x # w
      BY <1>4, <1>7, <2>2
    <2>3. QED BY <2>1, <2>2
  <1>9. \A x \in Workers : Holds(x, j) =>
          worker[x].claims[j].next # 0 /\ worker[x].claims[j].next # job'[j].next
    BY <1>2, <1>4, <1>5
  <1>10. j \in DOMAIN v.claims =>
           \/ Holds(w, j) /\ v.claims[j] = worker[w].claims[j]
           \/ /\ v.claims[j].next = job[j].next /\ job[j].next # 0
              /\ job'[j].next # job[j].next
    BY <1>3 DEF RecurringEffect
  <1>11. ASSUME NEW x \in Workers, j \in DOMAIN worker'[x].claims
         PROVE  worker'[x].claims[j].next # 0 /\ worker'[x].claims[j].next # job'[j].next
    <2>1. CASE x = w
      BY <1>7, <1>9, <1>10, <1>11, <2>1
    <2>2. CASE x # w
      BY <1>7, <1>9, <1>11, <2>2 DEF Holds
    <2>3. QED BY <2>1, <2>2
  <1>12. ASSUME NEW x \in Workers, x # w, j \in DOMAIN v.claims, Holds(x, j)
         PROVE  v.claims[j].next # worker[x].claims[j].next
    BY <1>4, <1>10, <1>12
  <1>13. ASSUME NEW x \in Workers, NEW y \in Workers, x # y,
                j \in DOMAIN worker'[x].claims, j \in DOMAIN worker'[y].claims
         PROVE  worker'[x].claims[j].next # worker'[y].claims[j].next
    <2>1. CASE x = w
      BY <1>7, <1>12, <1>13, <2>1 DEF Holds
    <2>2. CASE y = w
      BY <1>7, <1>12, <1>13, <2>2 DEF Holds
    <2>3. CASE x # w /\ y # w
      BY <1>4, <1>7, <1>13, <2>3 DEF Holds
    <2>4. QED BY <2>1, <2>2, <2>3
  <1>14. QED BY <1>6, <1>8, <1>11, <1>13

LEMMA EffectOnce ==
  ASSUME TypeInv, StageInv, OnceInv, NEW w \in Workers, NEW v, Effect(w, v)
  PROVE  OnceInv'
  <1> SUFFICES ASSUME NEW j \in OneShots, faults[j] = 0
               PROVE  /\ \A x \in Workers : j \in DOMAIN worker'[x].claims => job'[j].status = "firing"
                      /\ \A x, y \in Workers : x # y =>
                           ~(j \in DOMAIN worker'[x].claims /\ j \in DOMAIN worker'[y].claims)
                      /\ (\E x \in Workers : worker'[x].at # "dead") =>
                           Entries(j) = {} /\ ~(Mending /\ daemon.job = j)
    <2>1. faults' = faults /\ daemon' = daemon
      BY DEF Effect
    <2>2. QED BY <2>1 DEF OnceInv, Holds, Alive, Entries, Mending
  <1>1. /\ \A x \in Workers : Holds(x, j) => job[j].status = "firing"
        /\ \A x, y \in Workers : x # y => ~(Holds(x, j) /\ Holds(y, j))
        /\ (\E x \in Workers : Alive(x)) => Entries(j) = {} /\ ~(Mending /\ daemon.job = j)
    BY DEF OnceInv
  <1>2. worker'[w] = v /\ \A x \in Workers : x # w => worker'[x] = worker[x]
    BY DEF Effect, Moves
  <1>3. OneShotEffect(w, v, j) /\ Alive(w)
    BY DEF Effect, Alive
  <1>4. \A x \in Workers : x # w => (j \in DOMAIN worker'[x].claims <=> Holds(x, j))
    BY <1>2 DEF Holds
  <1>5. /\ \A x \in Workers : j \in DOMAIN worker'[x].claims => job'[j].status = "firing"
        /\ \A x, y \in Workers : x # y =>
             ~(j \in DOMAIN worker'[x].claims /\ j \in DOMAIN worker'[y].claims)
    <2>1. CASE Kept(w, v, j) \/ Succeeded(w, v, j)
      <3>1. job'[j].status = job[j].status /\ (j \in DOMAIN v.claims <=> Holds(w, j))
        BY <2>1 DEF Kept, Succeeded
      <3>2. \A x \in Workers : j \in DOMAIN worker'[x].claims <=> Holds(x, j)
        BY <1>2, <1>4, <3>1
      <3>3. QED BY <1>1, <3>1, <3>2
    <2>2. CASE Claimed(w, v, j)
      <3>1. job[j].status = "active" /\ job'[j].status = "firing"
        BY <2>2 DEF Claimed
      <3>2. \A x \in Workers : ~Holds(x, j)
        BY <1>1, <3>1
      <3>3. QED BY <1>4, <3>1, <3>2
    <2>3. CASE Ended(w, v, j)
      <3>1. Holds(w, j) /\ j \notin DOMAIN v.claims
        BY <2>3 DEF Ended
      <3>2. \A x \in Workers : j \notin DOMAIN worker'[x].claims
        BY <1>1, <1>2, <1>4, <3>1
      <3>3. QED BY <3>2
    <2>4. QED BY <1>3, <2>1, <2>2, <2>3 DEF OneShotEffect
  <1>6. QED BY <1>1, <1>3, <1>5

LEMMA YetFinite ==
  ASSUME NEW j
  PROVE  IsFiniteSet(Yet(j)) /\ Cardinality(Yet(j)) \in Nat
  BY SchedulerConstants, FS_Subset, FS_CardinalityType DEF Yet

\* One worker's move changes what may still succeed by that worker only.
LEMMA YetMoves ==
  ASSUME NEW w \in Workers, NEW v, Moves(w, v), NEW j
  PROVE  /\ Cardinality(Yet(j)) \in Nat /\ Cardinality(Yet(j)') \in Nat
         /\ Cardinality(Yet(j)') <= Cardinality(Yet(j)) + 1
         /\ (MaySucceed(v, j) => MaySucceed(worker[w], j))
              => Cardinality(Yet(j)') <= Cardinality(Yet(j))
         /\ MaySucceed(worker[w], j) /\ ~MaySucceed(v, j)
              => Cardinality(Yet(j)') + 1 <= Cardinality(Yet(j))
  <1> DEFINE old == Yet(j)
             new == {x \in Workers : MaySucceed(worker'[x], j)}
  <1>1. Yet(j)' = new
    BY DEF Yet, MaySucceed
  <1>2. /\ new \subseteq old \cup {w}
        /\ (MaySucceed(v, j) => MaySucceed(worker[w], j)) => new \subseteq old
        /\ MaySucceed(worker[w], j) /\ ~MaySucceed(v, j) => w \in old /\ new \subseteq old \ {w}
    BY DEF Moves, Yet
  <1>3. IsFiniteSet(old) /\ Cardinality(old) \in Nat
    BY YetFinite
  <1>4. IsFiniteSet(new) /\ Cardinality(new) \in Nat
    BY SchedulerConstants, FS_Subset, FS_CardinalityType
  <1> HIDE DEF old, new
  <1>5. /\ IsFiniteSet(old \cup {w}) /\ Cardinality(old \cup {w}) \in Nat
        /\ Cardinality(old \cup {w}) <= Cardinality(old) + 1
    <2>1. CASE w \in old
      <3>1. old \cup {w} = old
        BY <2>1
      <3>2. QED BY <1>3, <3>1
    <2>2. CASE w \notin old
      <3>1. IsFiniteSet(old \cup {w}) /\ Cardinality(old \cup {w}) = Cardinality(old) + 1
        BY <1>3, <2>2, FS_AddElement
      <3>2. QED BY <1>3, <3>1
    <2>3. QED BY <2>1, <2>2
  <1>6. /\ IsFiniteSet(old \ {w}) /\ Cardinality(old \ {w}) \in Nat
        /\ w \in old => Cardinality(old \ {w}) = Cardinality(old) - 1
    BY <1>3, FS_RemoveElement, FS_CardinalityType
  <1>7. Cardinality(new) <= Cardinality(old) + 1
    <2>1. Cardinality(new) <= Cardinality(old \cup {w})
      BY <1>2, <1>5, FS_Subset
    <2>2. QED BY <1>3, <1>4, <1>5, <2>1
  <1>8. (MaySucceed(v, j) => MaySucceed(worker[w], j)) => Cardinality(new) <= Cardinality(old)
    BY <1>2, <1>3, FS_Subset
  <1>9. MaySucceed(worker[w], j) /\ ~MaySucceed(v, j) => Cardinality(new) + 1 <= Cardinality(old)
    <2>1. ASSUME MaySucceed(worker[w], j), ~MaySucceed(v, j)
          PROVE  Cardinality(new) <= Cardinality(old \ {w}) /\ w \in old
      BY <1>2, <1>6, <2>1, FS_Subset
    <2>2. QED BY <1>3, <1>4, <1>6, <2>1
  <1>10. QED BY <1>1, <1>3, <1>4, <1>7, <1>8, <1>9 DEF old

\* What a recovery owes is a number.
LEMMA PendingNat ==
  ASSUME TypeInv, NEW j
  PROVE  /\ IsFiniteSet(Entries(j)) /\ Cardinality(Entries(j)) \in Nat
         /\ Pending(j) \in Nat
  <1>1. daemon.todo \subseteq Sources \X Jobs
    BY DEF TypeInv, DaemonRec
  <1>2. IsFiniteSet(Sources)
    BY SchedulerConstants, FS_AddElement DEF Sources
  <1>3. IsFiniteSet({j})
    BY FS_Singleton
  <1>4. IsFiniteSet(Sources \X {j})
    BY <1>2, <1>3, FS_Product
  <1>5. Entries(j) \subseteq Sources \X {j}
    BY <1>1 DEF Entries
  <1>6. IsFiniteSet(Entries(j)) /\ Cardinality(Entries(j)) \in Nat
    BY <1>4, <1>5, FS_Subset, FS_CardinalityType
  <1>7. QED BY <1>6 DEF Pending, One

LEMMA EffectCount ==
  ASSUME TypeInv, StageInv, CountInv, NEW w \in Workers, NEW v, Effect(w, v)
  PROVE  CountInv'
  <1> SUFFICES ASSUME NEW j \in OneShots
               PROVE  ran'[j] + Cardinality(Yet(j)') + One(Claimable(j)') + Pending(j)'
                        <= 1 + faults'[j]
    BY DEF CountInv, One
  <1>1. /\ Moves(w, v) /\ OneShotEffect(w, v, j) /\ worker[w].at # "dead" /\ v.at # "dead"
        /\ daemon' = daemon /\ faults' = faults
    BY DEF Effect
  <1>2. worker'[w] = v /\ \A x \in Workers : x # w => worker'[x] = worker[x]
    BY <1>1 DEF Moves
  <1>3. Pending(j)' = Pending(j) /\ Pending(j) \in Nat
    <2>1. (\E x \in Workers : Alive(x)) /\ (\E x \in Workers : Alive(x))'
      BY <1>1, <1>2 DEF Alive
    <2>2. QED BY <1>1, <2>1, PendingNat DEF Pending, Entries, Mending, One
  <1>4. /\ ran[j] \in Nat /\ ran'[j] \in Nat /\ faults[j] \in Nat
        /\ ran[j] + Cardinality(Yet(j)) + One(Claimable(j)) + Pending(j) <= 1 + faults[j]
    BY DEF TypeInv, Effect, Jobs, CountInv
  <1>5. /\ Cardinality(Yet(j)) \in Nat /\ Cardinality(Yet(j)') \in Nat
        /\ Cardinality(Yet(j)') <= Cardinality(Yet(j)) + 1
        /\ (MaySucceed(v, j) => MaySucceed(worker[w], j))
             => Cardinality(Yet(j)') <= Cardinality(Yet(j))
        /\ MaySucceed(worker[w], j) /\ ~MaySucceed(v, j)
             => Cardinality(Yet(j)') + 1 <= Cardinality(Yet(j))
    BY <1>1, YetMoves
  <1>6. ASSUME job'[j].status = job[j].status, j \in DOMAIN v.claims <=> Holds(w, j)
        PROVE  Claimable(j)' <=> Claimable(j)
    <2>1. \A x \in Workers : j \in DOMAIN worker'[x].claims <=> Holds(x, j)
      BY <1>2, <1>6 DEF Holds
    <2>2. QED BY <1>6, <2>1 DEF Claimable, Holds
  <1>7. /\ One(Claimable(j)) \in {0, 1} /\ One(Claimable(j)') \in {0, 1}
        /\ Claimable(j) => One(Claimable(j)) = 1
        /\ ~Claimable(j)' => One(Claimable(j)') = 0
        /\ (Claimable(j)' <=> Claimable(j)) => One(Claimable(j)') = One(Claimable(j))
    BY DEF One
  <1>8. CASE Kept(w, v, j)
    BY <1>1, <1>3, <1>4, <1>5, <1>6, <1>7, <1>8 DEF Kept
  <1>9. CASE Claimed(w, v, j)
    <2>1. ran'[j] = ran[j] /\ Claimable(j) /\ ~Claimable(j)'
      BY <1>2, <1>9 DEF Claimed, Claimable, Holds
    <2>2. One(Claimable(j)) = 1 /\ One(Claimable(j)') = 0
      BY <1>7, <2>1
    <2>3. /\ ran[j] \in Nat /\ ran'[j] = ran[j]
          /\ Cardinality(Yet(j)) \in Nat /\ Cardinality(Yet(j)') \in Nat
          /\ Cardinality(Yet(j)') <= Cardinality(Yet(j)) + 1
      BY <1>4, <1>5, <2>1
    <2>4. ran'[j] + Cardinality(Yet(j)') <= ran[j] + Cardinality(Yet(j)) + 1
      BY <2>3
    <2>5. QED BY <1>1, <1>3, <1>4, <2>2, <2>3, <2>4
  <1>10. CASE Succeeded(w, v, j)
    <2>1. /\ ran'[j] = ran[j] + 1 /\ (Claimable(j)' <=> Claimable(j))
          /\ Cardinality(Yet(j)') + 1 <= Cardinality(Yet(j))
      BY <1>5, <1>6, <1>10 DEF Succeeded
    <2>2. QED BY <1>1, <1>3, <1>4, <1>5, <1>7, <2>1
  <1>11. CASE Ended(w, v, j)
    <2>1. ran'[j] = ran[j] /\ ~MaySucceed(v, j) /\ job'[j].status # "firing"
      BY <1>11 DEF Ended, MaySucceed
    <2>2. Cardinality(Yet(j)') <= Cardinality(Yet(j))
      BY <1>5, <2>1
    <2>3. CASE job'[j].status = job[j].status
      <3>1. Claimable(j)' => Claimable(j)
        BY <2>1, <2>3 DEF Claimable
      <3>2. QED BY <1>1, <1>3, <1>4, <1>5, <1>7, <2>1, <2>2, <3>1
    <2>4. CASE job'[j].status # "active"
      <3>1. ~Claimable(j)'
        BY <2>1, <2>4 DEF Claimable
      <3>2. QED BY <1>1, <1>3, <1>4, <1>5, <1>7, <2>1, <2>2, <3>1
    <2>5. CASE job'[j].status # job[j].status /\ job'[j].status = "active"
      <3>1. MaySucceed(worker[w], j)
        BY <1>11, <2>5 DEF Ended
      <3>2. Cardinality(Yet(j)') + 1 <= Cardinality(Yet(j))
        BY <1>5, <2>1, <3>1
      <3>3. QED BY <1>1, <1>3, <1>4, <1>5, <1>7, <2>1, <3>2
    <2>6. QED BY <2>3, <2>4, <2>5
  <1>12. QED BY <1>1, <1>8, <1>9, <1>10, <1>11 DEF OneShotEffect

\* Every step a worker takes, and every report of its tools.
LEMMA WorkerInv ==
  ASSUME SchedulerInv, NEW w \in Workers,
         WorkerStep(w) \/ Outcome(w) \/ ToolsReady(w) \/ ToolsReload(w)
  PROVE  SchedulerInv'
  <1>1. TypeInv /\ StageInv /\ StampInv /\ OnceInv /\ CountInv
    BY DEF SchedulerInv
  <1>2. PICK v : Effect(w, v)
    BY <1>1, WorkerEffect
  <1>3. TypeInv' /\ StageInv' /\ StampInv' /\ OnceInv' /\ CountInv'
    BY <1>1, <1>2, EffectType, EffectStamp, EffectOnce, EffectCount
  <1>4. QED BY <1>3 DEF SchedulerInv

-----------------------------------------------------------------------------
(* Steps of the others: what they leave alone.                             *)

\* Rows are written and the workers are not.
LEMMA StampWrite ==
  ASSUME TypeInv, StageInv, StampInv, worker' = worker,
         \A i \in Jobs : Sane(i, job'[i])
  PROVE  StampInv'
  <1> SUFFICES ASSUME NEW j \in Recurring
               PROVE  /\ job'[j].enabled => job'[j].next # 0
                      /\ \A x \in Workers : Holds(x, j) => worker[x].claims[j].next # job'[j].next
    BY DEF StampInv, Holds
  <1>1. j \in Jobs
    BY DEF Jobs
  <1>2. /\ FreshStamp(j) # 0
        /\ \A x \in Workers : Holds(x, j) => FreshStamp(j) # worker[x].claims[j].next
    BY <1>1, FreshFacts
  <1>3. \/ job'[j].next = job[j].next /\ (job'[j].enabled => job[j].enabled)
        \/ job'[j].next = FreshStamp(j)
        \/ job'[j].next = 0 /\ ~job'[j].enabled
    BY <1>1 DEF Sane
  <1>4. /\ job[j].enabled => job[j].next # 0
        /\ \A x \in Workers : Holds(x, j) => /\ worker[x].claims[j].next # 0
                                             /\ worker[x].claims[j].next # job[j].next
    BY DEF StampInv
  <1>5. QED BY <1>2, <1>3, <1>4

\* No row is written, and a worker is as it was or has no rows and no claims.
LEMMA StampWorkers ==
  ASSUME StampInv, job' = job,
         \A x \in Workers : \/ worker'[x] = worker[x]
                            \/ DOMAIN worker'[x].seen = {} /\ DOMAIN worker'[x].claims = {}
  PROVE  StampInv'
  <1>1. \A j \in Recurring : \A x \in Workers :
          /\ j \in DOMAIN worker'[x].seen => worker'[x] = worker[x]
          /\ j \in DOMAIN worker'[x].claims => worker'[x] = worker[x]
    OBVIOUS
  <1>2. QED BY <1>1 DEF StampInv, Holds

\* The account of a one-shot that no step of a worker has touched.
LEMMA CountStep ==
  ASSUME TypeInv, TypeInv', CountInv, ran' = ran,
         \A j \in OneShots :
           Cardinality(Yet(j)') + One(Claimable(j)') + Pending(j)' + faults[j]
             <= Cardinality(Yet(j)) + One(Claimable(j)) + Pending(j) + faults'[j]
  PROVE  CountInv'
  <1> SUFFICES ASSUME NEW j \in OneShots
               PROVE  ran'[j] + Cardinality(Yet(j)') + One(Claimable(j)') + Pending(j)'
                        <= 1 + faults'[j]
    BY DEF CountInv, One
  <1>1. /\ ran[j] \in Nat /\ faults[j] \in Nat /\ faults'[j] \in Nat
    BY DEF TypeInv, Jobs
  <1>2. Cardinality(Yet(j)) \in Nat /\ Pending(j) \in Nat
    BY YetFinite, PendingNat
  <1>3. Cardinality(Yet(j)') \in Nat
    <2>1. IsFiniteSet(Yet(j)')
      BY SchedulerConstants, FS_Subset DEF Yet
    <2>2. QED BY <2>1, FS_CardinalityType
  <1>4. Pending(j)' \in Nat
    <2>1. Entries(j)' \subseteq Sources \X {j}
      BY DEF TypeInv, DaemonRec, Entries
    <2>2. IsFiniteSet(Sources) /\ IsFiniteSet({j})
      BY SchedulerConstants, FS_AddElement, FS_Singleton DEF Sources
    <2>3. IsFiniteSet(Entries(j)') /\ Cardinality(Entries(j)') \in Nat
      BY <2>1, <2>2, FS_Product, FS_Subset, FS_CardinalityType
    <2>4. QED BY <2>3 DEF Pending, One
  <1>5. One(Claimable(j)) \in {0, 1} /\ One(Claimable(j)') \in {0, 1}
    BY DEF One
  <1>6. ran[j] + Cardinality(Yet(j)) + One(Claimable(j)) + Pending(j) <= 1 + faults[j]
    BY DEF CountInv
  <1>7. QED BY <1>1, <1>2, <1>3, <1>4, <1>5, <1>6

\* What can be said of one-shots when the workers do not move.
LEMMA StillWorkers ==
  ASSUME worker' = worker, NEW j
  PROVE  /\ Yet(j)' = Yet(j) /\ Cardinality(Yet(j)) \in Nat
         /\ \A x \in Workers : Holds(x, j)' <=> Holds(x, j)
         /\ (\E x \in Workers : Alive(x))' <=> (\E x \in Workers : Alive(x))
         /\ daemon' = daemon => Pending(j)' = Pending(j)
  BY YetFinite DEF Yet, MaySucceed, Holds, Alive, Pending, Entries, Mending, One

\* A worker that holds something is alive.
LEMMA HolderLives ==
  ASSUME StageInv, NEW w \in Workers, NEW j, Holds(w, j)
  PROVE  Alive(w)
  BY DEF StageInv, InPlace, Holds, Alive

-----------------------------------------------------------------------------
(* The user and the clock.                                                 *)

\* The user or the clock writes a row; a status only goes from active to
\* cancelled.
LEMMA RowInv ==
  ASSUME SchedulerInv, NEW j \in Jobs, NEW new, Sane(j, new), job' = [job EXCEPT ![j] = new],
         \/ new.status = job[j].status
         \/ job[j].status = "active" /\ new.status = "cancelled",
         UNCHANGED << open, worker, daemon, quiesced, ran, faults >>
  PROVE  SchedulerInv'
  <1>1. TypeInv /\ StageInv /\ StampInv /\ OnceInv /\ CountInv
    BY DEF SchedulerInv
  <1>2. /\ job' \in [Jobs -> JobRec] /\ job'[j] = new
        /\ \A i \in Jobs : i # j => job'[i] = job[i]
        /\ \A i \in Jobs : Sane(i, job'[i])
    BY <1>1, JobWrite
  <1>3. TypeInv'
    BY <1>1, <1>2 DEF TypeInv
  <1>4. StageInv'
    BY <1>1 DEF StageInv, InPlace, Mending
  <1>5. StampInv'
    BY <1>1, <1>2, StampWrite
  <1>6. OneShots \subseteq Jobs
    BY DEF Jobs
  <1>7. OnceInv'
    BY <1>1, <1>2, <1>6 DEF OnceInv, Holds, Alive, Entries, Mending
  <1>8. ASSUME NEW i \in OneShots
        PROVE  Cardinality(Yet(i)') + One(Claimable(i)') + Pending(i)' + faults[i]
                 <= Cardinality(Yet(i)) + One(Claimable(i)) + Pending(i) + faults'[i]
    <2>1. /\ Yet(i)' = Yet(i) /\ Cardinality(Yet(i)) \in Nat
          /\ Pending(i)' = Pending(i) /\ Pending(i) \in Nat
          /\ faults'[i] = faults[i] /\ faults[i] \in Nat
      BY <1>1, <1>6, StillWorkers, PendingNat DEF TypeInv
    <2>2. Claimable(i)' => Claimable(i)
      BY <1>2, <1>6 DEF Claimable, Holds
    <2>3. One(Claimable(i)') <= One(Claimable(i)) /\ One(Claimable(i)) \in Int /\ One(Claimable(i)') \in Int
      BY <2>2 DEF One
    <2>4. QED BY <2>1, <2>3
  <1>9. CountInv'
    BY <1>1, <1>3, <1>8, CountStep
  <1>10. QED BY <1>3, <1>4, <1>5, <1>7, <1>9 DEF SchedulerInv

LEMMA UserInv ==
  ASSUME SchedulerInv, NEW j \in Jobs,
         \/ CancelSchedule(j) \/ Disable(j) \/ Enable(j) \/ TimePasses(j) \/ LastOccurrence(j)
  PROVE  SchedulerInv'
  <1>1. TypeInv /\ StageInv /\ job[j] \in JobRec /\ FreshStamp(j) \in Stamps
    BY FreshFacts DEF SchedulerInv, TypeInv
  <1>2. UNCHANGED << open, worker, daemon, quiesced, ran, faults >>
    BY DEF CancelSchedule, Disable, Enable, TimePasses, LastOccurrence, ghosts
  <1>3. CASE CancelSchedule(j)
    <2> DEFINE new == FromAnywhere(job[j], "cancelled", FALSE)
    <2>1. job' = [job EXCEPT ![j] = new] /\ job[j].status = "active" /\ j \notin Recurring
      BY <1>3, SchedulerConstants DEF CancelSchedule
    <2>2. new \in JobRec /\ new.status = "cancelled" /\ new.mode = job[j].mode
      BY <1>1 DEF FromAnywhere, JobRec, Statuses
    <2> HIDE DEF new
    <2>3. QED BY <1>2, <2>1, <2>2, RowInv DEF Sane
  <1>4. CASE Disable(j)
    <2> DEFINE new == IF j \in Recurring THEN [job[j] EXCEPT !.enabled = FALSE, !.next = 0, !.due = TRUE]
                                         ELSE [job[j] EXCEPT !.enabled = FALSE]
    <2>1. job' = [job EXCEPT ![j] = new]
      BY <1>4 DEF Disable
    <2>2. new \in JobRec /\ new.status = job[j].status /\ new.mode = job[j].mode
      BY <1>1 DEF JobRec
    <2>3. j \in Recurring => new.next = 0 /\ ~new.enabled
      BY <1>1 DEF JobRec
    <2> HIDE DEF new
    <2>4. QED BY <1>2, <2>1, <2>2, <2>3, RowInv DEF Sane
  <1>5. CASE Enable(j)
    <2> DEFINE new == IF j \in Recurring THEN [Later(j, job[j]) EXCEPT !.enabled = TRUE]
                                         ELSE [job[j] EXCEPT !.enabled = TRUE]
    <2>1. job' = [job EXCEPT ![j] = new]
      BY <1>5 DEF Enable
    <2>2. new \in JobRec /\ new.status = job[j].status /\ new.mode = job[j].mode
      BY <1>1 DEF Later, JobRec
    <2>3. j \in Recurring => new.next = FreshStamp(j)
      BY <1>1 DEF Later, JobRec
    <2> HIDE DEF new
    <2>4. QED BY <1>2, <2>1, <2>2, <2>3, RowInv DEF Sane
  <1>6. CASE TimePasses(j)
    <2> DEFINE new == [job[j] EXCEPT !.due = TRUE]
    <2>1. job' = [job EXCEPT ![j] = new]
      BY <1>6 DEF TimePasses
    <2>2. /\ new \in JobRec /\ new.status = job[j].status /\ new.next = job[j].next
          /\ new.enabled = job[j].enabled /\ new.mode = job[j].mode
      BY <1>1 DEF JobRec
    <2> HIDE DEF new
    <2>3. QED BY <1>2, <2>1, <2>2, RowInv DEF Sane
  <1>7. CASE LastOccurrence(j)
    <2> DEFINE new == [job[j] EXCEPT !.more = FALSE]
    <2>1. job' = [job EXCEPT ![j] = new]
      BY <1>7 DEF LastOccurrence
    <2>2. /\ new \in JobRec /\ new.status = job[j].status /\ new.next = job[j].next
          /\ new.enabled = job[j].enabled /\ new.mode = job[j].mode
      BY <1>1 DEF JobRec
    <2> HIDE DEF new
    <2>3. QED BY <1>2, <2>1, <2>2, RowInv DEF Sane
  <1>8. QED BY <1>3, <1>4, <1>5, <1>6, <1>7

-----------------------------------------------------------------------------
(* Processes that start and end.                                           *)

LEMMA DeadFacts ==
  /\ Dead \in WorkerRec /\ Dead.at = "dead" /\ InPlace(Dead)
  /\ DOMAIN Dead.seen = {} /\ DOMAIN Dead.claims = {}
  /\ [Dead EXCEPT !.at = "idle"] \in WorkerRec /\ [Dead EXCEPT !.at = "idle"].at = "idle"
  /\ InPlace([Dead EXCEPT !.at = "idle"])
  /\ DOMAIN [Dead EXCEPT !.at = "idle"].seen = {}
  /\ DOMAIN [Dead EXCEPT !.at = "idle"].claims = {}
  <1>1. << >> \in Tables /\ DOMAIN << >> = {}
    BY NoTable
  <1> DEFINE idle == [Dead EXCEPT !.at = "idle"]
  <1>2. /\ Dead \in WorkerRec /\ Dead.at = "dead" /\ Dead.seen = << >> /\ Dead.claims = << >>
        /\ idle \in WorkerRec /\ idle.at = "idle" /\ idle.seen = << >> /\ idle.claims = << >>
    BY <1>1 DEF Dead, WorkerRec
  <1> HIDE DEF idle
  <1>3. InPlace(Dead) /\ InPlace(idle)
    BY <1>1, <1>2 DEF InPlace, BusyAts
  <1>4. QED BY <1>1, <1>2, <1>3 DEF idle

\* The executions that end with one worker, and with all of them.
LEMMA CutOffFacts ==
  ASSUME TypeInv, NEW S \in SUBSET Workers
  PROVE  /\ CutOff(S) \in [Jobs -> Nat]
         /\ \A j \in Jobs : /\ CutOff(S)[j] >= faults[j]
                            /\ (\E x \in S : Holds(x, j)) => CutOff(S)[j] >= faults[j] + 1
  <1>1. ASSUME NEW j \in Jobs
        PROVE  /\ CutOff(S)[j] \in Nat /\ CutOff(S)[j] >= faults[j]
               /\ (\E x \in S : Holds(x, j)) => CutOff(S)[j] >= faults[j] + 1
    <2> DEFINE holders == {x \in S : Holds(x, j)}
    <2>1. IsFiniteSet(holders) /\ Cardinality(holders) \in Nat
      BY SchedulerConstants, FS_Subset, FS_CardinalityType
    <2>2. CutOff(S)[j] = faults[j] + Cardinality(holders) /\ faults[j] \in Nat
      BY DEF CutOff, TypeInv
    <2>3. (\E x \in S : Holds(x, j)) => holders # {}
      OBVIOUS
    <2> HIDE DEF holders
    <2>4. holders # {} => Cardinality(holders) # 0
      BY <2>1, FS_EmptySet
    <2>5. QED BY <2>1, <2>2, <2>3, <2>4
  <1>2. QED BY <1>1 DEF CutOff

\* Workers end, and each execution they cut off is a fault.
LEMMA CutOffInv ==
  ASSUME SchedulerInv, NEW S \in SUBSET Workers,
         worker' = [x \in Workers |-> IF x \in S THEN Dead ELSE worker[x]],
         faults' = CutOff(S), UNCHANGED << job, open, quiesced, ran >>,
         daemon' \in DaemonRec, StageInv',
         \A j \in OneShots : /\ Pending(j)' \in Nat /\ Pending(j)' <= Pending(j)
                             /\ (\E x \in Workers : Alive(x))' =>
                                  /\ Entries(j)' \subseteq Entries(j)
                                  /\ (Mending /\ daemon.job = j)' => Mending /\ daemon.job = j
  PROVE  SchedulerInv'
  <1>1. TypeInv /\ StageInv /\ StampInv /\ OnceInv /\ CountInv
    BY DEF SchedulerInv
  <1>2. OneShots \subseteq Jobs
    BY DEF Jobs
  <1>3. /\ faults' \in [Jobs -> Nat]
        /\ \A j \in Jobs : /\ faults'[j] >= faults[j]
                           /\ (\E x \in S : Holds(x, j)) => faults'[j] >= faults[j] + 1
    BY <1>1, CutOffFacts
  <1>4. /\ worker' \in [Workers -> WorkerRec]
        /\ \A x \in Workers : worker'[x] = IF x \in S THEN Dead ELSE worker[x]
    BY <1>1, DeadFacts DEF TypeInv
  <1>5. TypeInv'
    BY <1>1, <1>3, <1>4 DEF TypeInv
  <1>6. StampInv'
    BY <1>1, <1>4, DeadFacts, StampWorkers
  <1>7. ASSUME NEW j
        PROVE  \A x \in Workers : j \in DOMAIN worker'[x].claims <=> x \notin S /\ Holds(x, j)
    BY <1>4, DeadFacts DEF Holds
  <1>8. (\E x \in Workers : Alive(x))' => \E x \in Workers : Alive(x)
    BY <1>4, DeadFacts DEF Alive
  <1>9. OnceInv'
    <2> SUFFICES ASSUME NEW j \in OneShots, faults'[j] = 0
                 PROVE  /\ \A x \in Workers : Holds(x, j)' => job'[j].status = "firing"
                        /\ \A x, y \in Workers : x # y => ~(Holds(x, j)' /\ Holds(y, j)')
                        /\ (\E x \in Workers : Alive(x))' =>
                             Entries(j)' = {} /\ ~(Mending /\ daemon.job = j)'
      BY DEF OnceInv, Holds, Alive, Entries, Mending
    <2>1. faults[j] = 0
      BY <1>1, <1>2, <1>3 DEF TypeInv
    <2>2. /\ \A x \in Workers : Holds(x, j) => job[j].status = "firing"
          /\ \A x, y \in Workers : x # y => ~(Holds(x, j) /\ Holds(y, j))
          /\ (\E x \in Workers : Alive(x)) => Entries(j) = {} /\ ~(Mending /\ daemon.job = j)
      BY <1>1, <2>1 DEF OnceInv
    <2>3. \A x \in Workers : Holds(x, j)' => Holds(x, j)
      BY <1>7 DEF Holds
    <2>4. QED BY <1>8, <2>2, <2>3
  <1>10. ASSUME NEW j \in OneShots
         PROVE  Cardinality(Yet(j)') + One(Claimable(j)') + Pending(j)' + faults[j]
                  <= Cardinality(Yet(j)) + One(Claimable(j)) + Pending(j) + faults'[j]
    <2>1. /\ Pending(j)' \in Nat /\ Pending(j) \in Nat /\ Pending(j)' <= Pending(j)
          /\ faults[j] \in Nat /\ faults'[j] \in Nat
      BY <1>1, <1>2, <1>3, PendingNat DEF TypeInv
    <2>2. /\ Cardinality(Yet(j)') \in Nat /\ Cardinality(Yet(j)) \in Nat
          /\ Cardinality(Yet(j)') <= Cardinality(Yet(j))
      <3>1. Yet(j)' \subseteq Yet(j)
        BY <1>4, DeadFacts DEF Yet, MaySucceed
      <3>2. QED BY <3>1, YetFinite, FS_Subset, FS_CardinalityType
    <2>3. One(Claimable(j)') + faults[j] <= One(Claimable(j)) + faults'[j]
      <3>1. /\ One(Claimable(j)) \in {0, 1} /\ One(Claimable(j)') \in {0, 1}
            /\ (Claimable(j)' => Claimable(j)) => One(Claimable(j)') <= One(Claimable(j))
        BY DEF One
      <3>2. CASE \E x \in S : Holds(x, j)
        BY <1>2, <1>3, <2>1, <3>1, <3>2
      <3>3. CASE ~ \E x \in S : Holds(x, j)
        <4>1. Claimable(j)' => Claimable(j)
          BY <1>7, <3>3 DEF Claimable, Holds
        <4>2. QED BY <1>2, <1>3, <2>1, <3>1, <4>1
      <3>4. QED BY <3>2, <3>3
    <2>4. One(Claimable(j)') \in Int /\ One(Claimable(j)) \in Int
      BY DEF One
    <2>5. QED BY <2>1, <2>2, <2>3, <2>4
  <1>11. CountInv'
    BY <1>1, <1>5, <1>10, CountStep
  <1>12. QED BY <1>5, <1>6, <1>9, <1>11 DEF SchedulerInv

LEMMA WorkerDiesInv ==
  ASSUME SchedulerInv, NEW w \in Workers, WorkerDies(w)
  PROVE  SchedulerInv'
  <1>1. TypeInv /\ StageInv
    BY DEF SchedulerInv
  <1>2. /\ worker' = [worker EXCEPT ![w] = Dead] /\ faults' = CutOff({w})
        /\ UNCHANGED << job, open, daemon, quiesced, ran >>
    BY DEF WorkerDies, rows
  <1>3. worker' = [x \in Workers |-> IF x \in {w} THEN Dead ELSE worker[x]]
    BY <1>1, <1>2 DEF TypeInv
  <1>4. daemon' \in DaemonRec
    BY <1>1, <1>2 DEF TypeInv
  <1>5. \A x \in Workers : worker'[x] = IF x \in {w} THEN Dead ELSE worker[x]
    BY <1>3
  <1>6. StageInv'
    <2>1. \A x \in Workers : InPlace(worker'[x])
      BY <1>1, <1>5, DeadFacts DEF StageInv
    <2>2. QED BY <1>1, <1>2, <2>1 DEF StageInv, InPlace, Mending
  <1>7. (\E x \in Workers : Alive(x))' => \E x \in Workers : Alive(x)
    BY <1>5, DeadFacts DEF Alive
  <1>8. ASSUME NEW j \in OneShots
        PROVE  /\ Pending(j)' \in Nat /\ Pending(j)' <= Pending(j)
               /\ (\E x \in Workers : Alive(x))' =>
                    /\ Entries(j)' \subseteq Entries(j)
                    /\ (Mending /\ daemon.job = j)' => Mending /\ daemon.job = j
    <2>1. Entries(j)' = Entries(j) /\ (Mending' <=> Mending)
      BY <1>2 DEF Entries, Mending
    <2>2. Pending(j) \in Nat /\ Cardinality(Entries(j)) \in Nat
      BY <1>1, PendingNat
    <2>3. Pending(j)' = 0 \/ Pending(j)' = Pending(j)
      BY <1>2, <1>7, <2>1 DEF Pending, One
    <2>4. QED BY <1>2, <2>1, <2>2, <2>3
  <1>9. QED BY <1>2, <1>3, <1>4, <1>6, <1>8, CutOffInv

LEMMA UpFacts ==
  /\ Up \in DaemonRec /\ Up.at = "up" /\ Up.todo = {}
  /\ [Up EXCEPT !.at = "down"] \in DaemonRec
  /\ [Up EXCEPT !.at = "down"].at = "down" /\ [Up EXCEPT !.at = "down"].todo = {}
  BY DEF Up, DaemonRec, Sources

LEMMA StartSchedulerInv ==
  ASSUME SchedulerInv, StartScheduler
  PROVE  SchedulerInv'
  <1>1. TypeInv /\ StageInv
    BY DEF SchedulerInv
  <1>2. /\ worker' = [x \in Workers |-> Dead] /\ faults' = CutOff(Workers) /\ daemon' = Up
        /\ UNCHANGED << job, open, quiesced, ran >>
    BY DEF StartScheduler, rows
  <1>3. worker' = [x \in Workers |-> IF x \in Workers THEN Dead ELSE worker[x]]
    BY <1>2
  <1>4. daemon' \in DaemonRec /\ daemon'.at = "up" /\ daemon'.todo = {}
    BY <1>2, UpFacts
  <1>5. StageInv'
    <2>1. \A x \in Workers : InPlace(worker'[x])
      BY <1>2, DeadFacts
    <2>2. QED BY <1>4, <2>1 DEF StageInv, InPlace, Mending
  <1>6. ~(\E x \in Workers : Alive(x))'
    BY <1>2, DeadFacts DEF Alive
  <1>7. ASSUME NEW j \in OneShots
        PROVE  Pending(j)' \in Nat /\ Pending(j)' <= Pending(j)
    <2>1. Pending(j)' = 0
      BY <1>6 DEF Pending
    <2>2. QED BY <1>1, <2>1, PendingNat
  <1>8. QED BY <1>2, <1>3, <1>4, <1>5, <1>6, <1>7, CutOffInv

\* A worker that starts finds no recovery under way.
LEMMA SpawnInv ==
  ASSUME SchedulerInv, NEW w \in Workers, Spawn(w)
  PROVE  SchedulerInv'
  <1> DEFINE idle == [Dead EXCEPT !.at = "idle"]
  <1>1. TypeInv /\ StageInv /\ StampInv /\ OnceInv /\ CountInv
    BY DEF SchedulerInv
  <1>2. /\ worker' = [worker EXCEPT ![w] = idle] /\ daemon.at = "up" /\ worker[w].at = "dead"
        /\ UNCHANGED << job, open, daemon, quiesced, ran, faults >>
    BY DEF Spawn, rows, ghosts, Alive
  <1>3. /\ idle \in WorkerRec /\ idle.at = "idle" /\ InPlace(idle)
        /\ DOMAIN idle.seen = {} /\ DOMAIN idle.claims = {}
    BY DeadFacts
  <1> HIDE DEF idle
  <1>4. /\ worker' \in [Workers -> WorkerRec] /\ worker'[w] = idle
        /\ \A x \in Workers : x # w => worker'[x] = worker[x]
    BY <1>1, <1>2, <1>3 DEF TypeInv
  <1>5. TypeInv'
    BY <1>1, <1>2, <1>4 DEF TypeInv
  <1>6. StageInv'
    <2>1. \A x \in Workers : InPlace(worker'[x])
      BY <1>1, <1>3, <1>4 DEF StageInv
    <2>2. QED BY <1>1, <1>2, <2>1 DEF StageInv, InPlace, Mending
  <1>7. StampInv'
    BY <1>1, <1>2, <1>3, <1>4, StampWorkers
  <1>8. DOMAIN worker[w].claims = {}
    BY <1>1, <1>2 DEF StageInv, InPlace
  <1>9. ASSUME NEW j PROVE \A x \in Workers : Holds(x, j)' <=> Holds(x, j)
    BY <1>3, <1>4, <1>8 DEF Holds
  <1>10. ~Mending /\ ~Mending' /\ \A j : Entries(j) = {} /\ Entries(j)' = {}
    BY <1>1, <1>2 DEF Mending, Entries, StageInv
  <1>11. OnceInv'
    <2> SUFFICES ASSUME NEW j \in OneShots, faults'[j] = 0
                 PROVE  /\ \A x \in Workers : Holds(x, j)' => job'[j].status = "firing"
                        /\ \A x, y \in Workers : x # y => ~(Holds(x, j)' /\ Holds(y, j)')
                        /\ Entries(j)' = {} /\ ~(Mending /\ daemon.job = j)'
      BY DEF OnceInv, Holds, Alive, Entries, Mending
    <2>1. QED BY <1>1, <1>2, <1>9, <1>10 DEF OnceInv
  <1>12. ASSUME NEW j \in OneShots
         PROVE  Cardinality(Yet(j)') + One(Claimable(j)') + Pending(j)' + faults[j]
                  <= Cardinality(Yet(j)) + One(Claimable(j)) + Pending(j) + faults'[j]
    <2>1. Pending(j)' = 0 /\ Pending(j) = 0
      <3>1. Cardinality({}) = 0
        BY FS_EmptySet
      <3>2. QED BY <1>10, <3>1 DEF Pending, One
    <2>2. Yet(j)' = Yet(j) /\ Cardinality(Yet(j)) \in Nat
      <3>1. \A x \in Workers : MaySucceed(worker'[x], j) <=> MaySucceed(worker[x], j)
        BY <1>3, <1>4, <1>8 DEF MaySucceed
      <3>2. QED BY <3>1, YetFinite DEF Yet, MaySucceed
    <2>3. Claimable(j)' <=> Claimable(j)
      BY <1>2, <1>9 DEF Claimable
    <2>4. One(Claimable(j)') = One(Claimable(j)) /\ One(Claimable(j)) \in Int
      BY <2>3 DEF One
    <2>5. faults'[j] = faults[j] /\ faults[j] \in Nat
      BY <1>1, <1>2 DEF TypeInv, Jobs
    <2>6. QED BY <2>1, <2>2, <2>4, <2>5
  <1>13. CountInv'
    BY <1>1, <1>2, <1>5, <1>12, CountStep
  <1>14. QED BY <1>5, <1>6, <1>7, <1>11, <1>13 DEF SchedulerInv

-----------------------------------------------------------------------------
(* The daemon.                                                             *)

\* A step of the daemon that leaves the workers alone.
LEMMA DaemonInv ==
  ASSUME SchedulerInv, UNCHANGED << worker, quiesced, ran >>, open' \subseteq Sources \X Jobs,
         job' \in [Jobs -> JobRec], \A i \in Jobs : Sane(i, job'[i]),
         daemon' \in DaemonRec, faults' \in [Jobs -> Nat],
         daemon'.at \in {"up", "down"} => daemon'.todo = {},
         Mending' => daemon'.job \in Jobs,
         \A j \in OneShots :
           /\ faults'[j] >= faults[j]
           /\ faults'[j] = 0 /\ (\E x \in Workers : Alive(x)) =>
                /\ Entries(j)' = {} /\ ~(Mending' /\ daemon'.job = j)
                /\ job'[j].status = job[j].status
           /\ One(Claimable(j)') + Pending(j)' + faults[j]
                <= One(Claimable(j)) + Pending(j) + faults'[j],
         \A j \in OneShots : Pending(j)' \in Nat
  PROVE  SchedulerInv'
  <1>1. TypeInv /\ StageInv /\ StampInv /\ OnceInv /\ CountInv
    BY DEF SchedulerInv
  <1>2. TypeInv'
    BY <1>1 DEF TypeInv
  <1>3. StageInv'
    BY <1>1 DEF StageInv, InPlace, Mending
  <1>4. StampInv'
    BY <1>1, StampWrite
  <1>5. OneShots \subseteq Jobs
    BY DEF Jobs
  <1>6. OnceInv'
    <2> SUFFICES ASSUME NEW j \in OneShots, faults'[j] = 0
                 PROVE  /\ \A x \in Workers : Holds(x, j) => job'[j].status = "firing"
                        /\ \A x, y \in Workers : x # y => ~(Holds(x, j) /\ Holds(y, j))
                        /\ (\E x \in Workers : Alive(x)) =>
                             Entries(j)' = {} /\ ~(Mending' /\ daemon'.job = j)
      BY DEF OnceInv, Holds, Alive, Entries, Mending
    <2>1. faults[j] = 0
      BY <1>1, <1>5 DEF TypeInv
    <2>2. /\ \A x \in Workers : Holds(x, j) => job[j].status = "firing"
          /\ \A x, y \in Workers : x # y => ~(Holds(x, j) /\ Holds(y, j))
      BY <1>1, <2>1 DEF OnceInv
    <2>3. \A x \in Workers : Holds(x, j) => Alive(x)
      BY <1>1, HolderLives
    <2>4. QED BY <2>2, <2>3
  <1>7. ASSUME NEW j \in OneShots
        PROVE  Cardinality(Yet(j)') + One(Claimable(j)') + Pending(j)' + faults[j]
                 <= Cardinality(Yet(j)) + One(Claimable(j)) + Pending(j) + faults'[j]
    <2>1. Yet(j)' = Yet(j) /\ Cardinality(Yet(j)) \in Nat
      BY StillWorkers
    <2>2. /\ Pending(j) \in Nat /\ Pending(j)' \in Nat /\ faults[j] \in Nat /\ faults'[j] \in Nat
      BY <1>1, <1>5, PendingNat DEF TypeInv
    <2>3. One(Claimable(j)') \in Int /\ One(Claimable(j)) \in Int
      BY DEF One
    <2>4. One(Claimable(j)') + Pending(j)' + faults[j]
            <= One(Claimable(j)) + Pending(j) + faults'[j]
      OBVIOUS
    <2>5. QED BY <2>1, <2>2, <2>3, <2>4
  <1>8. CountInv'
    BY <1>1, <1>2, <1>7, CountStep
  <1>9. QED BY <1>2, <1>3, <1>4, <1>6, <1>8 DEF SchedulerInv

\* No row is written: what j may be claimed for is the same.
LEMMA SameRows ==
  ASSUME job' = job, worker' = worker, NEW j
  PROVE  /\ One(Claimable(j)') = One(Claimable(j)) /\ One(Claimable(j)) \in {0, 1}
         /\ Claimable(j)' <=> Claimable(j)
  <1>1. Claimable(j)' <=> Claimable(j)
    BY DEF Claimable, Holds
  <1>2. QED BY <1>1 DEF One

LEMMA DaemonDiesInv ==
  ASSUME SchedulerInv, DaemonDies
  PROVE  SchedulerInv'
  <1>1. TypeInv /\ StageInv
    BY DEF SchedulerInv
  <1>2. /\ daemon' = [Up EXCEPT !.at = "down"]
        /\ faults' = [j \in Jobs |-> IF j = daemon.job THEN faults[j] + 1 ELSE faults[j]]
        /\ UNCHANGED << job, open, worker, quiesced, ran >>
    BY DEF DaemonDies, rows
  <1>3. daemon' \in DaemonRec /\ daemon'.at = "down" /\ daemon'.todo = {}
    BY <1>2, UpFacts
  <1>4. /\ faults' \in [Jobs -> Nat] /\ faults \in [Jobs -> Nat]
        /\ \A j \in Jobs : faults'[j] >= faults[j]
    BY <1>1, <1>2 DEF TypeInv
  <1>5. /\ job' \in [Jobs -> JobRec]
        /\ \A i \in Jobs : Sane(i, job'[i]) /\ job'[i].status = job[i].status
    BY <1>1, <1>2, SaneSelf
  <1>6. ~Mending' /\ \A j : Entries(j)' = {}
    BY <1>3 DEF Mending, Entries
  <1>7. ASSUME NEW j \in OneShots
        PROVE  /\ Pending(j)' = 0
               /\ One(Claimable(j)') + Pending(j)' + faults[j]
                    <= One(Claimable(j)) + Pending(j) + faults'[j]
    <2>1. Pending(j)' = 0
      <3>1. Cardinality({}) = 0
        BY FS_EmptySet
      <3>2. QED BY <1>6, <3>1 DEF Pending, One
    <2>2. Pending(j) \in Nat /\ j \in Jobs
      BY <1>1, PendingNat DEF Jobs
    <2>3. One(Claimable(j)') = One(Claimable(j)) /\ One(Claimable(j)) \in {0, 1}
      BY <1>2, SameRows
    <2>4. QED BY <1>4, <2>1, <2>2, <2>3
  <1>8. open' \subseteq Sources \X Jobs /\ OneShots \subseteq Jobs
    BY <1>1, <1>2 DEF TypeInv, Jobs
  <1>9. \A j \in OneShots : faults'[j] >= faults[j] /\ job'[j].status = job[j].status
    BY <1>4, <1>5, <1>8
  <1>10. \A j \in OneShots : Pending(j)' \in Nat
    BY <1>7
  <1>11. \A j \in OneShots : Entries(j)' = {}
    BY <1>6
  <1>12. ~Mending' /\ UNCHANGED << worker, quiesced, ran >>
    BY <1>2, <1>6
  <1>13. QED BY <1>3, <1>4, <1>5, <1>7, <1>8, <1>9, <1>10, <1>11, <1>12, DaemonInv

\* What the boot finds beside a live worker is a fault of its job.
LEMMA BootInv ==
  ASSUME SchedulerInv, Boot
  PROVE  SchedulerInv'
  <1> DEFINE found == FindStaleInFlightJobs
             of(j) == {s \in found : s[2] = j}
             alive == \E w \in Workers : Alive(w)
  <1>1. TypeInv /\ StageInv
    BY DEF SchedulerInv
  <1>2. /\ daemon.at = "down" /\ daemon' = [Up EXCEPT !.at = "recover", !.todo = found]
        /\ faults' = [j \in Jobs |-> faults[j] + IF alive THEN Cardinality(of(j)) ELSE 0]
        /\ UNCHANGED << job, open, worker, quiesced, ran >>
    BY DEF Boot, rows
  <1>3. found \subseteq Sources \X Jobs
    BY <1>1 DEF FindStaleInFlightJobs, StaleOneShots, TypeInv, Sources, Jobs
  <1>4. ASSUME NEW j PROVE IsFiniteSet(of(j)) /\ Cardinality(of(j)) \in Nat
    <2>1. of(j) \subseteq Sources \X {j}
      BY <1>3
    <2>2. IsFiniteSet(Sources) /\ IsFiniteSet({j})
      BY SchedulerConstants, FS_AddElement, FS_Singleton DEF Sources
    <2>3. QED BY <2>1, <2>2, FS_Product, FS_Subset, FS_CardinalityType
  <1> HIDE DEF found
  <1>5. daemon' \in DaemonRec /\ daemon'.at = "recover" /\ daemon'.todo = found
    BY <1>2, <1>3 DEF Up, DaemonRec, Sources
  <1>6. ASSUME NEW j PROVE Entries(j)' = of(j)
    BY <1>5 DEF Entries
  <1> HIDE DEF of, alive
  <1>7. faults' \in [Jobs -> Nat] /\ faults \in [Jobs -> Nat]
    BY <1>1, <1>2, <1>4 DEF TypeInv
  <1>8. /\ job' \in [Jobs -> JobRec]
        /\ \A i \in Jobs : Sane(i, job'[i]) /\ job'[i].status = job[i].status
    BY <1>1, <1>2, SaneSelf
  <1>9. ~Mending' /\ (alive <=> \E x \in Workers : Alive(x)) /\ (alive <=> (\E x \in Workers : Alive(x))')
    BY <1>2, <1>5 DEF Mending, alive, Alive
  <1>10. ASSUME NEW j \in OneShots
         PROVE  /\ faults'[j] >= faults[j]
                /\ faults'[j] = 0 /\ alive => Entries(j)' = {}
                /\ Pending(j)' \in Nat
                /\ One(Claimable(j)') + Pending(j)' + faults[j]
                     <= One(Claimable(j)) + Pending(j) + faults'[j]
    <2>1. j \in Jobs /\ faults[j] \in Nat /\ Cardinality(of(j)) \in Nat
      BY <1>4, <1>7 DEF Jobs
    <2>2. faults'[j] = faults[j] + IF alive THEN Cardinality(of(j)) ELSE 0
      BY <1>2, <2>1
    <2>3. Pending(j)' = IF alive THEN Cardinality(of(j)) ELSE 0
      BY <1>6, <1>9, <2>1 DEF Pending, One
    <2>4. Pending(j) \in Nat
      BY <1>1, PendingNat
    <2>5. One(Claimable(j)') = One(Claimable(j)) /\ One(Claimable(j)) \in {0, 1}
      BY <1>2, SameRows
    <2>6. faults'[j] = 0 /\ alive => Entries(j)' = {}
      <3>1. Cardinality(of(j)) = 0 => of(j) = {}
        BY <1>4, FS_EmptySet
      <3>2. QED BY <1>6, <2>1, <2>2, <3>1
    <2>7. QED BY <2>1, <2>2, <2>3, <2>4, <2>5, <2>6
  <1>11. open' \subseteq Sources \X Jobs
    BY <1>1, <1>2 DEF TypeInv
  <1>12. daemon'.at \notin {"up", "down"}
    BY <1>5
  <1>13. OneShots \subseteq Jobs
    BY DEF Jobs
  <1>14. QED BY <1>2, <1>5, <1>7, <1>8, <1>9, <1>10, <1>11, <1>12, <1>13, DaemonInv

\* Recovery takes up an entry: what it owes is the same.
LEMMA RecoverRunInv ==
  ASSUME SchedulerInv, NEW s \in daemon.todo, RecoverRun(s)
  PROVE  SchedulerInv'
  <1>1. TypeInv /\ StageInv /\ OnceInv
    BY DEF SchedulerInv
  <1>2. /\ daemon.at = "recover"
        /\ daemon' = [daemon EXCEPT !.at = "close", !.todo = daemon.todo \ {s}, !.of = s[1],
                                    !.job = s[2], !.retry = job[s[2]].retry]
        /\ open' \subseteq open \cup {s} /\ UNCHANGED << job, worker, quiesced, ran, faults >>
    BY DEF RecoverRun, ghosts
  <1>3. /\ daemon.todo \subseteq Sources \X Jobs /\ s \in Sources \X Jobs
        /\ s[1] \in Sources /\ s[2] \in Jobs
        /\ job[s[2]].retry \in Nat
    BY <1>1 DEF TypeInv, DaemonRec, JobRec
  <1>4. /\ daemon' \in DaemonRec /\ daemon'.at = "close" /\ daemon'.todo = daemon.todo \ {s}
        /\ daemon'.job = s[2]
    BY <1>1, <1>2, <1>3 DEF DaemonRec, TypeInv
  <1>5. /\ job' \in [Jobs -> JobRec]
        /\ \A i \in Jobs : Sane(i, job'[i]) /\ job'[i].status = job[i].status
    BY <1>1, <1>2, SaneSelf
  <1>6. Mending' /\ ~Mending
    BY <1>2, <1>4 DEF Mending
  <1>7. ASSUME NEW j PROVE Entries(j)' = Entries(j) \ {s} /\ (s \in Entries(j) <=> s[2] = j)
    BY <1>4 DEF Entries
  <1>8. ASSUME NEW j \in OneShots
        PROVE  /\ Pending(j)' = Pending(j) /\ Pending(j) \in Nat
               /\ faults[j] = 0 /\ (\E x \in Workers : Alive(x)) => Entries(j)' = {} /\ s[2] # j
    <2>1. /\ IsFiniteSet(Entries(j)) /\ Cardinality(Entries(j)) \in Nat /\ Pending(j) \in Nat
      BY <1>1, PendingNat
    <2>2. (\E x \in Workers : Alive(x))' <=> (\E x \in Workers : Alive(x))
      BY <1>2, StillWorkers
    <2>3. CASE s[2] = j
      <3>1. Cardinality(Entries(j)') = Cardinality(Entries(j)) - 1
        BY <1>7, <2>1, <2>3, FS_RemoveElement
      <3>2. One(Mending' /\ daemon'.job = j) = 1 /\ One(Mending /\ daemon.job = j) = 0
        BY <1>4, <1>6, <2>3 DEF One
      <3>3. Pending(j)' = IF \E x \in Workers : Alive(x)
                            THEN Cardinality(Entries(j)') + One(Mending' /\ daemon'.job = j) ELSE 0
        BY <2>2 DEF Pending, One
      <3>4. Pending(j)' = Pending(j)
        BY <2>1, <3>1, <3>2, <3>3 DEF Pending
      <3>5. faults[j] = 0 => ~ \E x \in Workers : Alive(x)
        BY <1>1, <1>7, <2>3 DEF OnceInv
      <3>6. QED BY <2>1, <3>4, <3>5
    <2>4. CASE s[2] # j
      <3>1. Entries(j)' = Entries(j)
        BY <1>7, <2>4
      <3>2. Pending(j)' = Pending(j)
        BY <1>4, <1>6, <2>2, <2>4, <3>1 DEF Pending, One
      <3>3. faults[j] = 0 /\ (\E x \in Workers : Alive(x)) => Entries(j) = {}
        BY <1>1 DEF OnceInv
      <3>4. QED BY <2>1, <2>4, <3>1, <3>2, <3>3
    <2>5. QED BY <2>3, <2>4
  <1>9. ASSUME NEW j \in OneShots
        PROVE  /\ faults'[j] >= faults[j]
               /\ One(Claimable(j)') + Pending(j)' + faults[j]
                    <= One(Claimable(j)) + Pending(j) + faults'[j]
    <2>1. One(Claimable(j)') = One(Claimable(j)) /\ One(Claimable(j)) \in {0, 1}
      BY <1>2, SameRows
    <2>2. faults'[j] = faults[j] /\ faults[j] \in Nat
      BY <1>1, <1>2 DEF TypeInv, Jobs
    <2>3. QED BY <1>8, <2>1, <2>2
  <1>10. open' \subseteq Sources \X Jobs /\ OneShots \subseteq Jobs /\ faults' \in [Jobs -> Nat]
    BY <1>1, <1>2, <1>3 DEF TypeInv, Jobs
  <1>11. \A j \in OneShots : faults'[j] = 0 /\ (\E x \in Workers : Alive(x)) =>
           Entries(j)' = {} /\ ~(Mending' /\ daemon'.job = j) /\ job'[j].status = job[j].status
    BY <1>2, <1>4, <1>8
  <1>12. \A j \in OneShots : Pending(j)' \in Nat
    BY <1>8
  <1>13. QED BY <1>2, <1>3, <1>4, <1>5, <1>9, <1>10, <1>11, <1>12, DaemonInv

\* Recovery writes the row of the job it mends or closes its run, and goes on
\* or leaves it.
LEMMA MendInv ==
  ASSUME SchedulerInv, Mending, NEW new, Sane(daemon.job, new),
         job' = [job EXCEPT ![daemon.job] = new],
         new.status = job[daemon.job].status \/ job[daemon.job].status = "firing",
         daemon' \in DaemonRec, daemon'.todo = daemon.todo,
         \/ daemon'.at = "recover"
         \/ /\ daemon'.at \in {"count", "charge", "decide", "revert"} /\ daemon'.job = daemon.job
            /\ new.status = job[daemon.job].status,
         open' \subseteq open, UNCHANGED << worker, quiesced, ran, faults >>
  PROVE  SchedulerInv'
  <1> DEFINE d == daemon.job
  <1>1. TypeInv /\ StageInv /\ OnceInv /\ d \in Jobs
    BY DEF SchedulerInv, StageInv
  <1>2. /\ job' \in [Jobs -> JobRec] /\ job'[d] = new
        /\ \A i \in Jobs : i # d => job'[i] = job[i]
        /\ \A i \in Jobs : Sane(i, job'[i])
    BY <1>1, JobWrite
  <1>3. ASSUME NEW j PROVE Entries(j)' = Entries(j)
    BY DEF Entries
  <1>4. /\ Mending' <=> daemon'.at # "recover"
        /\ daemon'.at \notin {"up", "down"}
        /\ Mending' => daemon'.job = d /\ new.status = job[d].status
    BY DEF Mending
  <1>5. ASSUME NEW j \in OneShots, faults[j] = 0, \E x \in Workers : Alive(x)
        PROVE  /\ Entries(j)' = {} /\ ~(Mending' /\ daemon'.job = j)
               /\ job'[j].status = job[j].status
    <2>1. Entries(j) = {} /\ j # d /\ j \in Jobs
      BY <1>1, <1>5 DEF OnceInv, Jobs
    <2>2. QED BY <1>2, <1>3, <1>4, <2>1
  <1>6. ASSUME NEW j \in OneShots
        PROVE  /\ Pending(j)' \in Nat
               /\ One(Claimable(j)') + Pending(j)' + faults[j]
                    <= One(Claimable(j)) + Pending(j) + faults'[j]
    <2> DEFINE alive == \E x \in Workers : Alive(x)
               owed == Cardinality(Entries(j))
    <2>1. /\ (\E x \in Workers : Alive(x))' <=> alive
          /\ \A x \in Workers : Holds(x, j)' <=> Holds(x, j)
      BY StillWorkers
    <2>2. /\ owed \in Nat /\ faults[j] \in Nat /\ faults'[j] = faults[j] /\ j \in Jobs
      BY <1>1, PendingNat DEF TypeInv, Jobs
    <2>3. /\ Pending(j) = (IF alive THEN owed + One(d = j) ELSE 0)
          /\ Pending(j)' = (IF alive THEN owed + One(Mending' /\ d = j) ELSE 0)
      <3>1. Pending(j)' = IF alive THEN owed + One(Mending' /\ daemon'.job = j) ELSE 0
        BY <1>3, <2>1 DEF Pending, One
      <3>2. (Mending' /\ daemon'.job = j) <=> (Mending' /\ d = j)
        BY <1>4
      <3>3. QED BY <3>1, <3>2 DEF Pending, One
    <2> HIDE DEF owed
    <2>4. /\ One(Claimable(j)) \in {0, 1} /\ One(Claimable(j)') \in {0, 1}
          /\ (Claimable(j)' => Claimable(j)) => One(Claimable(j)') <= One(Claimable(j))
          /\ One(d = j) = (IF d = j THEN 1 ELSE 0)
          /\ One(Mending' /\ d = j) = (IF Mending' /\ d = j THEN 1 ELSE 0)
      BY DEF One
    <2>5. CASE d # j \/ Mending'
      <3>1. job'[j].status = job[j].status
        BY <1>2, <1>4, <2>2, <2>5
      <3>2. Claimable(j)' => Claimable(j)
        BY <2>1, <3>1 DEF Claimable
      <3>3. Pending(j)' = Pending(j) /\ Pending(j) \in Nat
        BY <2>2, <2>3, <2>4, <2>5
      <3>4. QED BY <2>2, <2>4, <3>2, <3>3
    <2>6. CASE d = j /\ ~Mending' /\ alive
      <3>1. Pending(j)' = owed /\ Pending(j) = owed + 1
        BY <2>2, <2>3, <2>4, <2>6
      <3>2. QED BY <2>2, <2>4, <3>1
    <2>7. CASE d = j /\ ~Mending' /\ ~alive
      <3>1. \A x \in Workers : ~Holds(x, j)
        BY <1>1, <2>7, HolderLives
      <3>2. Claimable(j)' => Claimable(j)
        BY <1>2, <2>1, <2>7, <3>1 DEF Claimable
      <3>3. Pending(j)' = 0 /\ Pending(j) = 0
        BY <2>3, <2>7
      <3>4. QED BY <2>2, <2>4, <3>2, <3>3
    <2>8. QED BY <2>5, <2>6, <2>7
  <1>7. /\ open' \subseteq Sources \X Jobs /\ OneShots \subseteq Jobs /\ faults' \in [Jobs -> Nat]
        /\ \A j \in OneShots : faults'[j] >= faults[j]
    BY <1>1 DEF TypeInv, Jobs
  <1>8. Mending' => daemon'.job \in Jobs
    BY <1>1, <1>4
  <1>9. QED BY <1>2, <1>4, <1>5, <1>6, <1>7, <1>8, DaemonInv

LEMMA RecoverInv ==
  ASSUME SchedulerInv,
         RecoverClose \/ RecoverCount \/ RecoverCharge \/ RecoverDecide \/ RecoverRevert
  PROVE  SchedulerInv'
  <1> DEFINE d == daemon.job
             over == [Up EXCEPT !.at = "recover", !.todo = daemon.todo]
  <1>1. Mending
    BY DEF RecoverClose, RecoverCount, RecoverCharge, RecoverDecide, RecoverRevert, Mending
  <1>2. /\ TypeInv /\ StageInv /\ d \in Jobs /\ daemon \in DaemonRec
        /\ daemon.retry \in Nat /\ daemon.count \in Nat
    BY <1>1 DEF SchedulerInv, StageInv, TypeInv, DaemonRec
  <1>3. open' \subseteq open /\ UNCHANGED << worker, quiesced, ran, faults >>
    BY DEF RecoverClose, RecoverCount, RecoverCharge, RecoverDecide, RecoverRevert, rows, ghosts
  <1>4. over \in DaemonRec /\ over.at = "recover" /\ over.todo = daemon.todo
    BY <1>2 DEF Up, DaemonRec, Sources
  <1>5. \A i \in Jobs : Sane(i, job[i])
    BY <1>2 DEF Sane, TypeInv
  <1> HIDE DEF over
  <1>6. CASE RecoverCharge
    <2> DEFINE new == ChargeRetry(job[d], FALSE, daemon.count)
               on == [daemon EXCEPT !.at = "decide", !.count = 0]
    <2>1. job' = [job EXCEPT ![d] = new] /\ daemon' = on
      BY <1>6 DEF RecoverCharge
    <2>2. Sane(d, new) /\ new.status = job[d].status
      BY <1>2, ChargeFacts
    <2>3. on \in DaemonRec /\ on.at = "decide" /\ on.todo = daemon.todo /\ on.job = d
      BY <1>2 DEF DaemonRec
    <2> HIDE DEF new, on
    <2>4. QED BY <1>1, <1>3, <2>1, <2>2, <2>3, MendInv
  <1>7. CASE RecoverDecide
    <2> DEFINE new == ApplyRetryDecision(d, job[d], daemon.retry)
               on == [daemon EXCEPT !.at = "revert"]
    <2>1. /\ job' = [job EXCEPT ![d] = new]
          /\ daemon' = IF DecideRetry(daemon.retry) THEN on ELSE over
      BY <1>7 DEF RecoverDecide, Recovered, over
    <2>2. /\ Sane(d, new)
          /\ DecideRetry(daemon.retry) => new.status = job[d].status
          /\ ~DecideRetry(daemon.retry) /\ d \in OneShots => new.status = Status(job[d], "cancelled")
          /\ d \in Recurring => new.status = job[d].status
      BY <1>2, ApplyFacts
    <2>3. on \in DaemonRec /\ on.at = "revert" /\ on.todo = daemon.todo /\ on.job = d
      BY <1>2 DEF DaemonRec
    <2>4. d \in OneShots \/ d \in Recurring
      BY <1>2 DEF Jobs
    <2> HIDE DEF new, on
    <2>5. new.status = job[d].status \/ job[d].status = "firing"
      BY <2>2, <2>4 DEF Status
    <2>6. CASE DecideRetry(daemon.retry)
      BY <1>1, <1>3, <2>1, <2>2, <2>3, <2>6, MendInv
    <2>7. CASE ~DecideRetry(daemon.retry)
      BY <1>1, <1>3, <1>4, <2>1, <2>2, <2>5, <2>7, MendInv
    <2>8. QED BY <2>6, <2>7
  <1>8. CASE RecoverRevert
    <2>1. job' = [job EXCEPT ![d] = RevertStatus(job[d])] /\ daemon' = over
      BY <1>8 DEF RecoverRevert, Recovered, over
    <2>2. Sane(d, RevertStatus(job[d])) /\ RevertStatus(job[d]).status = Status(job[d], "active")
      BY <1>2, SettleFacts
    <2>3. RevertStatus(job[d]).status = job[d].status \/ job[d].status = "firing"
      BY <2>2 DEF Status
    <2>4. QED BY <1>1, <1>3, <1>4, <2>1, <2>2, <2>3, MendInv
  <1>9. CASE RecoverClose
    <2> DEFINE on == [daemon EXCEPT !.at = "count", !.of = NoRun]
    <2>1. job' = [job EXCEPT ![d] = job[d]] /\ daemon' = on
      BY <1>2, <1>9 DEF RecoverClose, TypeInv
    <2>2. on \in DaemonRec /\ on.at = "count" /\ on.todo = daemon.todo /\ on.job = d
      BY <1>2 DEF DaemonRec, Sources
    <2> HIDE DEF on
    <2>3. QED BY <1>1, <1>2, <1>3, <1>5, <2>1, <2>2, MendInv
  <1>10. CASE RecoverCount
    <2> DEFINE on == [daemon EXCEPT !.at = "charge", !.count = job[d].retry]
    <2>1. job' = [job EXCEPT ![d] = job[d]] /\ daemon' = on
      BY <1>2, <1>10 DEF RecoverCount, TypeInv, rows
    <2>2. job[d].retry \in Nat
      BY <1>2, JobFields DEF TypeInv
    <2>3. on \in DaemonRec /\ on.at = "charge" /\ on.todo = daemon.todo /\ on.job = d
      BY <1>2, <2>2 DEF DaemonRec
    <2> HIDE DEF on
    <2>4. QED BY <1>1, <1>2, <1>3, <1>5, <2>1, <2>3, MendInv
  <1>11. QED BY <1>6, <1>7, <1>8, <1>9, <1>10

-----------------------------------------------------------------------------
(* The theorems.                                                           *)

LEMMA SchedulerInit ==
  ASSUME Init
  PROVE  SchedulerInv
  <1>1. /\ job \in [Jobs -> [mode : Modes, status : {"active"}, enabled : {TRUE}, next : {1},
                             due : {FALSE}, retry : {0}, more : BOOLEAN]]
        /\ open = {} /\ worker = [w \in Workers |-> Dead] /\ daemon = Up /\ quiesced = FALSE
        /\ ran = [j \in OneShots |-> 0] /\ faults = [j \in Jobs |-> 0]
    BY DEF Init
  <1>2. ASSUME NEW j \in Jobs
        PROVE  job[j] \in JobRec /\ job[j].status = "active" /\ job[j].next = 1
    <2> DEFINE r == job[j]
    <2>1. r \in [mode : Modes, status : {"active"}, enabled : {TRUE}, next : {1},
                 due : {FALSE}, retry : {0}, more : BOOLEAN]
      BY <1>1
    <2> HIDE DEF r
    <2>2. {TRUE} \subseteq BOOLEAN /\ {FALSE} \subseteq BOOLEAN
      BY Zenon
    <2>3. {1} \subseteq {0} \cup Stamps /\ {0} \subseteq Nat /\ {"active"} \subseteq Statuses
      BY StampsNat DEF Statuses
    <2>4. r \in JobRec
      BY <2>1, <2>2, <2>3, Zenon DEF JobRec
    <2>5. r.status = "active" /\ r.next = 1
      BY <2>1
    <2>6. QED BY <2>4, <2>5 DEF r
  <1>3. TypeInv
    BY <1>1, <1>2, DeadFacts, UpFacts DEF TypeInv
  <1>4. \A w \in Workers : worker[w] = Dead /\ ~Alive(w) /\ \A j : ~Holds(w, j)
    BY <1>1, DeadFacts DEF Alive, Holds
  <1>5. StageInv
    BY <1>1, <1>4, DeadFacts, UpFacts DEF StageInv, Mending
  <1>6. StampInv
    BY <1>2, <1>4, DeadFacts DEF StampInv, Jobs
  <1>7. OnceInv
    BY <1>4 DEF OnceInv
  <1>8. CountInv
    <2> SUFFICES ASSUME NEW j \in OneShots
                 PROVE  ran[j] + Cardinality(Yet(j)) + One(Claimable(j)) + Pending(j) <= 1 + faults[j]
      BY DEF CountInv
    <2>1. ran[j] = 0 /\ faults[j] = 0
      BY <1>1 DEF Jobs
    <2>2. Yet(j) = {}
      BY <1>4, DeadFacts DEF Yet, MaySucceed
    <2>3. Cardinality(Yet(j)) = 0
      BY <2>2, FS_EmptySet
    <2>4. Pending(j) = 0
      BY <1>4 DEF Pending
    <2>5. One(Claimable(j)) \in {0, 1}
      BY DEF One
    <2>6. QED BY <2>1, <2>3, <2>4, <2>5
  <1>9. QED BY <1>3, <1>5, <1>6, <1>7, <1>8 DEF SchedulerInv

\* Nothing the invariant speaks of moves, except the lease.
LEMMA LeaseInv ==
  ASSUME SchedulerInv, UNCHANGED << job, open, worker, daemon, ran, faults >>, quiesced' \in BOOLEAN
  PROVE  SchedulerInv'
  <1>1. TypeInv'
    BY DEF SchedulerInv, TypeInv
  <1>2. StageInv' /\ StampInv' /\ OnceInv'
    BY DEF SchedulerInv, StageInv, InPlace, Mending, StampInv, OnceInv, Holds, Alive, Entries
  <1>3. CountInv'
    BY DEF SchedulerInv, CountInv, Yet, MaySucceed, Claimable, Pending, Entries, Mending, Holds,
           Alive, One
  <1>4. QED BY <1>1, <1>2, <1>3 DEF SchedulerInv

LEMMA SchedulerNext ==
  ASSUME SchedulerInv, [Next]_vars
  PROVE  SchedulerInv'
  <1>1. CASE UNCHANGED vars
    BY <1>1, LeaseInv DEF vars, SchedulerInv, TypeInv
  <1>2. ASSUME NEW w \in Workers,
               \/ WorkerStep(w) \/ Outcome(w) \/ Spawn(w) \/ ToolsReady(w)
               \/ ToolsReload(w) \/ WorkerDies(w)
        PROVE  SchedulerInv'
    BY <1>2, WorkerInv, SpawnInv, WorkerDiesInv
  <1>3. CASE DaemonStep \/ DaemonDies
    BY <1>3, BootInv, RecoverInv, StartSchedulerInv, RecoverRunInv, DaemonDiesInv DEF DaemonStep
  <1>4. ASSUME NEW j \in Jobs,
               \/ CancelSchedule(j) \/ Disable(j) \/ Enable(j) \/ TimePasses(j)
               \/ LastOccurrence(j)
        PROVE  SchedulerInv'
    BY <1>4, UserInv
  <1>5. CASE SetQuiesce \/ LeaseEnds
    <2>1. UNCHANGED << job, open, worker, daemon, ran, faults >> /\ quiesced' \in BOOLEAN
      BY <1>5 DEF SetQuiesce, LeaseEnds, rows, ghosts
    <2>2. QED BY <2>1, LeaseInv
  <1>6. QED BY <1>1, <1>2, <1>3, <1>4, <1>5 DEF Next

\* The inductive invariant holds of the rows, the workers and the daemon in
\* every reachable state, whatever the jobs, workers and bounds are.
THEOREM SchedulerInvariant == SchedulerSpec => []SchedulerInv
  <1>1. Init => SchedulerInv
    BY SchedulerInit
  <1>2. SchedulerInv /\ [Next]_vars => SchedulerInv'
    BY SchedulerNext
  <1>3. QED BY <1>1, <1>2, PTL DEF SchedulerSpec

\* Claims are atomic in the store (claimDueSchedules): two live workers never
\* hold the same occurrence of a recurring job, nor the same one-shot unless
\* an execution of it was cut off or recovered beside a live worker.
THEOREM ClaimIsExclusive == SchedulerSpec => []ClaimedOnce
  <1>1. SchedulerInv => ClaimedOnce
    <2> SUFFICES ASSUME SchedulerInv, NEW v \in Workers, NEW w \in Workers, NEW j \in Jobs,
                        v # w, Holds(v, j), Holds(w, j)
                 PROVE  \/ j \in Recurring /\ worker[v].claims[j].next # worker[w].claims[j].next
                        \/ j \in OneShots /\ faults[j] > 0
      BY DEF ClaimedOnce
    <2>1. CASE j \in Recurring
      BY <2>1 DEF SchedulerInv, StampInv
    <2>2. CASE j \in OneShots
      <3>1. faults[j] # 0
        BY <2>2 DEF SchedulerInv, OnceInv
      <3>2. faults[j] \in Nat
        BY DEF SchedulerInv, TypeInv
      <3>3. QED BY <2>2, <3>1, <3>2
    <2>3. QED BY <2>1, <2>2 DEF Jobs
  <1>2. QED BY <1>1, SchedulerInvariant, PTL

\* A one-shot runs to success at most once, and once more for every execution
\* that a crash cut off or that the boot's recovery took from a live worker.
THEOREM OneSuccessPerFault == SchedulerSpec => []SucceedsOncePerFault
  <1>1. SchedulerInv => SucceedsOncePerFault
    <2> SUFFICES ASSUME SchedulerInv, NEW j \in OneShots PROVE ran[j] <= 1 + faults[j]
      BY DEF SucceedsOncePerFault
    <2>1. ran[j] \in Nat /\ faults[j] \in Nat
      BY DEF SchedulerInv, TypeInv, Jobs
    <2>2. Cardinality(Yet(j)) \in Nat /\ Pending(j) \in Nat
      BY YetFinite, PendingNat DEF SchedulerInv
    <2>3. One(Claimable(j)) \in {0, 1}
      BY DEF One
    <2>4. ran[j] + Cardinality(Yet(j)) + One(Claimable(j)) + Pending(j) <= 1 + faults[j]
      BY DEF SchedulerInv, CountInv
    <2>5. QED BY <2>1, <2>2, <2>3, <2>4
  <1>2. QED BY <1>1, SchedulerInvariant, PTL

\* One row is written, and from a settled status no other.
LEMMA KeepsSettled ==
  ASSUME TypeInv, NEW j \in Jobs, NEW new, job' = [job EXCEPT ![j] = new],
         Settled(j) => new.status = job[j].status
  PROVE  \A i \in Jobs : Settled(i) => job'[i].status = job[i].status
  BY DEF TypeInv

\* A status a statement writes from firing is no change to a settled row.
LEMMA StatusKeeps ==
  ASSUME NEW j \in Jobs, NEW status, Settled(j)
  PROVE  Status(job[j], status) = job[j].status
  BY DEF Settled, Status

LEMMA UserKeepsSettled ==
  ASSUME TypeInv, NEW j \in Jobs,
         \/ CancelSchedule(j) \/ Disable(j) \/ Enable(j) \/ TimePasses(j) \/ LastOccurrence(j)
  PROVE  \A i \in Jobs : Settled(i) => job'[i].status = job[i].status
  <1>1. job[j] \in JobRec
    BY DEF TypeInv
  <1>2. CASE CancelSchedule(j)
    BY <1>1, <1>2, KeepsSettled DEF CancelSchedule, Settled
  <1>3. CASE Disable(j)
    <2> DEFINE new == IF j \in Recurring THEN [job[j] EXCEPT !.enabled = FALSE, !.next = 0, !.due = TRUE]
                                         ELSE [job[j] EXCEPT !.enabled = FALSE]
    <2>1. job' = [job EXCEPT ![j] = new] /\ new.status = job[j].status
      BY <1>1, <1>3 DEF Disable, JobRec
    <2> HIDE DEF new
    <2>2. QED BY <2>1, KeepsSettled
  <1>4. CASE Enable(j)
    <2> DEFINE new == IF j \in Recurring THEN [Later(j, job[j]) EXCEPT !.enabled = TRUE]
                                         ELSE [job[j] EXCEPT !.enabled = TRUE]
    <2>1. job' = [job EXCEPT ![j] = new] /\ new.status = job[j].status
      BY <1>1, <1>4 DEF Enable, Later, JobRec
    <2> HIDE DEF new
    <2>2. QED BY <2>1, KeepsSettled
  <1>5. CASE TimePasses(j)
    <2>1. /\ job' = [job EXCEPT ![j] = [job[j] EXCEPT !.due = TRUE]]
          /\ [job[j] EXCEPT !.due = TRUE].status = job[j].status
      BY <1>1, <1>5 DEF TimePasses, JobRec
    <2>2. QED BY <2>1, KeepsSettled
  <1>6. CASE LastOccurrence(j)
    <2>1. /\ job' = [job EXCEPT ![j] = [job[j] EXCEPT !.more = FALSE]]
          /\ [job[j] EXCEPT !.more = FALSE].status = job[j].status
      BY <1>1, <1>6 DEF LastOccurrence, JobRec
    <2>2. QED BY <2>1, KeepsSettled
  <1>7. QED BY <1>2, <1>3, <1>4, <1>5, <1>6

LEMMA DaemonKeepsSettled ==
  ASSUME TypeInv, StageInv, DaemonStep \/ DaemonDies
  PROVE  \A i \in Jobs : Settled(i) => job'[i].status = job[i].status
  <1> DEFINE d == daemon.job
  <1>1. CASE job' = job
    BY <1>1
  <1>2. CASE RecoverCharge \/ RecoverDecide \/ RecoverRevert
    <2>1. d \in Jobs /\ daemon.retry \in Nat /\ daemon.count \in Nat
      BY <1>2 DEF RecoverCharge, RecoverDecide, RecoverRevert, StageInv, Mending, TypeInv, DaemonRec
    <2>2. CASE RecoverCharge
      BY <2>1, <2>2, ChargeFacts, KeepsSettled DEF RecoverCharge
    <2>3. CASE RecoverDecide
      <3> DEFINE new == ApplyRetryDecision(d, job[d], daemon.retry)
      <3>1. job' = [job EXCEPT ![d] = new]
        BY <2>3 DEF RecoverDecide
      <3>2. \/ new.status = job[d].status
            \/ new.status = Status(job[d], "cancelled")
        BY <2>1, ApplyFacts DEF Jobs
      <3> HIDE DEF new
      <3>3. Settled(d) => new.status = job[d].status
        BY <2>1, <3>2, StatusKeeps
      <3>4. QED BY <2>1, <3>1, <3>3, KeepsSettled
    <2>4. CASE RecoverRevert
      <3>1. job' = [job EXCEPT ![d] = RevertStatus(job[d])]
        BY <2>4 DEF RecoverRevert
      <3>2. Settled(d) => RevertStatus(job[d]).status = job[d].status
        BY <2>1, SettleFacts, StatusKeeps
      <3>3. QED BY <2>1, <3>1, <3>2, KeepsSettled
    <2>5. QED BY <1>2, <2>2, <2>3, <2>4
  <1>3. QED
    BY <1>1, <1>2 DEF DaemonStep, Boot, StartScheduler, RecoverRun, RecoverClose, RecoverCount,
                      DaemonDies, rows

\* A one-shot that has fired or was cancelled stays that way: every statement
\* that gives a row another status asks for firing or active in its WHERE.
THEOREM SettledStays == SchedulerSpec => SettledIsFinal
  <1>1. ASSUME SchedulerInv, [Next]_vars
        PROVE  \A j \in Jobs : Settled(j) => job'[j].status = job[j].status
    <2>1. TypeInv /\ StageInv /\ StampInv
      BY <1>1 DEF SchedulerInv
    <2>2. CASE job' = job
      BY <2>2
    <2>3. ASSUME NEW w \in Workers,
                 \/ WorkerStep(w) \/ Outcome(w) \/ Spawn(w) \/ ToolsReady(w)
                 \/ ToolsReload(w) \/ WorkerDies(w)
          PROVE  \A j \in Jobs : Settled(j) => job'[j].status = job[j].status
      <3>1. CASE WorkerStep(w) \/ Outcome(w) \/ ToolsReady(w) \/ ToolsReload(w)
        <4>1. PICK v : Effect(w, v)
          BY <2>1, <3>1, WorkerEffect
        <4>2. QED BY <4>1 DEF Effect
      <3>2. CASE Spawn(w) \/ WorkerDies(w)
        BY <2>2, <3>2 DEF Spawn, WorkerDies, rows
      <3>3. QED BY <2>3, <3>1, <3>2
    <2>4. CASE DaemonStep \/ DaemonDies
      BY <2>1, <2>4, DaemonKeepsSettled
    <2>5. ASSUME NEW j \in Jobs,
                 \/ CancelSchedule(j) \/ Disable(j) \/ Enable(j) \/ TimePasses(j)
                 \/ LastOccurrence(j)
          PROVE  \A i \in Jobs : Settled(i) => job'[i].status = job[i].status
      BY <2>1, <2>5, UserKeepsSettled
    <2>6. CASE SetQuiesce \/ LeaseEnds \/ UNCHANGED vars
      BY <2>2, <2>6 DEF SetQuiesce, LeaseEnds, rows, vars
    <2>7. QED BY <1>1, <2>3, <2>4, <2>5, <2>6 DEF Next
  <1>2. SchedulerInv /\ [Next]_vars
          => [\A j \in Jobs : Settled(j) => job'[j].status = job[j].status]_vars
    BY <1>1
  <1>3. QED BY <1>2, SchedulerInvariant, PTL DEF SchedulerSpec, SettledIsFinal

-----------------------------------------------------------------------------
(* What is charged to a job.                                               *)

\* A worker between the start of a cron_runs row of j and its end.
RunsAt(v, j) == /\ v.job = j
                /\ \/ v.at \in {"ok", "failed"}
                   \/ v.at = "working" /\ Tracked(j)
Running(w, j) == w \in Workers /\ RunsAt(worker[w], j)

\* The charges to come: of a worker whose run has failed, ...
Owing == {"lost", "failed", "count", "charge"}
Failing(j) == {w \in Workers : worker[w].at \in Owing /\ worker[w].job = j}

\* ... of a recovery for what it has on its list, or will find without a worker
\* that runs it, other than the run it is about to close, ...
InHand(o) == daemon.at = "close" /\ o = <<daemon.of, daemon.job>>
Stale(j) ==
  Entries(j) \cup {o \in open : o[2] = j /\ ~Running(o[1], j) /\ ~InHand(o)}

\* ... for what it has in hand, ...
Charging(j) == daemon.at \in {"close", "count", "charge"} /\ daemon.job = j

\* ... and for a one-shot left firing without any trace of a run.
Stranded(j) == /\ j \in OneShots /\ job[j].status = "firing"
               /\ \A w \in Workers : ~Holds(w, j)
               /\ \A o \in open : o[2] # j
               /\ Entries(j) = {} /\ ~(Mending /\ daemon.job = j)

Debt(j) == Cardinality(Failing(j)) + Cardinality(Stale(j)) + One(Charging(j)) + One(Stranded(j))

\* What a charge may be for.
Paid(j) == failed[j] + faults[j]

\* What is charged, and what will be, is paid for.
DebtInv == \A j \in Jobs : job[j].retry + Debt(j) <= Paid(j)

\* So is a count that is about to be written back one higher, whatever has
\* been written since it was read.
ReadInv ==
  \A j \in Jobs :
    /\ \A w \in Workers : worker[w].at = "charge" /\ worker[w].job = j =>
                            worker[w].count + Debt(j) <= Paid(j)
    /\ daemon.at = "charge" /\ daemon.job = j => daemon.count + Debt(j) <= Paid(j)

\* A count somebody has claimed with is paid for, and so is the failure beside
\* it on which a decision is to be taken.
Knows(v, j) ==
  /\ j \in DOMAIN v.seen => v.seen[j].retry <= Paid(j)
  /\ j \in DOMAIN v.claims => v.claims[j].retry <= Paid(j)
  /\ v.at \in Owing \cup {"decide"} /\ v.job = j => v.claims[j].retry < Paid(j)

KnownInv ==
  /\ \A w \in Workers, j \in Jobs : Knows(worker[w], j)
  /\ Mending => daemon.retry < Paid(daemon.job)

\* A worker that is not at a job has none.
TidyInv ==
  /\ failed \in [Jobs -> Nat]
  /\ \A w \in Workers : worker[w].at \notin BusyAts => worker[w].job = NoJob

LedgerInv == TidyInv /\ DebtInv /\ ReadInv /\ KnownInv

LEMMA RetryFacts ==
  ASSUME TypeInv, NEW j \in Jobs
  PROVE  /\ Later(j, job[j]).retry = job[j].retry
         /\ Requeue(j, job[j]).retry = job[j].retry
         /\ Advance(j, job[j]).retry = job[j].retry
         /\ CompleteOneShot(job[j]).retry = job[j].retry
         /\ FailOneShotPermanently(job[j]).retry = job[j].retry
         /\ RevertStatus(job[j]).retry = job[j].retry
         /\ RetryOneShot(job[j]).retry <= job[j].retry + 1
         /\ \A n : ChargeRetry(job[j], TRUE, n).retry = 0
         /\ \A n : ChargeRetry(job[j], FALSE, n).retry = n + 1
         /\ \A n : ApplyRetryDecision(j, job[j], n).retry <= job[j].retry
  <1> DEFINE r == job[j]
  <1>1. r \in JobRec /\ r.retry \in Nat
    BY JobFields DEF TypeInv
  <1> HIDE DEF r
  <1>2. Later(j, r).retry = r.retry
    BY <1>1 DEF Later, JobRec
  <1>3. Requeue(j, r).retry = r.retry
    BY <1>1, <1>2 DEF Requeue, Later, JobRec
  <1>4. Advance(j, r).retry = r.retry
    BY <1>1, <1>2 DEF Advance, JobRec
  <1>5. ASSUME NEW status, NEW enabled PROVE FromFiring(r, status, enabled).retry = r.retry
    BY <1>1 DEF FromFiring, JobRec
  <1>6. /\ CompleteOneShot(r).retry = r.retry /\ FailOneShotPermanently(r).retry = r.retry
        /\ RevertStatus(r).retry = r.retry
    BY <1>5 DEF CompleteOneShot, FailOneShotPermanently, RevertStatus
  <1>7. RetryOneShot(r).retry <= r.retry + 1
    <2>1. CASE r.status = "firing"
      BY <1>1, <2>1 DEF RetryOneShot, RevertStatus, FromFiring, JobRec
    <2>2. CASE r.status # "firing"
      BY <1>1, <2>2 DEF RetryOneShot
    <2>3. QED BY <2>1, <2>2
  <1>8. ASSUME NEW n PROVE ChargeRetry(r, TRUE, n).retry = 0 /\ ChargeRetry(r, FALSE, n).retry = n + 1
    BY <1>1 DEF ChargeRetry, JobRec
  <1>9. ASSUME NEW n PROVE ApplyRetryDecision(j, r, n).retry <= r.retry
    <2>1. [r EXCEPT !.retry = 0].retry = 0
      BY <1>1 DEF JobRec
    <2>2. \/ ApplyRetryDecision(j, r, n) = Later(j, r)
          \/ ApplyRetryDecision(j, r, n) = FailOneShotPermanently(r)
          \/ ApplyRetryDecision(j, r, n) = [r EXCEPT !.retry = 0]
      BY DEF ApplyRetryDecision
    <2>3. CASE ApplyRetryDecision(j, r, n) = [r EXCEPT !.retry = 0]
      BY <1>1, <2>1, <2>3
    <2>4. CASE ApplyRetryDecision(j, r, n) = Later(j, r)
      BY <1>1, <1>2, <2>4
    <2>5. CASE ApplyRetryDecision(j, r, n) = FailOneShotPermanently(r)
      BY <1>1, <1>6, <2>5
    <2>6. QED BY <2>2, <2>3, <2>4, <2>5
  <1>10. QED BY <1>2, <1>3, <1>4, <1>6, <1>7, <1>8, <1>9 DEF r

LEMMA DebtFinite ==
  ASSUME TypeInv, NEW j
  PROVE  /\ IsFiniteSet(Failing(j)) /\ Cardinality(Failing(j)) \in Nat
         /\ IsFiniteSet(Stale(j)) /\ Cardinality(Stale(j)) \in Nat
         /\ One(Charging(j)) \in {0, 1} /\ One(Stranded(j)) \in {0, 1}
  <1>1. IsFiniteSet(Failing(j)) /\ Cardinality(Failing(j)) \in Nat
    BY SchedulerConstants, FS_Subset, FS_CardinalityType DEF Failing
  <1>2. IsFiniteSet(Sources \X {j})
    BY SchedulerConstants, FS_AddElement, FS_Singleton, FS_Product DEF Sources
  <1>3. {o \in open : o[2] = j /\ ~Running(o[1], j) /\ ~InHand(o)} \subseteq Sources \X {j}
    BY DEF TypeInv
  <1>4. IsFiniteSet({o \in open : o[2] = j /\ ~Running(o[1], j) /\ ~InHand(o)})
    BY <1>2, <1>3, FS_Subset
  <1>5. IsFiniteSet(Stale(j)) /\ Cardinality(Stale(j)) \in Nat
    BY <1>4, PendingNat, FS_Union, FS_CardinalityType DEF Stale
  <1>6. QED BY <1>1, <1>5 DEF One

LEMMA PaidNat ==
  ASSUME TypeInv, TidyInv, NEW j \in Jobs
  PROVE  Paid(j) \in Nat /\ failed[j] \in Nat /\ faults[j] \in Nat
  BY DEF TypeInv, TidyInv, Paid

\* Somebody is added to a set, or taken from it.
LEMMA CardSteps ==
  ASSUME NEW S, IsFiniteSet(S), NEW x
  PROVE  /\ \A T \in SUBSET S : Cardinality(T) \in Nat /\ Cardinality(T) <= Cardinality(S)
         /\ \A T \in SUBSET (S \cup {x}) : Cardinality(T) <= Cardinality(S) + 1
         /\ x \in S => \A T \in SUBSET (S \ {x}) : Cardinality(T) + 1 <= Cardinality(S)
  <1>1. IsFiniteSet(S) /\ Cardinality(S) \in Nat
    BY FS_CardinalityType
  <1>2. /\ IsFiniteSet(S \cup {x}) /\ Cardinality(S \cup {x}) \in Nat
        /\ Cardinality(S \cup {x}) <= Cardinality(S) + 1
    <2>1. CASE x \in S
      <3>1. S \cup {x} = S
        BY <2>1
      <3>2. Cardinality(S) <= Cardinality(S) + 1
        BY <1>1
      <3>3. QED BY <1>1, <3>1, <3>2, Zenon
    <2>2. CASE x \notin S
      BY <1>1, <2>2, FS_AddElement
    <2>3. QED BY <2>1, <2>2
  <1>3. /\ IsFiniteSet(S \ {x}) /\ Cardinality(S \ {x}) \in Nat
        /\ x \in S => Cardinality(S \ {x}) = Cardinality(S) - 1
    BY <1>1, FS_RemoveElement, FS_CardinalityType
  <1>4. ASSUME NEW T \in SUBSET S
        PROVE  Cardinality(T) \in Nat /\ Cardinality(T) <= Cardinality(S)
    BY FS_Subset, FS_CardinalityType
  <1>5. ASSUME NEW T \in SUBSET (S \cup {x}) PROVE Cardinality(T) <= Cardinality(S) + 1
    <2>1. Cardinality(T) \in Nat /\ Cardinality(T) <= Cardinality(S \cup {x})
      BY <1>2, FS_Subset, FS_CardinalityType
    <2>2. QED BY <1>1, <1>2, <2>1
  <1>6. ASSUME x \in S, NEW T \in SUBSET (S \ {x}) PROVE Cardinality(T) + 1 <= Cardinality(S)
    <2>1. Cardinality(T) \in Nat /\ Cardinality(T) <= Cardinality(S \ {x})
      BY <1>3, FS_Subset, FS_CardinalityType
    <2>2. QED BY <1>1, <1>3, <1>6, <2>1
  <1>7. QED BY <1>4, <1>5, <1>6

LEMMA CardUnion ==
  ASSUME NEW S, IsFiniteSet(S), NEW T, IsFiniteSet(T), NEW U \in SUBSET (S \cup T)
  PROVE  Cardinality(U) \in Nat /\ Cardinality(U) <= Cardinality(S) + Cardinality(T)
  <1>1. /\ IsFiniteSet(S \cup T) /\ IsFiniteSet(S \cap T)
        /\ Cardinality(S \cup T) = Cardinality(S) + Cardinality(T) - Cardinality(S \cap T)
    BY FS_Union, FS_Intersection
  <1>2. /\ Cardinality(S) \in Nat /\ Cardinality(T) \in Nat
        /\ Cardinality(S \cup T) \in Nat /\ Cardinality(S \cap T) \in Nat
    BY <1>1, FS_CardinalityType
  <1>3. /\ IsFiniteSet(U) /\ Cardinality(U) <= Cardinality(S \cup T)
    BY <1>1, FS_Subset
  <1>4. Cardinality(U) \in Nat
    BY <1>3, FS_CardinalityType
  <1>5. QED BY <1>1, <1>2, <1>3, <1>4

\* A count that is paid for stays so while no more comes due than is paid.
LEMMA StaysPaid ==
  ASSUME NEW n \in Nat, NEW d \in Nat, NEW p \in Nat, NEW e \in Nat, NEW q \in Nat,
         n + d <= p, e + p <= d + q
  PROVE  n + e <= q
  OBVIOUS

\* The ledger of a job after a step: a charge is taken from what was to come,
\* or paid for by the step.
Balanced(j, w) ==
  \/ /\ job'[j].retry <= job[j].retry /\ Paid(j)' >= Paid(j)
     /\ Failing(j)' \subseteq Failing(j)
  \/ /\ job'[j].retry <= job[j].retry + 1 /\ Paid(j)' >= Paid(j) + 1
     /\ Failing(j)' \subseteq Failing(j)
  \/ /\ job'[j].retry <= job[j].retry /\ Paid(j)' >= Paid(j) + 1
     /\ Failing(j)' \subseteq Failing(j) \cup {w}
  \/ /\ worker[w].at = "charge" /\ worker[w].job = j
     /\ job'[j].retry <= worker[w].count + 1 /\ Paid(j)' >= Paid(j)
     /\ w \in Failing(j) /\ Failing(j)' \subseteq Failing(j) \ {w}

LEMMA WorkerDebt ==
  ASSUME TypeInv, TidyInv, DebtInv, ReadInv, TypeInv', TidyInv', NEW w \in Workers, NEW j \in Jobs,
         Stale(j)' \subseteq Stale(j), Charging(j)' => Charging(j), Stranded(j)' => Stranded(j),
         Balanced(j, w)
  PROVE  /\ job'[j].retry + Debt(j)' <= Paid(j)'
         /\ Debt(j) \in Nat /\ Debt(j)' \in Nat
         /\ Debt(j)' + Paid(j) <= Debt(j) + Paid(j)'
  <1> DEFINE f == Cardinality(Failing(j))  g == Cardinality(Failing(j)')
             s == Cardinality(Stale(j))    t == Cardinality(Stale(j)')
             a == One(Charging(j))         b == One(Charging(j)')
             c == One(Stranded(j))         d == One(Stranded(j)')
             n == worker[w].count
  <1>1. /\ f \in Nat /\ IsFiniteSet(Failing(j)) /\ s \in Nat /\ IsFiniteSet(Stale(j))
        /\ a \in {0, 1} /\ c \in {0, 1}
    BY DebtFinite
  <1>2. t \in Nat /\ t <= s
    BY <1>1, CardSteps
  <1>3. b \in {0, 1} /\ b <= a /\ d \in {0, 1} /\ d <= c
    BY DEF One
  <1>4. /\ Paid(j) \in Nat /\ job[j].retry \in Nat
    BY PaidNat, JobFields DEF TypeInv
  <1>5. job'[j].retry \in Nat /\ Paid(j)' \in Nat
    BY JobFields DEF TypeInv, TidyInv, Paid
  <1>6. /\ Debt(j) = f + s + a + c /\ Debt(j)' = g + t + b + d
    BY DEF Debt, One
  <1>7. job[j].retry + (f + s + a + c) <= Paid(j)
    BY <1>6 DEF DebtInv
  <1>8. /\ Failing(j)' \subseteq Failing(j) => g \in Nat /\ g <= f
        /\ Failing(j)' \subseteq Failing(j) \cup {w} => g <= f + 1
        /\ w \in Failing(j) /\ Failing(j)' \subseteq Failing(j) \ {w} => g + 1 <= f
    BY <1>1, CardSteps
  <1>9. g \in Nat
    <2>1. Failing(j)' \subseteq Workers
      BY DEF Failing
    <2>2. QED BY <2>1, SchedulerConstants, FS_Subset, FS_CardinalityType
  <1>10. /\ n \in Nat
         /\ worker[w].at = "charge" /\ worker[w].job = j => n + (f + s + a + c) <= Paid(j)
    BY <1>6 DEF TypeInv, WorkerRec, ReadInv
  <1> HIDE DEF f, g, s, t, a, b, c, d
  <1>11. (g + t + b + d) + Paid(j) <= (f + s + a + c) + Paid(j)'
    BY <1>1, <1>2, <1>3, <1>4, <1>5, <1>8, <1>9 DEF Balanced
  <1>12. CASE job'[j].retry <= job[j].retry
    BY <1>1, <1>2, <1>3, <1>4, <1>5, <1>6, <1>7, <1>9, <1>11, <1>12
  <1>13. CASE /\ job'[j].retry <= job[j].retry + 1 /\ Paid(j)' >= Paid(j) + 1
              /\ Failing(j)' \subseteq Failing(j)
    BY <1>1, <1>2, <1>3, <1>4, <1>5, <1>6, <1>7, <1>8, <1>9, <1>11, <1>13
  <1>14. CASE /\ worker[w].at = "charge" /\ worker[w].job = j
              /\ job'[j].retry <= n + 1 /\ Paid(j)' >= Paid(j)
              /\ w \in Failing(j) /\ Failing(j)' \subseteq Failing(j) \ {w}
    <2> HIDE DEF n
    <2>1. g + 1 <= f /\ n + (f + s + a + c) <= Paid(j) /\ n \in Nat
      BY <1>8, <1>10, <1>14
    <2>2. QED BY <1>1, <1>2, <1>3, <1>4, <1>5, <1>6, <1>9, <1>11, <1>14, <2>1
  <1>15. QED BY <1>12, <1>13, <1>14 DEF Balanced

\* What a step of a worker does to the ledger.
Books(w) ==
  LET u == worker[w]
      v == worker'[w]
  IN  /\ \A j \in DOMAIN v.seen : \/ j \in DOMAIN u.seen /\ v.seen[j] = u.seen[j]
                                  \/ v.seen[j].retry = job[j].retry
      /\ \A j \in DOMAIN v.claims : \/ j \in DOMAIN u.claims /\ v.claims[j] = u.claims[j]
                                    \/ j \in DOMAIN u.seen /\ v.claims[j] = u.seen[j]
      /\ v.at \notin BusyAts => v.job = NoJob
      /\ \A o \in open' : \/ o[1] = w /\ RunsAt(v, o[2])
                          \/ o \in open /\ ~(o[1] = w /\ RunsAt(u, o[2]))
      /\ \A o \in open : o \in open' \/ Holds(w, o[2])
      /\ v.at \in Owing \cup {"decide"} =>
           /\ v.job = u.job /\ v.claims = u.claims
           /\ u.at \in Owing \cup {"decide"} \/ failed'[u.job] = failed[u.job] + 1
      /\ v.at = "charge" => \/ u.at = "charge" /\ v.count = u.count
                            \/ u.at = "count" /\ v.count = job[u.job].retry
      /\ failed' \in [Jobs -> Nat]
      /\ \A j \in Jobs :
           /\ failed'[j] \in {failed[j], failed[j] + 1}
           /\ \/ /\ job'[j].retry <= job[j].retry
                 /\ v.at \in Owing /\ v.job = j => u.at \in Owing /\ u.job = j
              \/ /\ job'[j].retry <= job[j].retry + 1 /\ failed'[j] = failed[j] + 1
                 /\ v.at \in Owing /\ v.job = j => u.at \in Owing /\ u.job = j
              \/ job'[j].retry <= job[j].retry /\ failed'[j] = failed[j] + 1
              \/ /\ job'[j].retry <= u.count + 1
                 /\ u.at = "charge" /\ u.job = j /\ ~(v.at \in Owing /\ v.job = j)

\* Such a step, and the effect it has on the rows, keep the ledger.
LEMMA BooksLedger ==
  ASSUME SchedulerInv, SchedulerInv', LedgerInv, NEW w \in Workers, NEW v, Effect(w, v), Books(w)
  PROVE  LedgerInv'
  <1> DEFINE u == worker[w]
             x == worker'[w]
  <1>1. /\ TypeInv /\ StageInv /\ TypeInv' /\ StageInv' /\ TidyInv /\ DebtInv /\ ReadInv /\ KnownInv
    BY DEF SchedulerInv, LedgerInv
  <1>2. /\ \A y \in Workers : y # w => worker'[y] = worker[y]
        /\ UNCHANGED << daemon, faults >> /\ x = v
        /\ \A j \in Jobs : Sane(j, job'[j])
        /\ \A i \in OneShots : OneShotEffect(w, v, i)
    BY DEF Effect, Moves
  <1>3. \A j \in Jobs : Tracked(j)' <=> Tracked(j)
    BY <1>2 DEF Tracked, Sane
  <1>4. TidyInv'
    <2>1. failed' \in [Jobs -> Nat] /\ (x.at \notin BusyAts => x.job = NoJob)
      BY DEF Books
    <2>2. QED BY <1>1, <1>2, <2>1 DEF TidyInv
  <1>5. ASSUME NEW j \in Jobs PROVE Paid(j) \in Nat /\ Paid(j)' \in Nat /\ Paid(j)' >= Paid(j)
    <2>1. failed[j] \in Nat /\ faults[j] \in Nat /\ Paid(j) \in Nat
      BY <1>1, PaidNat
    <2>2. failed'[j] \in {failed[j], failed[j] + 1} /\ faults'[j] = faults[j]
      BY <1>2 DEF Books
    <2>3. QED BY <2>1, <2>2 DEF Paid
  <1>6. ASSUME NEW j \in Jobs
        PROVE  /\ job'[j].retry + Debt(j)' <= Paid(j)'
               /\ Debt(j) \in Nat /\ Debt(j)' \in Nat
               /\ Debt(j)' + Paid(j) <= Debt(j) + Paid(j)'
    <2>1. Charging(j)' => Charging(j)
      BY <1>2 DEF Charging
    <2>2. Stale(j)' \subseteq Stale(j)
      <3>1. Entries(j)' = Entries(j)
        BY <1>2 DEF Entries
      <3>2. ASSUME NEW o \in open', o[2] = j, ~Running(o[1], j)'
            PROVE  o \in open /\ ~Running(o[1], j)
        <4>1. CASE o[1] = w
          <5>1. ~RunsAt(x, j)
            BY <1>3, <3>2, <4>1 DEF Running, RunsAt
          <5>2. o \in open /\ ~RunsAt(u, j)
            BY <3>2, <4>1, <5>1 DEF Books
          <5>3. QED BY <4>1, <5>2 DEF Running
        <4>2. CASE o[1] # w
          <5>1. o \in open
            BY <4>2 DEF Books
          <5>2. o[1] \in Workers => worker'[o[1]] = worker[o[1]]
            BY <1>2, <4>2
          <5>3. QED BY <1>3, <3>2, <5>1, <5>2 DEF Running, RunsAt
        <4>3. QED BY <4>1, <4>2
      <3>3. \A o : InHand(o)' <=> InHand(o)
        BY <1>2 DEF InHand
      <3>4. QED BY <3>1, <3>2, <3>3 DEF Stale
    <2>3. Stranded(j)' => Stranded(j)
      <3> SUFFICES ASSUME Stranded(j)' PROVE Stranded(j)
        OBVIOUS
      <3>1. /\ j \in OneShots /\ job'[j].status = "firing"
            /\ \A y \in Workers : j \notin DOMAIN worker'[y].claims
            /\ \A o \in open' : o[2] # j
            /\ Entries(j) = {} /\ ~(Mending /\ daemon.job = j)
        BY <1>2 DEF Stranded, Holds, Entries, Mending
      <3>2. Kept(w, v, j)
        BY <1>2, <3>1 DEF OneShotEffect, Claimed, Succeeded, Ended
      <3>3. job[j].status = "firing" /\ ~Holds(w, j)
        BY <1>2, <3>1, <3>2 DEF Kept
      <3>4. \A y \in Workers : ~Holds(y, j)
        BY <1>2, <3>1, <3>3 DEF Holds
      <3>5. \A o \in open : o[2] # j
        BY <3>1, <3>3 DEF Books
      <3>6. QED BY <3>1, <3>3, <3>4, <3>5 DEF Stranded
    <2>4. Balanced(j, w)
      <3>1. /\ Failing(j)' \subseteq Failing(j) \cup {w}
            /\ (x.at \in Owing /\ x.job = j) \/ Failing(j)' \subseteq Failing(j) \ {w}
            /\ u.at \in Owing /\ u.job = j => w \in Failing(j)
        BY <1>2 DEF Failing, Owing
      <3>2. /\ \/ /\ job'[j].retry <= job[j].retry
                  /\ x.at \in Owing /\ x.job = j => u.at \in Owing /\ u.job = j
               \/ /\ job'[j].retry <= job[j].retry + 1 /\ failed'[j] = failed[j] + 1
                  /\ x.at \in Owing /\ x.job = j => u.at \in Owing /\ u.job = j
               \/ job'[j].retry <= job[j].retry /\ failed'[j] = failed[j] + 1
               \/ /\ job'[j].retry <= u.count + 1
                  /\ u.at = "charge" /\ u.job = j /\ ~(x.at \in Owing /\ x.job = j)
        BY DEF Books
      <3>3. failed'[j] = failed[j] + 1 => Paid(j)' >= Paid(j) + 1
        <4>1. failed[j] \in Nat /\ faults[j] \in Nat /\ faults'[j] = faults[j]
          BY <1>1, <1>2, PaidNat
        <4>2. QED BY <4>1 DEF Paid
      <3>4. Failing(j)' \subseteq Failing(j)
            \/ (x.at \in Owing /\ x.job = j /\ ~(u.at \in Owing /\ u.job = j))
        BY <3>1
      <3>5. u.at = "charge" => u.at \in Owing
        BY DEF Owing
      <3>6. (u.at = "charge" <=> worker[w].at = "charge") /\ u.job = worker[w].job /\ u.count = worker[w].count
        OBVIOUS
      <3> HIDE DEF u, x
      <3>7. QED BY <1>5, <3>1, <3>2, <3>3, <3>4, <3>5, <3>6 DEF Balanced
    <2>5. QED BY <1>1, <1>4, <2>1, <2>2, <2>3, <2>4, WorkerDebt
  <1>7. KnownInv'
    <2>1. ASSUME NEW j \in Jobs PROVE Knows(worker[w], j)'
      <3>1. Knows(u, j) /\ u \in WorkerRec /\ job[j].retry \in Nat
        BY <1>1, JobFields DEF KnownInv, TypeInv
      <3>2. job[j].retry <= Paid(j)
        <4>1. job[j].retry + Debt(j) <= Paid(j) /\ Debt(j) \in Nat
          BY <1>1, DebtFinite DEF DebtInv, Debt
        <4>2. QED BY <1>5, <3>1, <4>1
      <3>3. j \in DOMAIN x.seen => x.seen[j].retry <= Paid(j)'
        <4>1. \/ j \in DOMAIN u.seen /\ x.seen[j] = u.seen[j]
              \/ x.seen[j].retry = job[j].retry
              \/ j \notin DOMAIN x.seen
          BY DEF Books
        <4>2. j \in DOMAIN u.seen => u.seen[j].retry \in Nat
          BY <3>1, WorkerFields DEF Entry
        <4>3. QED BY <1>5, <3>1, <3>2, <4>1, <4>2 DEF Knows
      <3>4. j \in DOMAIN x.claims => x.claims[j].retry <= Paid(j)'
        <4>1. \/ j \in DOMAIN u.claims /\ x.claims[j] = u.claims[j]
              \/ j \in DOMAIN u.seen /\ x.claims[j] = u.seen[j]
              \/ j \notin DOMAIN x.claims
          BY DEF Books
        <4>2. /\ j \in DOMAIN u.seen => u.seen[j].retry \in Nat
              /\ j \in DOMAIN u.claims => u.claims[j].retry \in Nat
          BY <3>1, WorkerFields DEF Entry
        <4>3. QED BY <1>5, <3>1, <4>1, <4>2 DEF Knows
      <3>5. ASSUME x.at \in Owing \cup {"decide"}, x.job = j
            PROVE  x.claims[j].retry < Paid(j)'
        <4>1. /\ j = u.job /\ x.claims = u.claims
              /\ u.at \in Owing \cup {"decide"} \/ failed'[j] = failed[j] + 1
          BY <3>5 DEF Books, Owing
        <4>2. j \in DOMAIN x.claims
          <5>1. InPlace(x)
            BY <1>2 DEF Effect
          <5>2. x.at \in BusyAts
            BY <3>5 DEF Owing, BusyAts
          <5>3. QED BY <3>5, <5>1, <5>2 DEF InPlace
        <4>3. u.claims[j].retry \in Nat
          BY <3>1, <4>1, <4>2, WorkerFields DEF Entry
        <4>4. CASE u.at \in Owing \cup {"decide"}
          BY <1>5, <3>1, <4>1, <4>3, <4>4 DEF Knows, Owing
        <4>5. CASE failed'[j] = failed[j] + 1
          <5>1. Paid(j)' = Paid(j) + 1
            <6>1. failed[j] \in Nat /\ faults[j] \in Nat /\ faults'[j] = faults[j]
              BY <1>1, <1>2, PaidNat
            <6>2. QED BY <4>5, <6>1 DEF Paid
          <5>2. u.claims[j].retry <= Paid(j)
            BY <3>1, <4>1, <4>2 DEF Knows
          <5>3. QED BY <1>5, <4>1, <4>3, <5>1, <5>2
        <4>6. QED BY <4>1, <4>4, <4>5
      <3>6. QED BY <3>3, <3>4, <3>5 DEF Knows, Paid
    <2>2. ASSUME NEW y \in Workers, NEW j \in Jobs, y # w PROVE Knows(worker[y], j)'
      <3>1. Knows(worker[y], j) /\ worker[y] \in WorkerRec /\ worker'[y] = worker[y]
        BY <1>1, <1>2, <2>2 DEF KnownInv, TypeInv
      <3>2. /\ j \in DOMAIN worker[y].seen => worker[y].seen[j].retry \in Nat
            /\ j \in DOMAIN worker[y].claims => worker[y].claims[j].retry \in Nat
            /\ worker[y].at \in BusyAts => worker[y].job \in DOMAIN worker[y].claims
        BY <1>1, <3>1, WorkerFields DEF Entry, StageInv, InPlace
      <3>3. Owing \cup {"decide"} \subseteq BusyAts
        BY DEF Owing, BusyAts
      <3>4. QED BY <1>5, <3>1, <3>2, <3>3 DEF Knows, Paid
    <2>3. (Mending => daemon.retry < Paid(daemon.job))'
      <3>1. Mending => daemon.job \in Jobs /\ daemon.retry \in Nat
        BY <1>1 DEF StageInv, TypeInv, DaemonRec
      <3>2. QED BY <1>1, <1>2, <1>5, <3>1 DEF KnownInv, Mending, Paid
    <2>4. QED BY <2>1, <2>2, <2>3 DEF KnownInv
  <1>8. ASSUME NEW j \in Jobs, NEW n \in Nat, n + Debt(j) <= Paid(j)
        PROVE  n + Debt(j)' <= Paid(j)'
    <2>1. QED BY <1>5, <1>6, <1>8, StaysPaid
  <1>9. ReadInv'
    <2>1. ASSUME NEW y \in Workers, NEW j \in Jobs, worker'[y].at = "charge", worker'[y].job = j
          PROVE  worker'[y].count + Debt(j)' <= Paid(j)'
      <3>1. worker[y].count \in Nat /\ job[j].retry \in Nat
        BY <1>1, JobFields DEF TypeInv, WorkerRec
      <3>2. CASE y # w
        <4>1. worker'[y] = worker[y]
          BY <1>2, <3>2
        <4>2. worker[y].count + Debt(j) <= Paid(j)
          BY <1>1, <2>1, <4>1 DEF ReadInv
        <4>3. worker[y].count + Debt(j)' <= Paid(j)'
          BY <1>8, <3>1, <4>2
        <4>4. QED BY <4>1, <4>3
      <3>3. CASE y = w
        <4>1. /\ u.job = j
              /\ \/ u.at = "charge" /\ x.count = u.count
                 \/ u.at = "count" /\ x.count = job[j].retry
          BY <2>1, <3>3 DEF Books, Owing
        <4>2. CASE u.at = "charge" /\ x.count = u.count
          <5>1. u.count + Debt(j) <= Paid(j) /\ u.count \in Nat
            BY <1>1, <3>1, <3>3, <4>1, <4>2 DEF ReadInv
          <5>2. u.count + Debt(j)' <= Paid(j)'
            BY <1>8, <5>1
          <5>3. QED BY <3>3, <4>2, <5>2
        <4>3. CASE x.count = job[j].retry
          <5>1. job[j].retry + Debt(j) <= Paid(j)
            BY <1>1 DEF DebtInv
          <5>2. job[j].retry + Debt(j)' <= Paid(j)'
            BY <1>8, <3>1, <5>1
          <5>3. QED BY <3>3, <4>3, <5>2
        <4>4. QED BY <4>1, <4>2, <4>3
      <3>4. QED BY <3>2, <3>3
    <2>2. ASSUME NEW j \in Jobs, daemon'.at = "charge", daemon'.job = j
          PROVE  daemon'.count + Debt(j)' <= Paid(j)'
      <3>1. daemon.at = "charge" /\ daemon.job = j /\ daemon' = daemon
        BY <1>2, <2>2
      <3>2. daemon.count \in Nat /\ daemon.count + Debt(j) <= Paid(j)
        BY <1>1, <3>1 DEF ReadInv, TypeInv, DaemonRec
      <3>3. daemon.count + Debt(j)' <= Paid(j)'
        BY <1>8, <3>2
      <3>4. QED BY <3>1, <3>3
    <2>3. QED BY <2>1, <2>2 DEF ReadInv
  <1>10. QED BY <1>4, <1>6, <1>7, <1>9 DEF LedgerInv, DebtInv

\* What a worker writes that goes on with its job at another place, or is done
\* with it: no row but the job's, and a charge only where one was due.
Wrote(w, at) ==
  LET j == worker[w].job
      here == worker[w].at
  IN  /\ \/ open' = open \/ open' = open \ {<<w, j>>}
         \/ open' = open \cup {<<w, j>>} /\ at \in {"ok", "failed"}
      /\ RunsAt(worker[w], j) => at \in {"ok", "failed"} \/ <<w, j>> \notin open'
      /\ \A i \in Jobs : i # j => job'[i] = job[i]
      /\ failed' = failed \/ failed' = [failed EXCEPT ![j] = failed[j] + 1]
      /\ at \in Owing \cup {"decide"} => here \in Owing \/ failed'[j] = failed[j] + 1
      /\ \/ job'[j].retry <= job[j].retry /\ (at \in Owing => here \in Owing)
         \/ /\ job'[j].retry <= job[j].retry + 1 /\ failed'[j] = failed[j] + 1
            /\ at \in Owing => here \in Owing
         \/ job'[j].retry <= job[j].retry /\ failed'[j] = failed[j] + 1
         \/ job'[j].retry <= worker[w].count + 1 /\ here = "charge" /\ at \notin Owing

LEMMA BusyBooks ==
  ASSUME TypeInv, StageInv, TidyInv, NEW w \in Workers, worker[w].at \in BusyAts,
         NEW at \in BusyAts, NEW n, Goes(w, at, n) \/ (Done(w) /\ at = "complete"), Wrote(w, at),
         at = "charge" => worker[w].at = "count" /\ n = job[worker[w].job].retry
  PROVE  Books(w)
  <1> DEFINE u == worker[w]
             v == worker'[w]
             j == worker[w].job
  <1>1. /\ u \in WorkerRec /\ DOMAIN u.seen = {} /\ j \in DOMAIN u.claims /\ j \in Jobs
    BY BusyFacts
  <1>2. \/ v.at = at /\ v.job = j /\ v.claims = u.claims /\ v.seen = u.seen /\ v.count = n
        \/ /\ v.at = "oneshot" /\ v.job = NoJob /\ v.seen = u.seen
           /\ \A i \in DOMAIN v.claims : i \in DOMAIN u.claims /\ v.claims[i] = u.claims[i]
           /\ Done(w) /\ at = "complete"
    <2>1. CASE Goes(w, at, n)
      <3>1. worker' = [worker EXCEPT ![w] = [u EXCEPT !.at = at, !.count = n]]
        BY <2>1 DEF Goes
      <3>2. v = [u EXCEPT !.at = at, !.count = n]
        BY <3>1 DEF TypeInv
      <3>3. QED BY <1>1, <3>2 DEF WorkerRec
    <2>2. CASE Done(w) /\ at = "complete"
      <3>1. /\ DOMAIN Finished(w).claims = DOMAIN u.claims \ {j}
            /\ \A i \in DOMAIN Finished(w).claims : Finished(w).claims[i] = u.claims[i]
            /\ Finished(w).at = "oneshot" /\ Finished(w).seen = u.seen /\ v = Finished(w)
        BY <2>2, FinishedFacts DEF Moves
      <3>2. v.job = NoJob
        BY <1>1, <3>1 DEF Finished, WorkerRec
      <3>3. QED BY <2>2, <3>1, <3>2
    <2>3. QED BY <2>1, <2>2
  <1>3. "oneshot" \notin BusyAts /\ "oneshot" \notin Owing \cup {"decide"}
        /\ "complete" \notin Owing \cup {"decide"} /\ "charge" \in Owing
    BY DEF BusyAts, Owing
  <1> HIDE DEF u, v, j
  <1>4. \A i \in DOMAIN v.seen : \/ i \in DOMAIN u.seen /\ v.seen[i] = u.seen[i]
                                 \/ v.seen[i].retry = job[i].retry
    BY <1>2
  <1>5. \A i \in DOMAIN v.claims : \/ i \in DOMAIN u.claims /\ v.claims[i] = u.claims[i]
                                   \/ i \in DOMAIN u.seen /\ v.claims[i] = u.seen[i]
    BY <1>2
  <1>6. v.at \notin BusyAts => v.job = NoJob
    BY <1>2
  <1>7. ASSUME NEW o \in open'
        PROVE  \/ o[1] = w /\ RunsAt(v, o[2])
               \/ o \in open /\ ~(o[1] = w /\ RunsAt(u, o[2]))
    <2>1. o \in open \/ (o = <<w, j>> /\ at \in {"ok", "failed"})
      BY DEF Wrote, j
    <2>2. u.job = j /\ u = worker[w]
      BY DEF u, j
    <2>3. at \in {"ok", "failed"} => RunsAt(v, j)
      <3>1. at \in {"ok", "failed"} => at # "complete"
        OBVIOUS
      <3>2. QED BY <1>2, <3>1 DEF RunsAt
    <2>4. ASSUME o \in open, o[1] = w, RunsAt(u, o[2]) PROVE RunsAt(v, o[2])
      <3>1. o[2] = j
        BY <2>2, <2>4 DEF RunsAt
      <3>2. o = <<w, j>>
        BY <2>4, <3>1 DEF TypeInv
      <3>3. at \in {"ok", "failed"}
        BY <2>2, <2>4, <3>1, <3>2 DEF Wrote, u, j
      <3>4. QED BY <2>3, <3>1, <3>3
    <2>5. CASE o \in open
      BY <2>4, <2>5
    <2>6. CASE o = <<w, j>> /\ at \in {"ok", "failed"}
      BY <2>3, <2>6
    <2>7. QED BY <2>1, <2>5, <2>6
  <1>8. \A o \in open : o \in open' \/ Holds(w, o[2])
    BY <1>1 DEF Wrote, Holds, u, j
  <1>9. v.at \in Owing \cup {"decide"} =>
           /\ v.job = u.job /\ v.claims = u.claims
           /\ u.at \in Owing \/ failed'[u.job] = failed[u.job] + 1
    BY <1>2, <1>3 DEF Wrote, u, j
  <1>10. /\ failed' \in [Jobs -> Nat]
         /\ \A i \in Jobs : failed'[i] \in {failed[i], failed[i] + 1}
    BY <1>1 DEF Wrote, TidyInv, j
  <1>11. ASSUME NEW i \in Jobs
         PROVE  \/ /\ job'[i].retry <= job[i].retry
                   /\ v.at \in Owing /\ v.job = i => u.at \in Owing /\ u.job = i
                \/ /\ job'[i].retry <= job[i].retry + 1 /\ failed'[i] = failed[i] + 1
                   /\ v.at \in Owing /\ v.job = i => u.at \in Owing /\ u.job = i
                \/ job'[i].retry <= job[i].retry /\ failed'[i] = failed[i] + 1
                \/ /\ job'[i].retry <= u.count + 1
                   /\ u.at = "charge" /\ u.job = i /\ ~(v.at \in Owing /\ v.job = i)
    <2>1. v.at \in Owing => v.job = j /\ at \in Owing
      BY <1>2, <1>3
    <2>2. CASE i # j
      <3>1. job'[i] = job[i] /\ job[i].retry \in Nat
        BY <2>2, JobFields DEF Wrote, TypeInv, j
      <3>2. QED BY <2>1, <2>2, <3>1
    <2>3. CASE i = j
      <3>1. (v.at \in Owing => at \in Owing) /\ u.job = i
        BY <2>1, <2>3 DEF u, j
      <3>2. at \notin Owing => v.at \notin Owing
        BY <2>1
      <3>3. QED BY <2>3, <3>1, <3>2 DEF Wrote, u, j
    <2>4. QED BY <2>2, <2>3
  <1>12. v.at = "charge" => u.at = "count" /\ v.count = job[u.job].retry
    <2>1. v.at = "charge" => at = "charge" /\ v.count = n
      BY <1>2
    <2>2. QED BY <2>1 DEF u
  <1>13. QED
    BY <1>4, <1>5, <1>6, <1>7, <1>8, <1>9, <1>10, <1>11, <1>12 DEF Books, u, v

\* A worker that is not at a job reads, claims, or begins one; or nothing but
\* its tools change.
LEMMA FreeBooks ==
  ASSUME TypeInv, TidyInv, NEW w \in Workers, NEW v, worker'[w] = v,
         \A j \in DOMAIN v.seen : \/ j \in DOMAIN worker[w].seen /\ v.seen[j] = worker[w].seen[j]
                                  \/ v.seen[j].retry = job[j].retry,
         \A j \in DOMAIN v.claims :
            \/ j \in DOMAIN worker[w].claims /\ v.claims[j] = worker[w].claims[j]
            \/ j \in DOMAIN worker[w].seen /\ v.claims[j] = worker[w].seen[j],
         v.at \notin BusyAts => v.job = NoJob,
         \/ /\ v.at = worker[w].at /\ v.job = worker[w].job /\ v.claims = worker[w].claims
            /\ v.count = worker[w].count /\ open' = open
         \/ /\ v.at \notin Owing \cup {"decide"} /\ worker[w].at \notin BusyAts
            /\ open' = open \/ (open' = open \cup {<<w, v.job>>} /\ RunsAt(v, v.job)),
         failed' = failed, \A j \in Jobs : job'[j].retry = job[j].retry
  PROVE  Books(w)
  <1> DEFINE u == worker[w]
  <1>1. ASSUME NEW o \in open'
        PROVE  \/ o[1] = w /\ RunsAt(v, o[2])
               \/ o \in open /\ ~(o[1] = w /\ RunsAt(u, o[2]))
    <2>1. CASE v.at = u.at /\ v.job = u.job /\ open' = open
      BY <2>1 DEF RunsAt
    <2>2. CASE /\ u.at \notin BusyAts
               /\ open' = open \/ (open' = open \cup {<<w, v.job>>} /\ RunsAt(v, v.job))
      <3>1. \A i : ~RunsAt(u, i)
        BY <2>2 DEF RunsAt, BusyAts
      <3>2. QED BY <2>2, <3>1
    <2>3. QED BY <2>1, <2>2
  <1>2. \A o \in open : o \in open' \/ Holds(w, o[2])
    OBVIOUS
  <1>3. v.at \in Owing \cup {"decide"} =>
           /\ v.job = u.job /\ v.claims = u.claims /\ v.count = u.count
           /\ u.at \in Owing \cup {"decide"} /\ v.at = u.at
    OBVIOUS
  <1>4. failed' \in [Jobs -> Nat]
    BY DEF TidyInv
  <1>5. ASSUME NEW j \in Jobs
        PROVE  /\ job'[j].retry <= job[j].retry
               /\ v.at \in Owing /\ v.job = j => u.at \in Owing /\ u.job = j
    <2>1. job[j].retry \in Nat
      BY JobFields DEF TypeInv
    <2>2. QED BY <2>1
  <1>6. v.at = "charge" => u.at = "charge" /\ v.count = u.count
    BY <1>3 DEF Owing
  <1> HIDE DEF u
  <1>7. QED BY <1>1, <1>2, <1>3, <1>4, <1>5, <1>6 DEF Books, u

LEMMA TickBooks ==
  ASSUME TypeInv, StageInv, TidyInv, NEW w \in Workers,
         SelectRecurring(w) \/ SelectOneShots(w) \/ TickEnds(w) \/ ToolsReady(w) \/ ToolsReload(w)
  PROVE  Books(w)
  <1> DEFINE u == worker[w]
  <1>1. /\ u \in WorkerRec /\ job' = job /\ open' = open /\ failed' = failed
        /\ u.at \notin BusyAts => u.job = NoJob
    <2>1. UNCHANGED << rows, ghosts >>
      BY DEF SelectRecurring, SelectOneShots, TickEnds, ToolsReady, ToolsReload
    <2>2. QED BY <2>1 DEF rows, ghosts, TypeInv, TidyInv
  <1>2. /\ BusyAts \cap {"idle", "recurring", "oneshot"} = {}
        /\ (Owing \cup {"decide"}) \cap {"idle", "recurring", "oneshot"} = {}
    BY DEF BusyAts, Owing
  <1>3. ASSUME NEW S, NEW at \in {"recurring", "oneshot"}, u.at \in {"idle", "recurring"},
               worker' = [worker EXCEPT ![w].at = at, ![w].seen = Read(S)]
        PROVE  Books(w)
    <2> DEFINE v == [u EXCEPT !.at = at, !.seen = Read(S)]
    <2>1. worker'[w] = v
      BY <1>3 DEF TypeInv
    <2>2. v.at = at /\ v.seen = Read(S) /\ v.claims = u.claims /\ v.job = u.job
      BY <1>1 DEF WorkerRec
    <2>3. \A j \in DOMAIN Read(S) : Read(S)[j].retry = job[j].retry
      BY DEF Read
    <2> HIDE DEF v
    <2>4. v.at \notin BusyAts /\ v.at \notin Owing \cup {"decide"} /\ u.at \notin BusyAts /\ v.job = NoJob
      BY <1>1, <1>2, <1>3, <2>2
    <2>5. QED BY <1>1, <2>1, <2>2, <2>3, <2>4, FreeBooks
  <1>4. CASE SelectRecurring(w)
    BY <1>3, <1>4 DEF SelectRecurring
  <1>5. CASE SelectOneShots(w)
    BY <1>3, <1>5 DEF SelectOneShots
  <1>6. CASE TickEnds(w)
    <2> DEFINE v == [u EXCEPT !.at = "idle"]
    <2>1. worker'[w] = v /\ u.at = "oneshot"
      BY <1>6 DEF TypeInv, TickEnds, InLoop
    <2>2. v.at = "idle" /\ v.seen = u.seen /\ v.claims = u.claims /\ v.job = u.job
      BY <1>1 DEF WorkerRec
    <2> HIDE DEF v
    <2>3. v.at \notin BusyAts /\ v.at \notin Owing \cup {"decide"} /\ u.at \notin BusyAts /\ v.job = NoJob
      BY <1>1, <1>2, <2>1, <2>2
    <2>4. QED BY <1>1, <2>1, <2>2, <2>3, FreeBooks
  <1>7. ASSUME NEW ready, worker' = [worker EXCEPT ![w].ready = ready] PROVE Books(w)
    <2> DEFINE v == [u EXCEPT !.ready = ready]
    <2>1. worker'[w] = v
      BY <1>7 DEF TypeInv
    <2>2. v.at = u.at /\ v.seen = u.seen /\ v.claims = u.claims /\ v.job = u.job /\ v.count = u.count
      BY <1>1 DEF WorkerRec
    <2> HIDE DEF v
    <2>3. QED BY <1>1, <2>1, <2>2, FreeBooks
  <1>8. QED
    BY <1>4, <1>5, <1>6, <1>7 DEF ToolsReady, ToolsReload

LEMMA ClaimBooks ==
  ASSUME TypeInv, StageInv, TidyInv, NEW w \in Workers, NEW j \in Jobs, Claim(w, j)
  PROVE  Books(w)
  <1> DEFINE u == worker[w]
             seen == u.seen[j]
             fewer == Without(u.seen, j)
             more == With(u.claims, j, seen)
  <1>1. /\ u \in WorkerRec /\ u.at \in {"recurring", "oneshot"} /\ j \in DOMAIN u.seen
        /\ open' = open /\ failed' = failed
    BY DEF TypeInv, Claim, ghosts
  <1>2. u.at \notin BusyAts /\ u.at \notin Owing \cup {"decide"} /\ u.job = NoJob
    BY <1>1 DEF TidyInv, BusyAts, Owing
  <1>3. u.seen \in Tables /\ u.claims \in Tables /\ seen \in Entry
    BY <1>1, WorkerFields
  <1>4. \A i \in DOMAIN fewer : i \in DOMAIN u.seen /\ fewer[i] = u.seen[i]
    BY DEF Without
  <1>5. /\ \A i \in DOMAIN more : \/ i \in DOMAIN u.claims /\ more[i] = u.claims[i]
                                  \/ i \in DOMAIN u.seen /\ more[i] = u.seen[i]
    BY <1>1 DEF With
  <1> HIDE DEF seen, fewer, more
  <1>6. CASE ~ClaimHolds(j, seen)
    <2> DEFINE v == [u EXCEPT !.seen = fewer]
    <2>1. worker'[w] = v /\ job' = job
      BY <1>6 DEF Claim, seen, fewer, TypeInv
    <2>2. v.at = u.at /\ v.seen = fewer /\ v.claims = u.claims /\ v.job = u.job
      BY <1>1 DEF WorkerRec
    <2> HIDE DEF v
    <2>3. QED BY <1>1, <1>2, <1>4, <2>1, <2>2, FreeBooks
  <1>7. CASE ClaimHolds(j, seen)
    <2> DEFINE v == [u EXCEPT !.seen = fewer, !.claims = more]
               new == IF j \in Recurring THEN Advance(j, job[j])
                                         ELSE [job[j] EXCEPT !.status = "firing"]
    <2>1. worker'[w] = v
      BY <1>7 DEF Claim, seen, fewer, more, TypeInv
    <2>2. v.at = u.at /\ v.seen = fewer /\ v.claims = more /\ v.job = u.job
      BY <1>1 DEF WorkerRec
    <2>3. job' = [job EXCEPT ![j] = new]
      BY <1>7 DEF Claim, seen
    <2>4. new.retry = job[j].retry
      <3>1. job[j] \in JobRec /\ Advance(j, job[j]).retry = job[j].retry
        BY RetryFacts DEF TypeInv
      <3>2. [job[j] EXCEPT !.status = "firing"].retry = job[j].retry
        BY <3>1 DEF JobRec
      <3>3. QED BY <3>1, <3>2
    <2> HIDE DEF v, new
    <2>5. \A i \in Jobs : job'[i].retry = job[i].retry
      BY <2>3, <2>4 DEF TypeInv
    <2>6. QED BY <1>1, <1>2, <1>4, <1>5, <2>1, <2>2, <2>5, FreeBooks
  <1>8. QED BY <1>6, <1>7

LEMMA BeginBooks ==
  ASSUME TypeInv, StageInv, TidyInv, NEW w \in Workers, NEW j \in Jobs, Defer(w, j) \/ Start(w, j)
  PROVE  Books(w)
  <1> DEFINE u == worker[w]
  <1>1. /\ u \in WorkerRec /\ u.at = "oneshot" /\ u.at \notin BusyAts /\ failed' = failed
    BY DEF TypeInv, Defer, Start, Begins, InLoop, BusyAts, ghosts
  <1>2. ASSUME NEW at \in {"revert", "working"},
               worker' = [worker EXCEPT ![w].at = at, ![w].job = j],
               \A i \in Jobs : job'[i].retry = job[i].retry,
               \/ open' = open
               \/ open' = open \cup {<<w, j>>} /\ Tracked(j) /\ at = "working"
        PROVE  Books(w)
    <2> DEFINE v == [u EXCEPT !.at = at, !.job = j]
    <2>1. worker'[w] = v
      BY <1>2 DEF TypeInv
    <2>2. v.at = at /\ v.seen = u.seen /\ v.claims = u.claims /\ v.job = j
      BY <1>1 DEF WorkerRec
    <2> HIDE DEF v
    <2>3. v.at \in BusyAts /\ v.at \notin Owing \cup {"decide"}
      BY <1>2, <2>2 DEF BusyAts, Owing
    <2>4. open' = open \/ (open' = open \cup {<<w, v.job>>} /\ RunsAt(v, v.job))
      BY <1>2, <2>2 DEF RunsAt
    <2>5. QED BY <1>1, <1>2, <2>1, <2>2, <2>3, <2>4, FreeBooks
  <1>3. CASE Defer(w, j)
    <2>1. /\ worker' = [worker EXCEPT ![w].at = "revert", ![w].job = j] /\ open' = open
          /\ job' = [job EXCEPT ![j] = Requeue(j, job[j])]
      BY <1>3 DEF Defer
    <2>2. \A i \in Jobs : job'[i].retry = job[i].retry
      BY <2>1, RetryFacts DEF TypeInv
    <2>3. QED BY <1>2, <2>1, <2>2
  <1>4. CASE Start(w, j)
    <2>1. /\ worker' = [worker EXCEPT ![w].at = "working", ![w].job = j] /\ job' = job
          /\ open' = IF Tracked(j) THEN open \cup {<<w, j>>} ELSE open
      BY <1>4 DEF Start
    <2>2. QED BY <1>2, <2>1
  <1>5. QED BY <1>3, <1>4

LEMMA OutcomeBooks ==
  ASSUME TypeInv, StageInv, TidyInv, NEW w \in Workers, Outcome(w)
  PROVE  Books(w)
  <1> DEFINE j == worker[w].job
             n == worker[w].count
  <1>1. worker[w].at = "working" /\ worker[w].at \in BusyAts /\ worker[w].at \notin Owing
    <2>1. worker[w].at = "working"
      BY DEF Outcome, Succeed, FindBusy, FindGone, Fail
    <2>2. QED BY <2>1 DEF BusyAts, Owing
  <1>2. j \in Jobs /\ job[j].retry \in Nat /\ failed[j] \in Nat
    <2>1. j \in Jobs
      BY <1>1, BusyFacts
    <2>2. QED BY <2>1, JobFields DEF TypeInv, TidyInv
  <1>3. /\ {"complete", "won", "lost", "ok", "failed"} \subseteq BusyAts
        /\ {"complete", "won", "ok"} \cap (Owing \cup {"decide"}) = {}
        /\ {"lost", "failed"} \subseteq Owing
    BY DEF BusyAts, Owing
  <1>4. /\ RunsAt(worker[w], j) <=> Tracked(j)
        /\ job[j].mode = "wake" => ~Tracked(j)
    BY <1>1 DEF RunsAt, Tracked
  <1>5. CASE Succeed(w)
    <2>1. /\ job' = job /\ open' = open /\ failed' = failed
          /\ \/ Tracked(j) /\ Goto(w, "ok")
             \/ ~Tracked(j) /\ Goto(w, "won")
             \/ ~Tracked(j) /\ Done(w)
      BY <1>4, <1>5 DEF Succeed, rows
    <2>2. CASE Tracked(j) /\ Goto(w, "ok")
      <3>1. Wrote(w, "ok")
        BY <1>1, <1>2, <1>3, <2>1 DEF Wrote
      <3>2. Goes(w, "ok", n)
        BY <2>2, GotoGoes
      <3>3. QED BY <1>1, <1>3, <3>1, <3>2, BusyBooks
    <2>3. CASE ~Tracked(j) /\ Goto(w, "won")
      <3>1. Wrote(w, "won")
        BY <1>1, <1>2, <1>3, <1>4, <2>1, <2>3 DEF Wrote
      <3>2. Goes(w, "won", n)
        BY <2>3, GotoGoes
      <3>3. QED BY <1>1, <1>3, <3>1, <3>2, BusyBooks
    <2>4. CASE ~Tracked(j) /\ Done(w)
      <3>1. Wrote(w, "complete")
        BY <1>1, <1>2, <1>3, <1>4, <2>1, <2>4 DEF Wrote
      <3>2. QED BY <1>1, <1>3, <2>4, <3>1, BusyBooks
    <2>5. QED BY <2>1, <2>2, <2>3, <2>4
  <1>6. CASE FindGone(w)
    <2>1. /\ job' = job /\ open' = open /\ failed' = failed /\ job[j].mode = "wake"
          /\ Goto(w, "complete") \/ Done(w)
      BY <1>6 DEF FindGone, rows, ghosts
    <2>2. Wrote(w, "complete")
      BY <1>1, <1>2, <1>3, <1>4, <2>1 DEF Wrote
    <2>3. Goes(w, "complete", n) \/ Done(w)
      BY <2>1, GotoGoes
    <2>4. QED BY <1>1, <1>3, <2>2, <2>3, BusyBooks
  <1>7. CASE Fail(w)
    <2>1. /\ job' = job /\ open' = open
          /\ \/ Tracked(j) /\ Goto(w, "failed")
             \/ ~Tracked(j) /\ Goto(w, "lost")
          /\ failed' = [failed EXCEPT ![j] = failed[j] + 1]
      BY <1>7 DEF Fail, rows
    <2>2. failed'[j] = failed[j] + 1
      BY <1>2, <2>1 DEF TidyInv
    <2>3. CASE Tracked(j) /\ Goto(w, "failed")
      <3>1. Wrote(w, "failed")
        BY <1>1, <1>2, <1>3, <2>1, <2>2, <2>3 DEF Wrote
      <3>2. Goes(w, "failed", n)
        BY <2>3, GotoGoes
      <3>3. QED BY <1>1, <1>3, <3>1, <3>2, BusyBooks
    <2>4. CASE ~Tracked(j) /\ Goto(w, "lost")
      <3>1. Wrote(w, "lost")
        BY <1>1, <1>2, <1>3, <1>4, <2>1, <2>2, <2>4 DEF Wrote
      <3>2. Goes(w, "lost", n)
        BY <2>4, GotoGoes
      <3>3. QED BY <1>1, <1>3, <3>1, <3>2, BusyBooks
    <2>5. QED BY <2>1, <2>3, <2>4
  <1>8. CASE FindBusy(w)
    <2> DEFINE new == IF j \in Recurring THEN job[j]
                      ELSE IF worker[w].claims[j].retry >= WakeMaxRetries
                             THEN FailOneShotPermanently(job[j])
                             ELSE RetryOneShot(job[j])
    <2>1. /\ job' = [job EXCEPT ![j] = new] /\ open' = open /\ Done(w) /\ job[j].mode = "wake"
          /\ failed' = [failed EXCEPT ![j] = failed[j] + 1]
      BY <1>8 DEF FindBusy
    <2>2. failed'[j] = failed[j] + 1
      BY <1>2, <2>1 DEF TidyInv
    <2>3. new.retry <= job[j].retry + 1
      <3>1. /\ FailOneShotPermanently(job[j]).retry <= job[j].retry + 1
            /\ RetryOneShot(job[j]).retry <= job[j].retry + 1
            /\ job[j].retry <= job[j].retry + 1
        <4>1. /\ FailOneShotPermanently(job[j]).retry = job[j].retry
              /\ RetryOneShot(job[j]).retry <= job[j].retry + 1
          BY <1>2, RetryFacts
        <4>2. QED BY <1>2, <4>1
      <3>2. QED BY <3>1
    <2> HIDE DEF new
    <2>4. job'[j].retry <= job[j].retry + 1 /\ \A i \in Jobs : i # j => job'[i] = job[i]
      BY <1>2, <2>1, <2>3 DEF TypeInv
    <2>5. Wrote(w, "complete")
      BY <1>1, <1>2, <1>3, <1>4, <2>1, <2>2, <2>4 DEF Wrote
    <2>6. QED BY <1>1, <1>3, <2>1, <2>5, BusyBooks
  <1>9. QED BY <1>5, <1>6, <1>7, <1>8 DEF Outcome

\* The run is opened, if it was not at the start, and closed.
LEMMA RunBooks ==
  ASSUME TypeInv, StageInv, TidyInv, NEW w \in Workers, OpenRun(w) \/ CloseRun(w)
  PROVE  Books(w)
  <1> DEFINE j == worker[w].job
             at == worker[w].at
             n == worker[w].count
  <1>1. /\ at \in {"won", "lost", "ok", "failed"} /\ job' = job /\ failed' = failed
    BY DEF OpenRun, CloseRun, ghosts
  <1>2. at \in BusyAts
    BY <1>1 DEF BusyAts
  <1>3. j \in Jobs /\ job[j].retry \in Nat
    <2>1. j \in Jobs
      BY <1>2, BusyFacts
    <2>2. QED BY <2>1, JobFields DEF TypeInv
  <1>4. /\ {"ok", "failed", "charge-ok", "count"} \subseteq BusyAts
        /\ {"ok", "won", "charge-ok"} \cap (Owing \cup {"decide"}) = {}
        /\ {"lost", "failed", "count"} \subseteq Owing /\ "decide" \notin Owing
    BY DEF BusyAts, Owing
  <1>5. \/ at = "won" /\ Goto(w, "ok") /\ open' = open \cup {<<w, j>>}
        \/ at = "lost" /\ Goto(w, "failed") /\ open' = open \cup {<<w, j>>}
        \/ at = "ok" /\ Goto(w, "charge-ok") /\ open' = open \ {<<w, j>>}
        \/ at = "failed" /\ Goto(w, "count") /\ open' = open \ {<<w, j>>}
    <2>1. CASE OpenRun(w)
      <3>1. /\ at \in {"won", "lost"} /\ open' = open \cup {<<w, j>>}
            /\ Goto(w, IF at = "won" THEN "ok" ELSE "failed")
        BY <2>1 DEF OpenRun
      <3>2. CASE at = "won"
        <4>1. (IF at = "won" THEN "ok" ELSE "failed") = "ok"
          BY <3>2
        <4>2. Goto(w, "ok")
          BY <3>1, <4>1, Zenon
        <4>3. QED BY <3>1, <3>2, <4>2
      <3>3. CASE at = "lost"
        <4>1. (IF at = "won" THEN "ok" ELSE "failed") = "failed"
          BY <3>3
        <4>2. Goto(w, "failed")
          BY <3>1, <4>1, Zenon
        <4>3. QED BY <3>1, <3>3, <4>2
      <3>4. QED BY <3>1, <3>2, <3>3
    <2>2. CASE CloseRun(w)
      <3>1. /\ at \in {"ok", "failed"} /\ open' = open \ {<<w, j>>}
            /\ Goto(w, IF at = "ok" THEN "charge-ok" ELSE "count")
        BY <2>2 DEF CloseRun
      <3>2. CASE at = "ok"
        <4>1. (IF at = "ok" THEN "charge-ok" ELSE "count") = "charge-ok"
          BY <3>2
        <4>2. Goto(w, "charge-ok")
          BY <3>1, <4>1, Zenon
        <4>3. QED BY <3>1, <3>2, <4>2
      <3>3. CASE at = "failed"
        <4>1. (IF at = "ok" THEN "charge-ok" ELSE "count") = "count"
          BY <3>3
        <4>2. Goto(w, "count")
          BY <3>1, <4>1, Zenon
        <4>3. QED BY <3>1, <3>3, <4>2
      <3>4. QED BY <3>1, <3>2, <3>3
    <2>3. QED BY <2>1, <2>2
  <1>6. CASE at = "won" /\ Goto(w, "ok") /\ open' = open \cup {<<w, j>>}
    <2>1. Wrote(w, "ok")
      BY <1>1, <1>3, <1>4, <1>6 DEF Wrote
    <2>2. Goes(w, "ok", n)
      BY <1>6, GotoGoes
    <2>3. QED BY <1>2, <1>4, <2>1, <2>2, BusyBooks
  <1>7. CASE at = "lost" /\ Goto(w, "failed") /\ open' = open \cup {<<w, j>>}
    <2>1. Wrote(w, "failed")
      BY <1>1, <1>3, <1>4, <1>7 DEF Wrote
    <2>2. Goes(w, "failed", n)
      BY <1>7, GotoGoes
    <2>3. QED BY <1>2, <1>4, <2>1, <2>2, BusyBooks
  <1>8. CASE at = "ok" /\ Goto(w, "charge-ok") /\ open' = open \ {<<w, j>>}
    <2>1. <<w, j>> \notin open'
      BY <1>8
    <2>2. Wrote(w, "charge-ok")
      BY <1>1, <1>3, <1>4, <1>8, <2>1 DEF Wrote
    <2>3. Goes(w, "charge-ok", n)
      BY <1>8, GotoGoes
    <2>4. QED BY <1>2, <1>4, <2>2, <2>3, BusyBooks
  <1>9. CASE at = "failed" /\ Goto(w, "count") /\ open' = open \ {<<w, j>>}
    <2>1. <<w, j>> \notin open'
      BY <1>9
    <2>2. Wrote(w, "count")
      BY <1>1, <1>3, <1>4, <1>9, <2>1 DEF Wrote
    <2>3. Goes(w, "count", n)
      BY <1>9, GotoGoes
    <2>4. QED BY <1>2, <1>4, <2>2, <2>3, BusyBooks
  <1>10. QED BY <1>5, <1>6, <1>7, <1>8, <1>9

LEMMA SettleBooks ==
  ASSUME TypeInv, StageInv, TidyInv, NEW w \in Workers,
         Count(w) \/ Charge(w) \/ Complete(w) \/ Decide(w) \/ Revert(w)
  PROVE  Books(w)
  <1> DEFINE j == worker[w].job
             at == worker[w].at
             n == worker[w].count
  <1>1. at \in {"charge-ok", "count", "charge", "complete", "decide", "revert"}
    BY DEF Count, Charge, Complete, Decide, Revert
  <1>2. at \in BusyAts
    BY <1>1 DEF BusyAts
  <1>3. j \in Jobs /\ job[j].retry \in Nat /\ n \in Nat
    <2>1. j \in Jobs /\ n \in Nat
      BY <1>2, BusyFacts
    <2>2. QED BY <2>1, JobFields DEF TypeInv
  <1>4. /\ {"complete", "charge", "decide", "revert"} \subseteq BusyAts
        /\ {"complete", "revert"} \cap (Owing \cup {"decide"}) = {}
        /\ {"charge", "count"} \subseteq Owing /\ "decide" \notin Owing
        /\ ~RunsAt(worker[w], j)
    BY <1>1 DEF BusyAts, Owing, RunsAt
  <1>5. CASE Count(w)
    <2>1. /\ at = "count" /\ job' = job /\ open' = open /\ failed' = failed
          /\ Goes(w, "charge", job[j].retry)
      BY <1>5, CountGoes DEF Count, rows, ghosts
    <2>2. Wrote(w, "charge")
      BY <1>3, <1>4, <2>1 DEF Wrote
    <2>3. QED BY <1>2, <1>4, <2>1, <2>2, BusyBooks
  <1>6. ASSUME NEW new, job' = [job EXCEPT ![j] = new]
        PROVE  job'[j] = new /\ \A i \in Jobs : i # j => job'[i] = job[i]
    BY <1>3, <1>6 DEF TypeInv
  <1>7. /\ CompleteOneShot(job[j]).retry = job[j].retry
         /\ RevertStatus(job[j]).retry = job[j].retry
         /\ ChargeRetry(job[j], TRUE, n).retry = 0
         /\ ChargeRetry(job[j], FALSE, n).retry = n + 1
         /\ \A m : ApplyRetryDecision(j, job[j], m).retry <= job[j].retry
    BY <1>3, RetryFacts
  <1>8. CASE Charge(w)
    <2>1. /\ at \in {"charge-ok", "charge"} /\ open' = open /\ failed' = failed
          /\ job' = [job EXCEPT ![j] = ChargeRetry(job[j], at = "charge-ok", n)]
      BY <1>8 DEF Charge, ghosts
    <2>2. CASE at = "charge"
      <3>1. Goes(w, "decide", 0)
        <4>1. worker' = [worker EXCEPT ![w].at = "decide", ![w].count = 0]
          BY <1>8, <2>2 DEF Charge
        <4>2. QED BY <4>1, CountGoes
      <3>2. job' = [job EXCEPT ![j] = ChargeRetry(job[j], FALSE, n)]
        <4>1. (at = "charge-ok") = FALSE
          BY <2>2
        <4>2. QED BY <2>1, <4>1
      <3>3. job'[j].retry <= n + 1 /\ \A i \in Jobs : i # j => job'[i] = job[i]
        <4> DEFINE new == ChargeRetry(job[j], FALSE, n)
        <4>1. job' = [job EXCEPT ![j] = new] /\ new.retry = n + 1
          BY <1>7, <3>2, Zenon
        <4> HIDE DEF new
        <4>2. job'[j] = new /\ \A i \in Jobs : i # j => job'[i] = job[i]
          BY <1>6, <4>1
        <4>3. QED BY <1>3, <4>1, <4>2
      <3>4. Wrote(w, "decide")
        BY <1>3, <1>4, <2>1, <2>2, <3>3 DEF Wrote
      <3>5. QED BY <1>2, <1>4, <3>1, <3>4, BusyBooks
    <2>3. CASE at = "charge-ok"
      <3>1. Goes(w, "complete", n) \/ Done(w)
        BY <1>8, <2>3, GotoGoes DEF Charge
      <3>2. job' = [job EXCEPT ![j] = ChargeRetry(job[j], TRUE, n)]
        <4>1. (at = "charge-ok") = TRUE
          BY <2>3
        <4>2. QED BY <2>1, <4>1
      <3>3. job'[j].retry <= job[j].retry /\ \A i \in Jobs : i # j => job'[i] = job[i]
        <4> DEFINE new == ChargeRetry(job[j], TRUE, n)
        <4>1. job' = [job EXCEPT ![j] = new] /\ new.retry = 0
          BY <1>7, <3>2, Zenon
        <4> HIDE DEF new
        <4>2. job'[j] = new /\ \A i \in Jobs : i # j => job'[i] = job[i]
          BY <1>6, <4>1
        <4>3. QED BY <1>3, <4>1, <4>2
      <3>4. Wrote(w, "complete")
        BY <1>3, <1>4, <2>1, <2>3, <3>3 DEF Wrote
      <3>5. QED BY <1>2, <1>4, <3>1, <3>4, BusyBooks
    <2>4. QED BY <2>1, <2>2, <2>3
  <1>9. CASE Complete(w) \/ Revert(w)
    <2>1. /\ at \in {"complete", "revert"} /\ open' = open /\ failed' = failed /\ Done(w)
          /\ \/ job' = [job EXCEPT ![j] = CompleteOneShot(job[j])]
             \/ job' = [job EXCEPT ![j] = RevertStatus(job[j])]
      BY <1>9 DEF Complete, Revert, ghosts
    <2>2. job'[j].retry <= job[j].retry /\ \A i \in Jobs : i # j => job'[i] = job[i]
      BY <1>3, <1>6, <1>7, <2>1
    <2>3. Wrote(w, "complete")
      BY <1>3, <1>4, <2>1, <2>2 DEF Wrote
    <2>4. QED BY <1>2, <1>4, <2>1, <2>3, BusyBooks
  <1>10. CASE Decide(w)
    <2>1. /\ at = "decide" /\ open' = open /\ failed' = failed
          /\ Goto(w, "revert") \/ Done(w)
          /\ job' = [job EXCEPT ![j] = ApplyRetryDecision(j, job[j], worker[w].claims[j].retry)]
      BY <1>10 DEF Decide, ghosts
    <2>2. job'[j].retry <= job[j].retry /\ \A i \in Jobs : i # j => job'[i] = job[i]
      BY <1>3, <1>6, <1>7, <2>1
    <2>3. CASE Goto(w, "revert")
      <3>1. Wrote(w, "revert")
        BY <1>3, <1>4, <2>1, <2>2 DEF Wrote
      <3>2. Goes(w, "revert", n)
        BY <2>3, GotoGoes
      <3>3. QED BY <1>2, <1>4, <3>1, <3>2, BusyBooks
    <2>4. CASE Done(w)
      <3>1. Wrote(w, "complete")
        BY <1>3, <1>4, <2>1, <2>2 DEF Wrote
      <3>2. QED BY <1>2, <1>4, <2>4, <3>1, BusyBooks
    <2>5. QED BY <2>1, <2>3, <2>4
  <1>11. QED BY <1>5, <1>8, <1>9, <1>10

\* Every step a worker takes keeps the ledger.
LEMMA WorkerLedger ==
  ASSUME SchedulerInv, SchedulerInv', LedgerInv, NEW w \in Workers,
         WorkerStep(w) \/ Outcome(w) \/ ToolsReady(w) \/ ToolsReload(w)
  PROVE  LedgerInv'
  <1>1. TypeInv /\ StageInv /\ StampInv /\ TidyInv
    BY DEF SchedulerInv, LedgerInv
  <1>2. PICK v : Effect(w, v)
    BY <1>1, WorkerEffect
  <1>3. Books(w)
    <2>1. CASE \E j \in Jobs : Claim(w, j) \/ Defer(w, j) \/ Start(w, j)
      BY <1>1, <2>1, ClaimBooks, BeginBooks
    <2>2. CASE \/ OpenRun(w) \/ CloseRun(w) \/ Count(w) \/ Charge(w) \/ Complete(w) \/ Decide(w)
               \/ Revert(w)
      BY <1>1, <2>2, RunBooks, SettleBooks
    <2>3. CASE SelectRecurring(w) \/ SelectOneShots(w) \/ TickEnds(w) \/ ToolsReady(w) \/ ToolsReload(w)
      BY <1>1, <2>3, TickBooks
    <2>4. QED BY <1>1, <2>1, <2>2, <2>3, OutcomeBooks DEF WorkerStep
  <1>4. QED BY <1>2, <1>3, BooksLedger

-----------------------------------------------------------------------------
(* The ledger under the steps that are not a worker's.                     *)

\* What is to be charged for the rows and the daemon alone.
Due(j) == Cardinality(Stale(j)) + One(Charging(j)) + One(Stranded(j))

\* Workers stay or end up without a job, nobody's failures change: the ledger
\* is kept if what recovery will charge is paid for.
LEMMA LedgerStep ==
  ASSUME SchedulerInv, SchedulerInv', LedgerInv, failed' = failed,
         \A j \in Jobs : faults'[j] >= faults[j],
         \A w \in Workers :
            \/ worker'[w] = worker[w]
            \/ worker'[w].at \in {"dead", "idle"} /\ worker'[w].job = NoJob,
         Mending' => \/ Mending /\ daemon'.job = daemon.job /\ daemon'.retry = daemon.retry
                     \/ daemon'.retry < Paid(daemon'.job),
         daemon'.at = "charge" =>
            \/ daemon.at = "charge" /\ daemon'.job = daemon.job /\ daemon'.count = daemon.count
            \/ daemon'.count = job[daemon'.job].retry,
         \A j \in Jobs :
            /\ Due(j)' + faults[j] <= Due(j) + faults'[j]
            /\ \/ job'[j].retry <= job[j].retry
               \/ /\ daemon.at = "charge" /\ daemon.job = j
                  /\ job'[j].retry <= daemon.count + 1
                  /\ Due(j)' + faults[j] + 1 <= Due(j) + faults'[j]
  PROVE  LedgerInv'
  <1>1. /\ TypeInv /\ StageInv /\ TypeInv' /\ StageInv' /\ TidyInv /\ DebtInv /\ ReadInv /\ KnownInv
    BY DEF SchedulerInv, LedgerInv
  <1>2. TidyInv'
    <2>1. failed' \in [Jobs -> Nat]
      BY <1>1 DEF TidyInv
    <2>2. \A w \in Workers : worker'[w].at \notin BusyAts => worker'[w].job = NoJob
      BY <1>1 DEF TidyInv
    <2>3. QED BY <2>1, <2>2 DEF TidyInv
  <1>3. ASSUME NEW j \in Jobs PROVE Paid(j) \in Nat /\ Paid(j)' \in Nat /\ Paid(j)' >= Paid(j)
    <2>1. failed[j] \in Nat /\ faults[j] \in Nat /\ faults'[j] \in Nat
      BY <1>1 DEF TypeInv, TidyInv
    <2>2. QED BY <2>1 DEF Paid
  <1>4. ASSUME NEW j \in Jobs
        PROVE  /\ job'[j].retry + Debt(j)' <= Paid(j)'
               /\ Debt(j) \in Nat /\ Debt(j)' \in Nat
               /\ Debt(j)' + Paid(j) <= Debt(j) + Paid(j)'
    <2> DEFINE f == Cardinality(Failing(j))  g == Cardinality(Failing(j)')
               s == Due(j)                   t == Due(j)'
    <2>1. /\ f \in Nat /\ IsFiniteSet(Failing(j)) /\ s \in Nat
      BY <1>1, DebtFinite DEF Due
    <2>2. Failing(j)' \subseteq Failing(j)
      BY DEF Failing, Owing
    <2>3. g \in Nat /\ g <= f
      BY <2>1, <2>2, CardSteps
    <2>4. Cardinality(Stale(j)') \in Nat /\ t \in Nat
      <3>1. Stale(j)' \subseteq Sources \X {j}
        BY <1>1 DEF Stale, Entries, TypeInv, DaemonRec
      <3>2. IsFiniteSet(Sources) /\ IsFiniteSet({j})
        BY SchedulerConstants, FS_AddElement, FS_Singleton DEF Sources
      <3>3. Cardinality(Stale(j)') \in Nat
        BY <3>1, <3>2, FS_Product, FS_Subset, FS_CardinalityType
      <3>4. QED BY <3>3 DEF Due, One
    <2>5. /\ failed[j] \in Nat /\ faults[j] \in Nat /\ faults'[j] \in Nat
          /\ job[j].retry \in Nat /\ job'[j].retry \in Nat
      BY <1>1, JobFields DEF TypeInv, TidyInv
    <2>6. Debt(j) = f + s /\ Debt(j)' = g + t
      <3>1. Debt(j) = f + s
        BY <1>1, DebtFinite DEF Debt, Due
      <3>2. Debt(j)' = g + t
        BY <2>3, <2>4 DEF Debt, Due, One
      <3>3. QED BY <3>1, <3>2
    <2>7. job[j].retry + (f + s) <= failed[j] + faults[j]
      BY <1>1, <2>6 DEF DebtInv, Paid
    <2>8. /\ t + faults[j] <= s + faults'[j]
          /\ \/ job'[j].retry <= job[j].retry
             \/ /\ daemon.at = "charge" /\ daemon.job = j
                /\ job'[j].retry <= daemon.count + 1
                /\ t + faults[j] + 1 <= s + faults'[j]
      OBVIOUS
    <2>9. Paid(j)' = failed[j] + faults'[j] /\ Paid(j) = failed[j] + faults[j]
      BY DEF Paid
    <2>10. daemon.at = "charge" /\ daemon.job = j =>
             daemon.count \in Nat /\ daemon.count + (f + s) <= failed[j] + faults[j]
      BY <1>1, <2>6 DEF ReadInv, Paid, TypeInv, DaemonRec
    <2> HIDE DEF f, g, s, t
    <2>11. (g + t) + (failed[j] + faults[j]) <= (f + s) + (failed[j] + faults'[j])
      BY <2>1, <2>3, <2>4, <2>5, <2>8
    <2>12. job'[j].retry + (g + t) <= failed[j] + faults'[j]
      BY <2>1, <2>3, <2>4, <2>5, <2>7, <2>8, <2>10
    <2>13. QED BY <2>1, <2>3, <2>4, <2>6, <2>9, <2>11, <2>12
  <1>5. KnownInv'
    <2>1. ASSUME NEW w \in Workers, NEW j \in Jobs PROVE Knows(worker[w], j)'
      <3>1. CASE worker'[w] = worker[w]
        <4>1. Knows(worker[w], j) /\ worker[w] \in WorkerRec
          BY <1>1 DEF KnownInv, TypeInv
        <4>2. /\ j \in DOMAIN worker[w].seen => worker[w].seen[j].retry \in Nat
              /\ j \in DOMAIN worker[w].claims => worker[w].claims[j].retry \in Nat
              /\ worker[w].at \in BusyAts => worker[w].job \in DOMAIN worker[w].claims
          BY <1>1, <4>1, WorkerFields DEF Entry, StageInv, InPlace
        <4>3. Owing \cup {"decide"} \subseteq BusyAts
          BY DEF Owing, BusyAts
        <4>4. QED BY <1>3, <3>1, <4>1, <4>2, <4>3 DEF Knows, Paid
      <3>2. CASE worker'[w].at \in {"dead", "idle"}
        <4>1. DOMAIN worker'[w].seen = {} /\ DOMAIN worker'[w].claims = {}
          BY <1>1, <3>2 DEF StageInv, InPlace
        <4>2. worker'[w].at \notin Owing \cup {"decide"}
          BY <3>2 DEF Owing
        <4>3. QED BY <4>1, <4>2 DEF Knows
      <3>3. QED BY <3>1, <3>2
    <2>2. (Mending => daemon.retry < Paid(daemon.job))'
      <3>1. Mending' => daemon'.job \in Jobs /\ daemon'.retry \in Nat
        BY <1>1 DEF StageInv, TypeInv, DaemonRec
      <3>2. Mending' => daemon'.retry < Paid(daemon'.job)
        BY <1>1 DEF KnownInv
      <3>3. QED BY <1>3, <3>1, <3>2 DEF Paid
    <2>3. QED BY <2>1, <2>2 DEF KnownInv
  <1>6. ASSUME NEW j \in Jobs, NEW n \in Nat, n + Debt(j) <= Paid(j)
        PROVE  n + Debt(j)' <= Paid(j)'
    BY <1>3, <1>4, <1>6, StaysPaid
  <1>7. ReadInv'
    <2>1. ASSUME NEW w \in Workers, NEW j \in Jobs, worker'[w].at = "charge", worker'[w].job = j
          PROVE  worker'[w].count + Debt(j)' <= Paid(j)'
      <3>1. worker'[w] = worker[w]
        BY <2>1
      <3>2. worker[w].count \in Nat /\ worker[w].count + Debt(j) <= Paid(j)
        BY <1>1, <2>1, <3>1 DEF ReadInv, TypeInv, WorkerRec
      <3>3. worker[w].count + Debt(j)' <= Paid(j)'
        BY <1>6, <3>2
      <3>4. QED BY <3>1, <3>3
    <2>2. ASSUME NEW j \in Jobs, daemon'.at = "charge", daemon'.job = j
          PROVE  daemon'.count + Debt(j)' <= Paid(j)'
      <3>1. CASE daemon.at = "charge" /\ daemon'.job = daemon.job /\ daemon'.count = daemon.count
        <4>1. daemon.count \in Nat /\ daemon.count + Debt(j) <= Paid(j)
          BY <1>1, <2>2, <3>1 DEF ReadInv, TypeInv, DaemonRec
        <4>2. daemon.count + Debt(j)' <= Paid(j)'
          BY <1>6, <4>1
        <4>3. QED BY <3>1, <4>2
      <3>2. CASE daemon'.count = job[j].retry
        <4>1. job[j].retry \in Nat /\ job[j].retry + Debt(j) <= Paid(j)
          BY <1>1, JobFields DEF DebtInv, TypeInv
        <4>2. job[j].retry + Debt(j)' <= Paid(j)'
          BY <1>6, <4>1
        <4>3. QED BY <3>2, <4>2
      <3>3. QED BY <2>2, <3>1, <3>2
    <2>3. QED BY <2>1, <2>2 DEF ReadInv
  <1>8. QED BY <1>2, <1>4, <1>5, <1>7 DEF LedgerInv, DebtInv

\* Neither the runs nor the daemon move, no row is charged or claimed.
LEMMA StillLedger ==
  ASSUME SchedulerInv, SchedulerInv', LedgerInv, UNCHANGED << open, daemon, failed, faults >>,
         \A j \in Jobs : /\ job'[j].mode = job[j].mode /\ job'[j].retry = job[j].retry
                         /\ job'[j].status = "firing" => job[j].status = "firing",
         \A w \in Workers :
            \/ worker'[w] = worker[w]
            \/ worker[w].at = "dead" /\ worker'[w].at = "idle" /\ worker'[w].job = NoJob
  PROVE  LedgerInv'
  <1>1. TypeInv /\ StageInv /\ StageInv'
    BY DEF SchedulerInv
  <1>2. ASSUME NEW j \in Jobs
        PROVE  Cardinality(Stale(j)') + One(Charging(j)') + One(Stranded(j)') + faults[j]
                 <= Cardinality(Stale(j)) + One(Charging(j)) + One(Stranded(j)) + faults'[j]
    <2>1. \A w \in Workers : (Running(w, j)' <=> Running(w, j)) /\ (Holds(w, j)' <=> Holds(w, j))
      BY <1>1 DEF Running, RunsAt, Tracked, Holds, StageInv, InPlace
    <2>2. Stale(j)' = Stale(j)
      <3>1. Entries(j)' = Entries(j) /\ \A o : InHand(o)' <=> InHand(o)
        BY DEF Entries, InHand
      <3>2. \A o : Running(o[1], j)' <=> Running(o[1], j)
        BY <2>1 DEF Running
      <3>3. QED BY <3>1, <3>2 DEF Stale
    <2>3. One(Charging(j)') = One(Charging(j))
      BY DEF Charging, One
    <2>4. Stranded(j)' => Stranded(j)
      BY <2>1 DEF Stranded, Entries, Mending
    <2>5. One(Stranded(j)') <= One(Stranded(j)) /\ One(Stranded(j)') \in {0, 1}
      BY <2>4 DEF One
    <2>6. /\ Cardinality(Stale(j)) \in Nat /\ One(Charging(j)) \in {0, 1} /\ One(Stranded(j)) \in {0, 1}
      BY <1>1, DebtFinite
    <2>7. job[j].retry \in Nat /\ faults[j] \in Nat
      BY <1>1, JobFields DEF TypeInv
    <2>8. QED BY <2>2, <2>3, <2>5, <2>6, <2>7
  <1>3. Mending' => Mending
    BY DEF Mending
  <1>4. \A j \in Jobs : /\ faults'[j] >= faults[j] /\ job'[j].retry <= job[j].retry
                        /\ Due(j)' + faults[j] <= Due(j) + faults'[j]
    <2>1. \A j \in Jobs : faults[j] \in Nat /\ job[j].retry \in Nat
      BY <1>1, JobFields DEF TypeInv
    <2>2. QED BY <1>2, <2>1 DEF Due, One
  <1>5. QED BY <1>3, <1>4, LedgerStep

LEMMA UserLedger ==
  ASSUME SchedulerInv, SchedulerInv', LedgerInv, NEW j \in Jobs,
         \/ CancelSchedule(j) \/ Disable(j) \/ Enable(j) \/ TimePasses(j) \/ LastOccurrence(j)
  PROVE  LedgerInv'
  <1>1. TypeInv /\ job[j] \in JobRec
    BY DEF SchedulerInv, TypeInv
  <1>2. UNCHANGED << open, worker, daemon, failed, faults >>
    BY DEF CancelSchedule, Disable, Enable, TimePasses, LastOccurrence, ghosts
  <1>3. ASSUME NEW new, job' = [job EXCEPT ![j] = new],
               new.mode = job[j].mode, new.retry = job[j].retry,
               new.status = "firing" => job[j].status = "firing"
        PROVE  LedgerInv'
    <2>1. job'[j] = new /\ \A i \in Jobs : i # j => job'[i] = job[i]
      BY <1>1, <1>3 DEF TypeInv
    <2>2. \A i \in Jobs : /\ job'[i].mode = job[i].mode /\ job'[i].retry = job[i].retry
                          /\ job'[i].status = "firing" => job[i].status = "firing"
      BY <1>3, <2>1
    <2>3. QED BY <1>2, <2>2, StillLedger
  <1>4. CASE CancelSchedule(j)
    <2> DEFINE new == FromAnywhere(job[j], "cancelled", FALSE)
    <2>1. job' = [job EXCEPT ![j] = new]
      BY <1>4 DEF CancelSchedule
    <2>2. new.mode = job[j].mode /\ new.retry = job[j].retry /\ new.status = "cancelled"
      BY <1>1 DEF FromAnywhere, JobRec
    <2> HIDE DEF new
    <2>3. QED BY <1>3, <2>1, <2>2
  <1>5. CASE Disable(j)
    <2> DEFINE new == IF j \in Recurring THEN [job[j] EXCEPT !.enabled = FALSE, !.next = 0, !.due = TRUE]
                                         ELSE [job[j] EXCEPT !.enabled = FALSE]
    <2>1. job' = [job EXCEPT ![j] = new]
      BY <1>5 DEF Disable
    <2>2. new.mode = job[j].mode /\ new.retry = job[j].retry /\ new.status = job[j].status
      BY <1>1 DEF JobRec
    <2> HIDE DEF new
    <2>3. QED BY <1>3, <2>1, <2>2
  <1>6. CASE Enable(j)
    <2> DEFINE new == IF j \in Recurring THEN [Later(j, job[j]) EXCEPT !.enabled = TRUE]
                                         ELSE [job[j] EXCEPT !.enabled = TRUE]
    <2>1. job' = [job EXCEPT ![j] = new]
      BY <1>6 DEF Enable
    <2>2. new.mode = job[j].mode /\ new.retry = job[j].retry /\ new.status = job[j].status
      BY <1>1 DEF Later, JobRec
    <2> HIDE DEF new
    <2>3. QED BY <1>3, <2>1, <2>2
  <1>7. CASE TimePasses(j)
    <2> DEFINE new == [job[j] EXCEPT !.due = TRUE]
    <2>1. job' = [job EXCEPT ![j] = new]
      BY <1>7 DEF TimePasses
    <2>2. new.mode = job[j].mode /\ new.retry = job[j].retry /\ new.status = job[j].status
      BY <1>1 DEF JobRec
    <2> HIDE DEF new
    <2>3. QED BY <1>3, <2>1, <2>2
  <1>8. CASE LastOccurrence(j)
    <2> DEFINE new == [job[j] EXCEPT !.more = FALSE]
    <2>1. job' = [job EXCEPT ![j] = new]
      BY <1>8 DEF LastOccurrence
    <2>2. new.mode = job[j].mode /\ new.retry = job[j].retry /\ new.status = job[j].status
      BY <1>1 DEF JobRec
    <2> HIDE DEF new
    <2>3. QED BY <1>3, <2>1, <2>2
  <1>9. QED BY <1>4, <1>5, <1>6, <1>7, <1>8

LEMMA SpawnLedger ==
  ASSUME SchedulerInv, SchedulerInv', LedgerInv, NEW w \in Workers, Spawn(w)
  PROVE  LedgerInv'
  <1> DEFINE idle == [Dead EXCEPT !.at = "idle"]
  <1>1. /\ worker' = [worker EXCEPT ![w] = idle] /\ worker[w].at = "dead"
        /\ UNCHANGED << job, open, daemon, failed, faults >>
    BY DEF Spawn, rows, ghosts, Alive
  <1>2. idle.at = "idle" /\ idle.job = NoJob
    BY DEF Dead
  <1> HIDE DEF idle
  <1>3. worker'[w] = idle /\ \A x \in Workers : x # w => worker'[x] = worker[x]
    BY <1>1 DEF SchedulerInv, TypeInv
  <1>4. \A x \in Workers :
          \/ worker'[x] = worker[x]
          \/ worker[x].at = "dead" /\ worker'[x].at = "idle" /\ worker'[x].job = NoJob
    BY <1>1, <1>2, <1>3
  <1>5. QED BY <1>1, <1>4, StillLedger

\* Workers end: a run one of them had open, or a one-shot it leaves without
\* one, is paid for by the fault.
LEMMA CutOffLedger ==
  ASSUME SchedulerInv, SchedulerInv', LedgerInv, NEW S \in SUBSET Workers,
         worker' = [x \in Workers |-> IF x \in S THEN Dead ELSE worker[x]],
         faults' = CutOff(S), UNCHANGED << job, open, failed >>,
         Mending' => daemon' = daemon,
         daemon'.at = "charge" => daemon' = daemon,
         \A o : InHand(o)' <=> InHand(o),
         \A j : /\ Entries(j)' = Entries(j) /\ (Charging(j)' <=> Charging(j))
                /\ (Mending' /\ daemon'.job = j) <=> (Mending /\ daemon.job = j)
  PROVE  LedgerInv'
  <1>1. TypeInv /\ StageInv
    BY DEF SchedulerInv
  <1>2. \A x \in Workers : worker'[x] = IF x \in S THEN Dead ELSE worker[x]
    OBVIOUS
  <1>3. Dead.at = "dead" /\ Dead.job = NoJob /\ DOMAIN Dead.claims = {}
    BY DeadFacts DEF Dead
  <1>4. \A j \in Jobs : faults'[j] >= faults[j]
    BY <1>1, CutOffFacts
  <1>5. ASSUME NEW j \in Jobs
        PROVE  Cardinality(Stale(j)') + One(Charging(j)') + One(Stranded(j)') + faults[j]
                 <= Cardinality(Stale(j)) + One(Charging(j)) + One(Stranded(j)) + faults'[j]
    <2> DEFINE H == {x \in S : Holds(x, j)}
    <2>1. IsFiniteSet(H) /\ Cardinality(H) \in Nat
      BY SchedulerConstants, FS_Subset, FS_CardinalityType
    <2>2. faults'[j] = faults[j] + Cardinality(H) /\ faults[j] \in Nat
      BY <1>1 DEF CutOff, TypeInv
    <2>3. ASSUME NEW o \in open, o[2] = j, ~Running(o[1], j)', Running(o[1], j)
          PROVE  o \in H \X {j}
      <3>1. o[1] \in Workers /\ o = <<o[1], j>>
        BY <1>1, <2>3 DEF TypeInv, Running
      <3>2. o[1] \in S
        BY <1>2, <2>3, <3>1 DEF Running, RunsAt, Tracked
      <3>3. worker[o[1]].at \in BusyAts /\ worker[o[1]].job = j
        BY <2>3 DEF Running, RunsAt, BusyAts
      <3>4. Holds(o[1], j)
        BY <1>1, <3>1, <3>3 DEF StageInv, InPlace, Holds
      <3>5. QED BY <3>1, <3>2, <3>4
    <2>4. Stale(j)' \subseteq Stale(j) \cup (H \X {j})
      <3>1. Entries(j)' = Entries(j)
        OBVIOUS
      <3> HIDE DEF H
      <3>2. QED BY <2>3, <3>1 DEF Stale
    <2>5. ASSUME Stranded(j)', ~Stranded(j) PROVE H # {}
      <3>1. /\ j \in OneShots /\ job[j].status = "firing" /\ \A o \in open : o[2] # j
            /\ Entries(j) = {} /\ ~(Mending /\ daemon.job = j)
            /\ \A x \in Workers : j \notin DOMAIN worker'[x].claims
        BY <2>5 DEF Stranded, Holds, Entries, Mending
      <3>2. PICK x \in Workers : Holds(x, j)
        BY <2>5, <3>1 DEF Stranded
      <3>3. x \in S
        BY <1>2, <3>1, <3>2 DEF Holds
      <3>4. QED BY <3>2, <3>3
    <2>6. Stranded(j)' => Stale(j)' = Stale(j)
      <3>1. Stranded(j)' => \A o \in open : o[2] # j
        BY DEF Stranded
      <3>2. QED BY <3>1 DEF Stale, Entries
    <2> HIDE DEF H
    <2>7. H # {} => Cardinality(H) >= 1
      <3>1. Cardinality(H) = 0 => H = {}
        BY <2>1, FS_EmptySet
      <3>2. QED BY <2>1, <3>1
    <2>8. /\ IsFiniteSet(Stale(j)) /\ Cardinality(Stale(j)) \in Nat
          /\ One(Charging(j)) \in {0, 1} /\ One(Stranded(j)) \in {0, 1}
      BY <1>1, DebtFinite
    <2>9. /\ Cardinality(Stale(j)') \in Nat
          /\ Cardinality(Stale(j)') <= Cardinality(Stale(j)) + Cardinality(H)
      <3>1. IsFiniteSet(H \X {j}) /\ Cardinality(H \X {j}) = Cardinality(H)
        <4>1. IsFiniteSet({j}) /\ Cardinality({j}) = 1
          BY FS_Singleton
        <4>2. IsFiniteSet(H \X {j}) /\ Cardinality(H \X {j}) = Cardinality(H) * Cardinality({j})
          BY <2>1, <4>1, FS_Product
        <4>3. QED BY <2>1, <4>1, <4>2
      <3>2. QED BY <2>4, <2>8, <3>1, CardUnion
    <2>10. One(Charging(j)') = One(Charging(j)) /\ One(Stranded(j)') \in {0, 1}
      BY DEF One
    <2>11. job'[j].retry = job[j].retry /\ job[j].retry \in Nat
      BY <1>1, JobFields DEF TypeInv
    <2>12. CASE Stranded(j)'
      <3>1. One(Stranded(j)) = 1 \/ Cardinality(H) >= 1
        BY <2>5, <2>7, <2>12 DEF One
      <3>2. Cardinality(Stale(j)') = Cardinality(Stale(j))
        BY <2>6, <2>12
      <3>3. QED BY <2>1, <2>2, <2>8, <2>10, <2>11, <3>1, <3>2
    <2>13. CASE ~Stranded(j)'
      <3>1. One(Stranded(j)') = 0
        BY <2>13 DEF One
      <3>2. QED BY <2>1, <2>2, <2>8, <2>9, <2>10, <2>11, <3>1
    <2>14. QED BY <2>12, <2>13
  <1>6. \A x \in Workers : \/ worker'[x] = worker[x]
                           \/ worker'[x].at \in {"dead", "idle"} /\ worker'[x].job = NoJob
    BY <1>2, <1>3
  <1>7. Mending' => Mending /\ daemon'.job = daemon.job /\ daemon'.retry = daemon.retry
    BY DEF Mending
  <1>8. \A j \in Jobs : Due(j)' + faults[j] <= Due(j) + faults'[j] /\ job'[j].retry <= job[j].retry
    <2>1. \A j \in Jobs : job[j].retry \in Nat
      BY <1>1, JobFields DEF TypeInv
    <2>2. QED BY <1>5, <2>1 DEF Due, One
  <1>9. QED BY <1>4, <1>6, <1>7, <1>8, LedgerStep

LEMMA EndLedger ==
  ASSUME SchedulerInv, SchedulerInv', LedgerInv,
         StartScheduler \/ \E w \in Workers : WorkerDies(w)
  PROVE  LedgerInv'
  <1>1. TypeInv
    BY DEF SchedulerInv
  <1>2. ASSUME NEW w \in Workers, WorkerDies(w) PROVE LedgerInv'
    <2>1. /\ worker' = [worker EXCEPT ![w] = Dead] /\ faults' = CutOff({w})
          /\ UNCHANGED << job, open, daemon, failed >>
      BY <1>2 DEF WorkerDies, rows
    <2>2. worker' = [x \in Workers |-> IF x \in {w} THEN Dead ELSE worker[x]]
      BY <1>1, <2>1 DEF TypeInv
    <2>3. \A j : /\ Entries(j)' = Entries(j) /\ (Charging(j)' <=> Charging(j))
                 /\ (Mending' /\ daemon'.job = j) <=> (Mending /\ daemon.job = j)
      BY <2>1 DEF Entries, Charging, Mending
    <2>4. \A o : InHand(o)' <=> InHand(o)
      BY <2>1 DEF InHand
    <2>5. QED BY <2>1, <2>2, <2>3, <2>4, CutOffLedger
  <1>3. CASE StartScheduler
    <2>1. /\ worker' = [x \in Workers |-> IF x \in Workers THEN Dead ELSE worker[x]]
          /\ faults' = CutOff(Workers) /\ daemon' = Up
          /\ UNCHANGED << job, open, failed >>
          /\ daemon.at = "recover" /\ daemon.todo = {}
      BY <1>3 DEF StartScheduler, rows
    <2>2. daemon'.at = "up" /\ daemon'.todo = {}
      BY <2>1, UpFacts
    <2>3. ~Mending /\ ~Mending' /\ \A j : /\ Entries(j)' = {} /\ Entries(j) = {}
                                          /\ ~Charging(j) /\ ~Charging(j)'
      BY <2>1, <2>2 DEF Entries, Charging, Mending
    <2>4. \A o : ~InHand(o)' /\ ~InHand(o)
      BY <2>1, <2>2 DEF InHand
    <2>5. QED BY <2>1, <2>2, <2>3, <2>4, CutOffLedger
  <1>4. QED BY <1>2, <1>3

\* What a daemon that dies had on its list is found again, or was a one-shot
\* without a run; what it had in hand is a fault.
LEMMA DaemonDiesLedger ==
  ASSUME SchedulerInv, SchedulerInv', LedgerInv, DaemonDies
  PROVE  LedgerInv'
  <1>1. TypeInv /\ StageInv
    BY DEF SchedulerInv
  <1>2. /\ daemon' = [Up EXCEPT !.at = "down"]
        /\ faults' = [j \in Jobs |-> IF j = daemon.job THEN faults[j] + 1 ELSE faults[j]]
        /\ UNCHANGED << job, open, worker, failed >>
    BY DEF DaemonDies, rows
  <1>3. daemon'.at = "down" /\ daemon'.todo = {}
    BY <1>2, UpFacts
  <1>4. /\ ~Mending' /\ \A j : Entries(j)' = {} /\ ~Charging(j)'
        /\ \A o : ~InHand(o)'
    BY <1>3 DEF Mending, Entries, Charging, InHand
  <1>5. \A j \in Jobs : /\ faults[j] \in Nat /\ faults'[j] \in Nat /\ faults'[j] >= faults[j]
                        /\ j = daemon.job => faults'[j] = faults[j] + 1
    BY <1>1, <1>2 DEF TypeInv
  <1>6. ASSUME NEW j \in Jobs
        PROVE  Cardinality(Stale(j)') + One(Charging(j)') + One(Stranded(j)') + faults[j]
                 <= Cardinality(Stale(j)) + One(Charging(j)) + One(Stranded(j)) + faults'[j]
    <2>1. /\ IsFiniteSet(Stale(j)) /\ Cardinality(Stale(j)) \in Nat
          /\ One(Charging(j)) \in {0, 1} /\ One(Stranded(j)) \in {0, 1}
      BY <1>1, DebtFinite
    <2>2. /\ Stale(j)' \subseteq Stale(j) \cup {<<daemon.of, daemon.job>>}
          /\ ~Charging(j) => Stale(j)' \subseteq Stale(j)
      <3>1. \A o \in Stale(j)' : \/ o \in Stale(j)
                                 \/ o[2] = j /\ daemon.at = "close" /\ o = <<daemon.of, daemon.job>>
        BY <1>2, <1>4 DEF Stale, Running, RunsAt, Tracked, InHand
      <3>2. QED BY <3>1 DEF Charging
    <2>3. /\ Cardinality(Stale(j)') \in Nat /\ Cardinality(Stale(j)') <= Cardinality(Stale(j)) + 1
          /\ ~Charging(j) => Cardinality(Stale(j)') <= Cardinality(Stale(j))
      <3>1. IsFiniteSet(Stale(j) \cup {<<daemon.of, daemon.job>>})
        BY <2>1, FS_AddElement
      <3>2. Cardinality(Stale(j)') \in Nat
        BY <2>2, <3>1, FS_Subset, FS_CardinalityType
      <3>3. QED BY <2>1, <2>2, <3>2, CardSteps
    <2>4. One(Charging(j)') = 0 /\ One(Stranded(j)') \in {0, 1}
      BY <1>4 DEF One
    <2>5. job'[j].retry = job[j].retry /\ job[j].retry \in Nat
      BY <1>1, <1>2, JobFields DEF TypeInv
    <2>6. CASE Charging(j)
      <3>1. faults'[j] = faults[j] + 1
        BY <1>5, <2>6 DEF Charging
      <3>2. One(Charging(j)) = 1
        BY <2>6 DEF One
      <3>3. QED BY <1>5, <2>1, <2>3, <2>4, <3>1, <3>2
    <2>7. CASE ~Charging(j) /\ (Stranded(j)' => Stranded(j))
      <3>1. One(Stranded(j)') <= One(Stranded(j))
        BY <2>7 DEF One
      <3>2. QED BY <1>5, <2>1, <2>3, <2>4, <2>7, <3>1
    <2>8. CASE ~Charging(j) /\ Stranded(j)' /\ Mending /\ daemon.job = j
      <3>1. faults'[j] = faults[j] + 1
        BY <1>5, <2>8
      <3>2. /\ Cardinality(Stale(j)') \in Nat
            /\ Cardinality(Stale(j)') <= Cardinality(Stale(j))
        BY <2>3, <2>8
      <3>3. faults[j] \in Nat
        BY <1>5
      <3>4. QED BY <2>1, <2>4, <3>1, <3>2, <3>3
    <2>9. CASE ~Charging(j) /\ Stranded(j)' /\ Entries(j) # {}
      <3>1. \A o \in open : o[2] # j
        BY <1>2, <2>9 DEF Stranded
      <3>2. Stale(j)' = {} /\ Stale(j) # {}
        BY <1>2, <1>4, <2>9, <3>1 DEF Stale
      <3>3. Cardinality(Stale(j)') = 0 /\ Cardinality(Stale(j)) # 0
        BY <2>1, <3>2, FS_EmptySet
      <3>4. QED BY <1>5, <2>1, <2>4, <3>3
    <2>10. Stranded(j)' /\ Entries(j) = {} /\ ~(Mending /\ daemon.job = j) => Stranded(j)
      BY <1>2 DEF Stranded, Holds
    <2>11. QED BY <2>6, <2>7, <2>8, <2>9, <2>10
  <1>7. \A j \in Jobs : Due(j)' + faults[j] <= Due(j) + faults'[j] /\ job'[j].retry <= job[j].retry
    <2>1. \A j \in Jobs : job'[j].retry = job[j].retry /\ job[j].retry \in Nat
      BY <1>1, <1>2, JobFields DEF TypeInv
    <2>2. QED BY <1>6, <2>1 DEF Due, One
  <1>8. QED BY <1>2, <1>3, <1>4, <1>5, <1>7, LedgerStep

\* What the boot finds beside a live worker is a fault; with none alive it was
\* to be found, as a run nobody is at or as a one-shot without one.
LEMMA BootLedger ==
  ASSUME SchedulerInv, SchedulerInv', LedgerInv, Boot
  PROVE  LedgerInv'
  <1> DEFINE found == FindStaleInFlightJobs
             of(j) == {s \in found : s[2] = j}
             runs(j) == {o \in open : o[2] = j}
             alive == \E w \in Workers : Alive(w)
  <1>1. TypeInv /\ StageInv
    BY DEF SchedulerInv
  <1>2. /\ daemon.at = "down" /\ daemon' = [Up EXCEPT !.at = "recover", !.todo = found]
        /\ faults' = [j \in Jobs |-> faults[j] + IF alive THEN Cardinality(of(j)) ELSE 0]
        /\ UNCHANGED << job, open, worker, failed >>
    BY DEF Boot, rows
  <1>3. found \subseteq Sources \X Jobs
    BY <1>1 DEF FindStaleInFlightJobs, StaleOneShots, TypeInv, Sources, Jobs
  <1>4. ASSUME NEW j PROVE IsFiniteSet(of(j)) /\ Cardinality(of(j)) \in Nat
    <2>1. of(j) \subseteq Sources \X {j}
      BY <1>3
    <2>2. IsFiniteSet(Sources) /\ IsFiniteSet({j})
      BY SchedulerConstants, FS_AddElement, FS_Singleton DEF Sources
    <2>3. QED BY <2>1, <2>2, FS_Product, FS_Subset, FS_CardinalityType
  <1>5. ASSUME NEW j
        PROVE  /\ runs(j) # {} => of(j) = runs(j)
               /\ runs(j) = {} => of(j) \subseteq {<<NoRun, j>>}
               /\ runs(j) = {} /\ of(j) # {} => j \in OneShots /\ job[j].status = "firing"
    BY DEF FindStaleInFlightJobs, StaleOneShots
  <1> HIDE DEF found
  <1>6. daemon'.at = "recover" /\ daemon'.todo = found
    BY <1>2 DEF Up
  <1>7. ASSUME NEW j PROVE Entries(j)' = of(j) /\ Entries(j) = {}
    BY <1>1, <1>2, <1>6 DEF Entries, StageInv
  <1>8. /\ ~Mending /\ ~Mending' /\ \A j : ~Charging(j) /\ ~Charging(j)'
        /\ \A o : ~InHand(o) /\ ~InHand(o)'
    BY <1>2, <1>6 DEF Mending, Charging, InHand
  <1>9. ASSUME NEW j \in Jobs
        PROVE  /\ faults[j] \in Nat
               /\ faults'[j] = faults[j] + IF alive THEN Cardinality(of(j)) ELSE 0
    BY <1>1, <1>2 DEF TypeInv
  <1> HIDE DEF of, runs, alive
  <1>10. ASSUME NEW j \in Jobs
         PROVE  Cardinality(Stale(j)') + One(Charging(j)') + One(Stranded(j)') + faults[j]
                  <= Cardinality(Stale(j)) + One(Charging(j)) + One(Stranded(j)) + faults'[j]
    <2>1. /\ IsFiniteSet(Stale(j)) /\ Cardinality(Stale(j)) \in Nat
          /\ One(Charging(j)) \in {0, 1} /\ One(Stranded(j)) \in {0, 1}
      BY <1>1, DebtFinite
    <2>2. One(Charging(j)') = 0 /\ One(Stranded(j)') \in {0, 1}
      BY <1>8 DEF One
    <2>3. job'[j].retry = job[j].retry /\ job[j].retry \in Nat
      BY <1>1, <1>2, JobFields DEF TypeInv
    <2>4. Stranded(j)' => Stranded(j)
      BY <1>2, <1>7, <1>8 DEF Stranded, Holds
    <2>5. One(Stranded(j)') <= One(Stranded(j))
      BY <2>4 DEF One
    <2>6. Stale(j)' = of(j) \cup Stale(j)
      <3>1. Stale(j) = {o \in open : o[2] = j /\ ~Running(o[1], j)}
        BY <1>7, <1>8 DEF Stale
      <3>2. Stale(j)' = of(j) \cup {o \in open : o[2] = j /\ ~Running(o[1], j)}
        BY <1>2, <1>7, <1>8 DEF Stale, Running, RunsAt, Tracked
      <3>3. QED BY <3>1, <3>2
    <2>7. CASE alive
      <3>1. /\ Cardinality(Stale(j)') \in Nat
            /\ Cardinality(Stale(j)') <= Cardinality(of(j)) + Cardinality(Stale(j))
        BY <1>4, <2>1, <2>6, CardUnion
      <3>2. faults'[j] = faults[j] + Cardinality(of(j)) /\ Cardinality(of(j)) \in Nat
        BY <1>4, <1>9, <2>7
      <3>3. QED BY <1>9, <2>1, <2>2, <2>3, <2>5, <3>1, <3>2
    <2>8. CASE ~alive
      <3>1. faults'[j] = faults[j]
        BY <1>9, <2>8
      <3>2. \A w \in Workers : worker[w].at = "dead" /\ ~Holds(w, j)
        BY <1>1, <2>8 DEF alive, Alive, StageInv, InPlace, Holds
      <3>3. Stale(j) = runs(j)
        <4>1. \A o \in open : ~Running(o[1], j)
          BY <3>2 DEF Running, RunsAt
        <4>2. QED BY <1>7, <1>8, <4>1 DEF Stale, runs
      <3>4. CASE runs(j) # {} \/ of(j) = {}
        <4>1. Stale(j)' = Stale(j)
          BY <1>5, <2>6, <3>3, <3>4
        <4>2. QED BY <1>9, <2>1, <2>2, <2>3, <2>5, <3>1, <4>1
      <3>5. CASE runs(j) = {} /\ of(j) # {}
        <4>1. of(j) = {<<NoRun, j>>} /\ Stale(j) = {} /\ Stale(j)' = {<<NoRun, j>>}
          BY <1>5, <2>6, <3>3, <3>5
        <4>2. Cardinality(Stale(j)') = 1 /\ Cardinality(Stale(j)) = 0
          BY <4>1, FS_Singleton, FS_EmptySet
        <4>3. Stranded(j)
          <5>1. j \in OneShots /\ job[j].status = "firing" /\ \A o \in open : o[2] # j
            BY <1>5, <3>5 DEF runs
          <5>2. QED BY <1>7, <1>8, <3>2, <5>1 DEF Stranded
        <4>4. ~Stranded(j)'
          BY <1>7, <3>5 DEF Stranded
        <4>5. One(Stranded(j)) = 1 /\ One(Stranded(j)') = 0
          BY <4>3, <4>4 DEF One
        <4>6. QED BY <1>9, <2>1, <2>2, <2>3, <3>1, <4>2, <4>5
      <3>6. QED BY <3>4, <3>5
    <2>9. QED BY <2>7, <2>8
  <1>11. \A j \in Jobs : faults'[j] >= faults[j]
    BY <1>4, <1>9
  <1>12. \A j \in Jobs : Due(j)' + faults[j] <= Due(j) + faults'[j] /\ job'[j].retry <= job[j].retry
    <2>1. \A j \in Jobs : job'[j].retry = job[j].retry /\ job[j].retry \in Nat
      BY <1>1, <1>2, JobFields DEF TypeInv
    <2>2. QED BY <1>10, <2>1 DEF Due, One
  <1>13. QED BY <1>2, <1>6, <1>8, <1>11, <1>12, LedgerStep

\* Recovery takes up an entry: what was to come is now in hand, and the count
\* it reads leaves room for it.
LEMMA RecoverRunLedger ==
  ASSUME SchedulerInv, SchedulerInv', LedgerInv, NEW s \in daemon.todo, RecoverRun(s)
  PROVE  LedgerInv'
  <1> DEFINE d == s[2]
  <1>1. TypeInv /\ StageInv /\ DebtInv /\ TidyInv
    BY DEF SchedulerInv, LedgerInv
  <1>2. /\ daemon.at = "recover" /\ daemon \in DaemonRec /\ s = <<s[1], d>>
        /\ daemon' = [daemon EXCEPT !.at = "close", !.todo = daemon.todo \ {s}, !.of = s[1],
                                    !.job = d, !.retry = job[d].retry]
        /\ open \subseteq open' /\ open' \subseteq open \cup {s}
        /\ UNCHANGED << job, worker, failed, faults >>
    BY <1>1 DEF RecoverRun, ghosts, TypeInv, DaemonRec
  <1>3. d \in Jobs /\ job[d].retry \in Nat
    BY <1>1, JobFields DEF TypeInv, DaemonRec
  <1>4. /\ daemon'.at = "close" /\ daemon'.todo = daemon.todo \ {s}
        /\ daemon'.job = d /\ daemon'.of = s[1] /\ daemon'.retry = job[d].retry
    BY <1>2 DEF DaemonRec
  <1>5. /\ Mending' /\ ~Mending
        /\ \A j : /\ Entries(j)' = Entries(j) \ {s} /\ ~Charging(j)
                  /\ Charging(j)' <=> j = d
        /\ \A o : ~InHand(o) /\ (InHand(o)' <=> o = s)
    BY <1>2, <1>4 DEF Mending, Entries, Charging, InHand
  <1>6. s \in Entries(d) /\ s \in Stale(d) /\ \A j : s \in Entries(j) => j = d
    BY DEF Entries, Stale
  <1> HIDE DEF d
  <1>7. ASSUME NEW j \in Jobs
        PROVE  Cardinality(Stale(j)') + One(Charging(j)') + One(Stranded(j)') + faults[j]
                 <= Cardinality(Stale(j)) + One(Charging(j)) + One(Stranded(j)) + faults'[j]
    <2>1. /\ IsFiniteSet(Stale(j)) /\ Cardinality(Stale(j)) \in Nat
          /\ One(Charging(j)) = 0 /\ One(Stranded(j)) \in {0, 1}
      BY <1>1, <1>5, DebtFinite DEF One
    <2>2. Stale(j)' \subseteq Stale(j) \ {s}
      BY <1>2, <1>5 DEF Stale, Running, RunsAt, Tracked
    <2>3. job'[j].retry = job[j].retry /\ job[j].retry \in Nat /\ faults'[j] = faults[j] /\ faults[j] \in Nat
      BY <1>1, <1>2, JobFields DEF TypeInv
    <2>4. CASE j = d
      <3>1. Cardinality(Stale(j)') \in Nat /\ Cardinality(Stale(j)') + 1 <= Cardinality(Stale(j))
        <4>1. Stale(j)' \subseteq Stale(j)
          BY <2>2
        <4>2. QED BY <1>6, <2>1, <2>2, <2>4, <4>1, CardSteps
      <3>2. ~Stranded(j)'
        BY <1>4, <1>5, <2>4 DEF Stranded
      <3>3. One(Charging(j)') = 1 /\ One(Stranded(j)') = 0
        BY <1>5, <2>4, <3>2 DEF One
      <3>4. QED BY <2>1, <2>3, <3>1, <3>3
    <2>5. CASE j # d
      <3>1. Cardinality(Stale(j)') \in Nat /\ Cardinality(Stale(j)') <= Cardinality(Stale(j))
        BY <2>1, <2>2, CardSteps
      <3>2. Stranded(j)' => Stranded(j)
        <4>1. Entries(j)' = Entries(j)
          BY <1>5, <1>6, <2>5
        <4>2. \A o \in open : o[2] = j => o \in open'
          BY <1>2, <2>5 DEF d
        <4>3. QED BY <1>2, <1>5, <4>1, <4>2 DEF Stranded, Holds
      <3>3. One(Charging(j)') = 0 /\ One(Stranded(j)') <= One(Stranded(j)) /\ One(Stranded(j)') \in {0, 1}
        BY <1>5, <2>5, <3>2 DEF One
      <3>4. QED BY <2>1, <2>3, <3>1, <3>3
    <2>6. QED BY <2>4, <2>5
  <1>8. daemon'.retry < Paid(daemon'.job)
    <2>1. /\ IsFiniteSet(Stale(d)) /\ Cardinality(Stale(d)) \in Nat /\ Cardinality(Failing(d)) \in Nat
          /\ One(Charging(d)) \in {0, 1} /\ One(Stranded(d)) \in {0, 1}
      BY <1>1, DebtFinite
    <2>2. Cardinality(Stale(d)) # 0
      BY <1>6, <2>1, FS_EmptySet
    <2>3. job[d].retry + (Cardinality(Failing(d)) + Cardinality(Stale(d)) + One(Charging(d))
                            + One(Stranded(d))) <= Paid(d)
      BY <1>1, <1>3 DEF DebtInv, Debt
    <2>4. Paid(d) \in Nat
      BY <1>1, <1>3, PaidNat
    <2>5. job[d].retry < Paid(d)
      BY <1>3, <2>1, <2>2, <2>3, <2>4
    <2>6. QED BY <1>4, <2>5
  <1>9. \A j \in Jobs : /\ faults'[j] >= faults[j] /\ job'[j].retry <= job[j].retry
                        /\ Due(j)' + faults[j] <= Due(j) + faults'[j]
    <2>1. \A j \in Jobs : /\ job'[j].retry = job[j].retry /\ job[j].retry \in Nat
                          /\ faults'[j] = faults[j] /\ faults[j] \in Nat
      BY <1>1, <1>2, JobFields DEF TypeInv
    <2>2. QED BY <1>7, <2>1 DEF Due, One
  <1>10. QED BY <1>2, <1>4, <1>8, <1>9, LedgerStep

\* Recovery closes its run, or reads the count: the charge is still to come.
LEMMA HandLedger ==
  ASSUME SchedulerInv, SchedulerInv', LedgerInv, RecoverClose \/ RecoverCount
  PROVE  LedgerInv'
  <1> DEFINE d == daemon.job
  <1>1. TypeInv /\ StageInv /\ daemon \in DaemonRec
    BY DEF SchedulerInv, TypeInv
  <1>2. /\ daemon.at \in {"close", "count"} /\ UNCHANGED << job, worker, failed, faults >>
        /\ open' \subseteq open /\ \A o \in open \ open' : o = <<daemon.of, d>> /\ daemon.at = "close"
    BY DEF RecoverClose, RecoverCount, rows, ghosts
  <1>3. /\ daemon'.at \in {"count", "charge"} /\ daemon'.todo = daemon.todo
        /\ daemon'.job = d /\ daemon'.retry = daemon.retry
        /\ daemon'.at = "charge" => daemon'.count = job[d].retry
    BY <1>1 DEF RecoverClose, RecoverCount, DaemonRec
  <1>4. /\ Mending /\ Mending'
        /\ \A j : Entries(j)' = Entries(j) /\ (Charging(j)' <=> Charging(j))
        /\ \A o : ~InHand(o)'
    BY <1>2, <1>3 DEF Mending, Entries, Charging, InHand
  <1>5. ASSUME NEW j \in Jobs
        PROVE  Cardinality(Stale(j)') + One(Charging(j)') + One(Stranded(j)') + faults[j]
                 <= Cardinality(Stale(j)) + One(Charging(j)) + One(Stranded(j)) + faults'[j]
    <2>1. /\ IsFiniteSet(Stale(j)) /\ Cardinality(Stale(j)) \in Nat
          /\ One(Charging(j)) \in {0, 1} /\ One(Stranded(j)) \in {0, 1}
      BY <1>1, DebtFinite
    <2>2. Stale(j)' \subseteq Stale(j)
      <3>1. \A o \in open' : ~InHand(o)
        BY DEF RecoverClose, RecoverCount, InHand
      <3>2. \A o : Running(o[1], j)' <=> Running(o[1], j)
        BY <1>2 DEF Running, RunsAt, Tracked
      <3>3. QED BY <1>2, <1>4, <3>1, <3>2 DEF Stale
    <2>3. Cardinality(Stale(j)') \in Nat /\ Cardinality(Stale(j)') <= Cardinality(Stale(j))
      BY <2>1, <2>2, CardSteps
    <2>4. Stranded(j)' => Stranded(j)
      <3>1. \A o \in open : o[2] = j /\ d # j => o \in open'
        BY <1>2
      <3>2. QED BY <1>2, <1>3, <1>4, <3>1 DEF Stranded, Holds
    <2>5. One(Charging(j)') = One(Charging(j)) /\ One(Stranded(j)') <= One(Stranded(j))
          /\ One(Stranded(j)') \in {0, 1}
      BY <1>4, <2>4 DEF One
    <2>6. faults'[j] = faults[j] /\ faults[j] \in Nat
      BY <1>1, <1>2 DEF TypeInv
    <2>7. QED BY <2>1, <2>3, <2>5, <2>6
  <1>6. \A j \in Jobs : /\ faults'[j] >= faults[j] /\ job'[j].retry <= job[j].retry
                        /\ Due(j)' + faults[j] <= Due(j) + faults'[j]
    <2>1. \A j \in Jobs : /\ job'[j].retry = job[j].retry /\ job[j].retry \in Nat
                          /\ faults'[j] = faults[j] /\ faults[j] \in Nat
      BY <1>1, <1>2, JobFields DEF TypeInv
    <2>2. QED BY <1>5, <2>1 DEF Due, One
  <1>7. QED BY <1>2, <1>3, <1>4, <1>6, LedgerStep

\* Recovery writes the row of the job it mends: the charge was to come, and a
\* one-shot it leaves is no longer firing.
LEMMA MendLedger ==
  ASSUME SchedulerInv, SchedulerInv', LedgerInv, daemon.at \in {"charge", "decide", "revert"},
         NEW new, Sane(daemon.job, new), job' = [job EXCEPT ![daemon.job] = new],
         \/ new.retry <= job[daemon.job].retry
         \/ daemon.at = "charge" /\ new.retry <= daemon.count + 1,
         daemon'.todo = daemon.todo,
         \/ daemon'.at \in {"decide", "revert"} /\ daemon'.job = daemon.job /\ daemon'.retry = daemon.retry
         \/ daemon'.at = "recover" /\ (daemon.job \in OneShots => new.status # "firing"),
         UNCHANGED << open, worker, failed, faults >>
  PROVE  LedgerInv'
  <1> DEFINE d == daemon.job
  <1>1. TypeInv /\ StageInv /\ Mending /\ d \in Jobs /\ daemon.count \in Nat
    BY DEF SchedulerInv, StageInv, Mending, TypeInv, DaemonRec
  <1>2. job'[d] = new /\ \A i \in Jobs : i # d => job'[i] = job[i]
    BY <1>1, JobWrite
  <1>3. \A j \in Jobs : job'[j].mode = job[j].mode
    BY <1>2 DEF Sane
  <1>4. ASSUME NEW j \in Jobs
        PROVE  /\ Entries(j)' = Entries(j) /\ Stale(j)' = Stale(j) /\ ~Charging(j)'
               /\ Charging(j) => j = d
               /\ daemon.at = "charge" /\ j = d => Charging(j)
    <2>1. \A o : ~InHand(o) /\ ~InHand(o)'
      BY DEF InHand
    <2>2. \A o : Running(o[1], j)' <=> Running(o[1], j)
      BY <1>3 DEF Running, RunsAt, Tracked
    <2>3. QED BY <2>1, <2>2 DEF Entries, Stale, Charging
  <1>5. ASSUME NEW j \in Jobs
        PROVE  /\ Due(j)' + faults[j] <= Due(j) + faults'[j]
               /\ daemon.at = "charge" /\ j = d => Due(j)' + faults[j] + 1 <= Due(j) + faults'[j]
    <2>1. /\ Cardinality(Stale(j)) \in Nat /\ One(Charging(j)) \in {0, 1} /\ One(Stranded(j)) \in {0, 1}
      BY <1>1, DebtFinite
    <2>2. faults'[j] = faults[j] /\ faults[j] \in Nat
      BY <1>1 DEF TypeInv
    <2>3. /\ One(Charging(j)') = 0 /\ One(Stranded(j)') \in {0, 1} /\ Stale(j)' = Stale(j)
          /\ daemon.at = "charge" /\ j = d => One(Charging(j)) = 1
      BY <1>4 DEF One
    <2>4. One(Stranded(j)') <= One(Stranded(j))
      <3>1. CASE j = d
        <4>1. ~Stranded(j)'
          BY <1>2, <3>1 DEF Stranded, Mending
        <4>2. QED BY <2>1, <4>1 DEF One
      <3>2. CASE j # d
        <4>1. job'[j] = job[j] /\ Entries(j)' = Entries(j)
          BY <1>2, <1>4, <3>2
        <4>2. Stranded(j)' => Stranded(j)
          BY <3>2, <4>1 DEF Stranded, Holds
        <4>3. QED BY <4>2 DEF One
      <3>3. QED BY <3>1, <3>2
    <2>5. Due(j)' = Cardinality(Stale(j)) + One(Stranded(j)')
      BY <2>1, <2>3 DEF Due, One
    <2>6. QED BY <2>1, <2>2, <2>3, <2>4, <2>5 DEF Due
  <1>6. ASSUME NEW j \in Jobs
        PROVE  \/ job'[j].retry <= job[j].retry
               \/ daemon.at = "charge" /\ j = d /\ job'[j].retry <= daemon.count + 1
    <2>1. job[j].retry \in Nat
      BY <1>1, JobFields DEF TypeInv
    <2>2. QED BY <1>2, <2>1
  <1>7. \A j \in Jobs : faults'[j] >= faults[j]
    BY <1>1 DEF TypeInv
  <1>8. Mending' => Mending /\ daemon'.job = daemon.job /\ daemon'.retry = daemon.retry
    BY <1>1 DEF Mending
  <1>9. QED BY <1>5, <1>6, <1>7, <1>8, LedgerStep

LEMMA RecoverLedger ==
  ASSUME SchedulerInv, SchedulerInv', LedgerInv, RecoverCharge \/ RecoverDecide \/ RecoverRevert
  PROVE  LedgerInv'
  <1> DEFINE d == daemon.job
             over == [Up EXCEPT !.at = "recover", !.todo = daemon.todo]
  <1>1. daemon.at \in {"charge", "decide", "revert"} /\ Mending
    BY DEF RecoverCharge, RecoverDecide, RecoverRevert, Mending
  <1>2. TypeInv /\ StageInv /\ d \in Jobs /\ daemon \in DaemonRec
        /\ daemon.retry \in Nat /\ daemon.count \in Nat
    BY <1>1 DEF SchedulerInv, StageInv, TypeInv, DaemonRec
  <1>3. UNCHANGED << open, worker, failed, faults >> /\ job[d].retry \in Nat
    BY <1>2, JobFields DEF RecoverCharge, RecoverDecide, RecoverRevert, ghosts, TypeInv
  <1>4. over.at = "recover" /\ over.todo = daemon.todo
    BY DEF Up
  <1> HIDE DEF over
  <1>5. CASE RecoverCharge
    <2> DEFINE new == ChargeRetry(job[d], FALSE, daemon.count)
               on == [daemon EXCEPT !.at = "decide", !.count = 0]
    <2>1. job' = [job EXCEPT ![d] = new] /\ daemon' = on /\ daemon.at = "charge"
      BY <1>5 DEF RecoverCharge
    <2>2. Sane(d, new)
      BY <1>2, ChargeFacts
    <2>3. new.retry <= daemon.count + 1
      <3>1. new.retry = daemon.count + 1
        BY <1>2, RetryFacts
      <3> HIDE DEF new
      <3>2. QED BY <1>2, <3>1
    <2>4. on.at = "decide" /\ on.todo = daemon.todo /\ on.job = d /\ on.retry = daemon.retry
      BY <1>2 DEF DaemonRec
    <2> HIDE DEF new, on
    <2>5. QED BY <1>1, <1>3, <2>1, <2>2, <2>3, <2>4, MendLedger
  <1>6. CASE RecoverDecide
    <2> DEFINE new == ApplyRetryDecision(d, job[d], daemon.retry)
               on == [daemon EXCEPT !.at = "revert"]
    <2>1. /\ job' = [job EXCEPT ![d] = new]
          /\ \/ DecideRetry(daemon.retry) /\ daemon' = on
             \/ ~DecideRetry(daemon.retry) /\ daemon' = over
      BY <1>6 DEF RecoverDecide, Recovered, over
    <2>2. /\ Sane(d, new)
          /\ ~DecideRetry(daemon.retry) /\ d \in OneShots => new.status = Status(job[d], "cancelled")
      BY <1>2, ApplyFacts
    <2>3. new.retry <= job[d].retry
      BY <1>2, RetryFacts
    <2>4. on.at = "revert" /\ on.todo = daemon.todo /\ on.job = d /\ on.retry = daemon.retry
      BY <1>2 DEF DaemonRec
    <2> HIDE DEF new, on
    <2>5. CASE DecideRetry(daemon.retry)
      BY <1>1, <1>3, <2>1, <2>2, <2>3, <2>4, <2>5, MendLedger
    <2>6. CASE ~DecideRetry(daemon.retry)
      <3>1. d \in OneShots => new.status # "firing"
        BY <2>2, <2>6 DEF Status
      <3>2. QED BY <1>1, <1>3, <1>4, <2>1, <2>2, <2>3, <2>6, <3>1, MendLedger
    <2>7. QED BY <2>5, <2>6
  <1>7. CASE RecoverRevert
    <2> DEFINE new == RevertStatus(job[d])
    <2>1. job' = [job EXCEPT ![d] = new] /\ daemon' = over
      BY <1>7 DEF RecoverRevert, Recovered, over
    <2>2. Sane(d, new) /\ new.status = Status(job[d], "active")
      BY <1>2, SettleFacts
    <2>3. new.retry <= job[d].retry
      <3>1. new.retry = job[d].retry
        BY <1>2, RetryFacts
      <3>2. QED BY <1>3, <3>1
    <2> HIDE DEF new
    <2>4. new.status # "firing"
      BY <2>2 DEF Status
    <2>5. QED BY <1>1, <1>3, <1>4, <2>1, <2>2, <2>3, <2>4, MendLedger
  <1>8. QED BY <1>5, <1>6, <1>7

LEMMA LedgerInit ==
  ASSUME Init
  PROVE  LedgerInv
  <1>1. /\ open = {} /\ worker = [w \in Workers |-> Dead] /\ daemon = Up
        /\ failed = [j \in Jobs |-> 0] /\ faults = [j \in Jobs |-> 0]
        /\ job \in [Jobs -> [mode : Modes, status : {"active"}, enabled : {TRUE}, next : {1},
                             due : {FALSE}, retry : {0}, more : BOOLEAN]]
    BY DEF Init
  <1>2. \A j \in Jobs : job[j].retry = 0 /\ job[j].status = "active"
    BY <1>1
  <1>3. /\ Dead.at = "dead" /\ Dead.job = NoJob /\ DOMAIN Dead.seen = {} /\ DOMAIN Dead.claims = {}
        /\ Up.at = "up" /\ Up.todo = {}
    BY DeadFacts, UpFacts DEF Dead
  <1>4. \A w \in Workers : worker[w] = Dead
    BY <1>1
  <1>5. TidyInv
    BY <1>1, <1>3, <1>4 DEF TidyInv
  <1>6. ASSUME NEW j \in Jobs PROVE job[j].retry + Debt(j) <= Paid(j)
    <2>1. Failing(j) = {} /\ Stale(j) = {} /\ ~Charging(j) /\ ~Stranded(j)
      BY <1>1, <1>2, <1>3, <1>4 DEF Failing, Owing, Stale, Entries, Charging, Stranded
    <2>2. Debt(j) = 0
      <3>1. Cardinality({}) = 0
        BY FS_EmptySet
      <3>2. QED BY <2>1, <3>1 DEF Debt, One
    <2>3. Paid(j) = 0
      BY <1>1 DEF Paid
    <2>4. QED BY <1>2, <2>2, <2>3
  <1>7. KnownInv /\ ReadInv
    BY <1>1, <1>3, <1>4 DEF KnownInv, Knows, Owing, Mending, ReadInv
  <1>8. QED BY <1>5, <1>6, <1>7 DEF LedgerInv, DebtInv

LEMMA LedgerNext ==
  ASSUME SchedulerInv, SchedulerInv', LedgerInv, [Next]_vars
  PROVE  LedgerInv'
  <1>1. CASE UNCHANGED << job, open, worker, daemon, failed, faults >>
    BY <1>1, StillLedger
  <1>2. ASSUME NEW w \in Workers,
               \/ WorkerStep(w) \/ Outcome(w) \/ Spawn(w) \/ ToolsReady(w)
               \/ ToolsReload(w) \/ WorkerDies(w)
        PROVE  LedgerInv'
    BY <1>2, WorkerLedger, SpawnLedger, EndLedger
  <1>3. CASE DaemonStep \/ DaemonDies
    BY <1>3, BootLedger, RecoverRunLedger, HandLedger, RecoverLedger, EndLedger, DaemonDiesLedger
    DEF DaemonStep
  <1>4. ASSUME NEW j \in Jobs,
               \/ CancelSchedule(j) \/ Disable(j) \/ Enable(j) \/ TimePasses(j)
               \/ LastOccurrence(j)
        PROVE  LedgerInv'
    BY <1>4, UserLedger
  <1>5. CASE SetQuiesce \/ LeaseEnds \/ UNCHANGED vars
    BY <1>1, <1>5 DEF SetQuiesce, LeaseEnds, rows, ghosts, vars
  <1>6. QED BY <1>2, <1>3, <1>4, <1>5 DEF Next

\* In every reachable state what is charged to a job, and what is to be, has
\* been paid for by its failures and its faults.
THEOREM ChargesArePaid == SchedulerSpec => [](SchedulerInv /\ LedgerInv)
  <1>1. Init => LedgerInv
    BY LedgerInit
  <1>2. LedgerInv /\ SchedulerInv /\ SchedulerInv' /\ [Next]_vars => LedgerInv'
    BY LedgerNext
  <1>3. QED BY <1>1, <1>2, SchedulerInvariant, PTL DEF SchedulerSpec

\* Every variable has its type, and a row's retry count (completeScheduleRun,
\* retryOneShot and the boot's recovery add to it) is never more than the runs
\* that failed or found a busy conversation and the faults: none is charged
\* twice.
THEOREM SchedulerTypeCorrect == SchedulerSpec => []SchedulerTypeOK
  <1>1. SchedulerInv /\ LedgerInv => SchedulerTypeOK
    <2> SUFFICES ASSUME SchedulerInv, LedgerInv PROVE SchedulerTypeOK
      OBVIOUS
    <2>1. TypeInv /\ StageInv /\ TidyInv /\ DebtInv
      BY DEF SchedulerInv, LedgerInv
    <2>2. \A j \in Jobs : job[j].retry <= failed[j] + faults[j]
      <3> SUFFICES ASSUME NEW j \in Jobs PROVE job[j].retry <= Paid(j)
        BY DEF Paid
      <3>1. Debt(j) \in Nat /\ Paid(j) \in Nat /\ job[j].retry \in Nat
        BY <2>1, DebtFinite, PaidNat, JobFields DEF Debt, TypeInv
      <3>2. job[j].retry + Debt(j) <= Paid(j)
        BY <2>1 DEF DebtInv
      <3>3. QED BY <3>1, <3>2
    <2>3. ASSUME NEW w \in Workers
          PROVE  /\ DOMAIN worker[w].seen \cup DOMAIN worker[w].claims \subseteq Jobs
                 /\ worker[w].job \in DOMAIN worker[w].claims \cup {NoJob}
      <3>1. DOMAIN worker[w].seen \subseteq Jobs /\ DOMAIN worker[w].claims \subseteq Jobs
        BY <2>1, WorkerFields DEF TypeInv
      <3>2. worker[w].job \in DOMAIN worker[w].claims \cup {NoJob}
        BY <2>1 DEF TidyInv, StageInv, InPlace
      <3>3. QED BY <3>1, <3>2
    <2>4. job \in [Jobs -> [mode : Modes, status : Statuses, enabled : BOOLEAN, next : {0} \cup Stamps,
                            due : BOOLEAN, retry : Nat, more : BOOLEAN]]
      BY <2>1 DEF TypeInv, JobRec
    <2>5. open \subseteq (Workers \cup {NoRun}) \X Jobs /\ quiesced \in BOOLEAN
      BY <2>1 DEF TypeInv, Sources
    <2>6. QED BY <2>2, <2>3, <2>4, <2>5 DEF SchedulerTypeOK
  <1>2. QED BY <1>1, ChargesArePaid, PTL

GaveUp(j) == job[j].status = "firing" /\ job'[j].status = "cancelled"

\* A row is written, but not to give its job up.
LEMMA KeepsOn ==
  ASSUME TypeInv, NEW j \in Jobs, NEW new, job' = [job EXCEPT ![j] = new],
         new.status = "cancelled" => job[j].status # "firing"
  PROVE  \A i \in Jobs : ~GaveUp(i)
  <1>1. job'[j] = new /\ \A i \in Jobs : i # j => job'[i] = job[i]
    BY DEF TypeInv
  <1>2. QED BY <1>1 DEF GaveUp

\* The budget is the smaller of the two, for a job that wakes a conversation.
LEMMA BudgetFacts ==
  ASSUME NEW j
  PROVE  /\ Budget(j) \in Nat /\ Budget(j) <= MaxRetries
         /\ job[j].mode = "wake" => Budget(j) <= WakeMaxRetries
  <1>1. MaxRetries \in Nat /\ WakeMaxRetries \in Nat
    BY SchedulerConstants
  <1>2. QED BY <1>1 DEF Budget

LEMMA WorkerGivesUp ==
  ASSUME SchedulerInv, LedgerInv, NEW w \in Workers, WorkerStep(w) \/ Outcome(w),
         NEW i \in OneShots, GaveUp(i)
  PROVE  failed'[i] + faults'[i] > Budget(i)
  <1> DEFINE j == worker[w].job
  <1>1. TypeInv /\ StageInv /\ TidyInv /\ KnownInv /\ i \in Jobs
    BY DEF SchedulerInv, LedgerInv, Jobs
  <1>2. Paid(i) \in Nat /\ failed[i] \in Nat /\ faults[i] \in Nat /\ Paid(i) = failed[i] + faults[i]
    BY <1>1, PaidNat DEF Paid
  <1>3. /\ Budget(i) \in Nat /\ Budget(i) <= MaxRetries
        /\ job[i].mode = "wake" => Budget(i) <= WakeMaxRetries
        /\ MaxRetries \in Nat /\ WakeMaxRetries \in Nat
    BY BudgetFacts, SchedulerConstants
  <1>4. ASSUME worker[w].at \in BusyAts
        PROVE  /\ j \in Jobs /\ worker[w].claims[j].retry \in Nat
               /\ worker[w].claims[j].retry <= Paid(j)
    <2>1. j \in Jobs /\ j \in DOMAIN worker[w].claims /\ worker[w].claims[j].retry \in Nat
      BY <1>1, <1>4, BusyFacts
    <2>2. QED BY <1>1, <2>1 DEF KnownInv, Knows
  <1>5. job' # job
    BY DEF GaveUp
  <1>6. CASE FindBusy(w)
    <2> DEFINE r == worker[w].claims[j].retry
               new == IF j \in Recurring THEN job[j]
                      ELSE IF r >= WakeMaxRetries
                             THEN FailOneShotPermanently(job[j])
                             ELSE RetryOneShot(job[j])
    <2>1. /\ worker[w].at \in BusyAts /\ job' = [job EXCEPT ![j] = new] /\ job[j].mode = "wake"
          /\ failed' = [failed EXCEPT ![j] = failed[j] + 1] /\ faults' = faults
      BY <1>6 DEF FindBusy, BusyAts
    <2>2. j \in Jobs /\ r \in Nat /\ r <= Paid(j)
      BY <1>4, <2>1
    <2>3. /\ RetryOneShot(job[j]).status = Status(job[j], "active")
          /\ FailOneShotPermanently(job[j]).status = Status(job[j], "cancelled")
      BY <1>1, <2>2, SettleFacts
    <2>4. job'[j] = new /\ \A k \in Jobs : k # j => job'[k] = job[k]
      BY <1>1, <2>1, <2>2 DEF TypeInv
    <2>5. i = j
      BY <1>1, <2>4 DEF GaveUp
    <2>6. r >= WakeMaxRetries
      BY <2>3, <2>4, <2>5 DEF GaveUp, Status
    <2>7. failed'[i] = failed[i] + 1 /\ faults'[i] = faults[i]
      BY <1>1, <2>1, <2>5 DEF TidyInv
    <2>8. Budget(i) <= WakeMaxRetries /\ r <= Paid(i)
      BY <1>3, <2>1, <2>2, <2>5
    <2> HIDE DEF r
    <2>9. QED BY <1>2, <1>3, <2>2, <2>6, <2>7, <2>8
  <1>7. CASE Decide(w)
    <2> DEFINE r == worker[w].claims[j].retry
               new == ApplyRetryDecision(j, job[j], r)
    <2>1. /\ worker[w].at = "decide" /\ worker[w].at \in BusyAts
          /\ job' = [job EXCEPT ![j] = new] /\ failed' = failed /\ faults' = faults
      BY <1>7 DEF Decide, ghosts, BusyAts
    <2>2. j \in Jobs /\ r \in Nat
      BY <1>4, <2>1
    <2>3. /\ DecideRetry(r) => new.status = job[j].status
      BY <1>1, <2>2, ApplyFacts
    <2>4. i = j /\ ~DecideRetry(r)
      <3> HIDE DEF new
      <3>1. job'[j] = new /\ \A k \in Jobs : k # j => job'[k] = job[k]
        BY <1>1, <2>1, <2>2 DEF TypeInv
      <3>2. QED BY <1>1, <2>3, <3>1 DEF GaveUp
    <2>5. r < Paid(i)
      BY <1>1, <2>1, <2>4 DEF KnownInv, Knows
    <2> HIDE DEF r
    <2>6. QED BY <1>2, <1>3, <2>1, <2>2, <2>4, <2>5 DEF DecideRetry
  <1>8. ASSUME NEW k \in Jobs, Claim(w, k) \/ Defer(w, k) PROVE FALSE
    <2>1. CASE Defer(w, k)
      <3>1. job' = [job EXCEPT ![k] = Requeue(k, job[k])] /\ Requeue(k, job[k]).status = job[k].status
        BY <1>1, <1>8, <2>1, RequeueFacts DEF Defer
      <3>2. QED BY <1>1, <3>1, KeepsOn
    <2>2. CASE Claim(w, k)
      <3> DEFINE new == IF k \in Recurring THEN Advance(k, job[k])
                                           ELSE [job[k] EXCEPT !.status = "firing"]
      <3>1. job' = [job EXCEPT ![k] = new]
        BY <1>5, <2>2 DEF Claim
      <3>2. job'[k] = new /\ \A l \in Jobs : l # k => job'[l] = job[l]
        BY <1>1, <3>1 DEF TypeInv
      <3>3. i = k
        BY <1>1, <3>2 DEF GaveUp
      <3>4. new.status = "firing"
        <4>1. k \notin Recurring /\ job[k] \in JobRec
          BY <1>1, <3>3, SchedulerConstants DEF TypeInv
        <4>2. QED BY <4>1 DEF JobRec
      <3> HIDE DEF new
      <3>5. QED BY <3>2, <3>3, <3>4 DEF GaveUp
    <2>3. QED BY <1>8, <2>1, <2>2
  <1>9. CASE Charge(w) \/ Complete(w) \/ Revert(w)
    <2>1. worker[w].at \in BusyAts
      BY <1>9 DEF Charge, Complete, Revert, BusyAts
    <2>2. j \in Jobs
      BY <1>4, <2>1
    <2>3. PICK new : job' = [job EXCEPT ![j] = new] /\ (new.status = "cancelled" => job[j].status # "firing")
      <3>1. CASE Charge(w)
        <4>1. PICK ok \in BOOLEAN : job' = [job EXCEPT ![j] = ChargeRetry(job[j], ok, worker[w].count)]
          BY <3>1 DEF Charge
        <4>2. worker[w].count \in Nat
          BY <1>1, <2>1, BusyFacts
        <4>3. ChargeRetry(job[j], ok, worker[w].count).status = job[j].status
          BY <1>1, <2>2, <4>2, ChargeFacts
        <4>4. QED BY <4>1, <4>3
      <3>2. CASE Complete(w)
        <4>1. /\ job' = [job EXCEPT ![j] = CompleteOneShot(job[j])]
              /\ CompleteOneShot(job[j]).status = Status(job[j], "fired")
          BY <1>1, <2>2, <3>2, SettleFacts DEF Complete
        <4>2. QED BY <4>1 DEF Status
      <3>3. CASE Revert(w)
        <4>1. /\ job' = [job EXCEPT ![j] = RevertStatus(job[j])]
              /\ RevertStatus(job[j]).status = Status(job[j], "active")
          BY <1>1, <2>2, <3>3, SettleFacts DEF Revert
        <4>2. QED BY <4>1 DEF Status
      <3>4. QED BY <1>9, <3>1, <3>2, <3>3
    <2>4. QED BY <1>1, <2>2, <2>3, KeepsOn
  <1>10. CASE \/ SelectRecurring(w) \/ SelectOneShots(w) \/ TickEnds(w) \/ OpenRun(w)
              \/ CloseRun(w) \/ Count(w) \/ Succeed(w) \/ FindGone(w) \/ Fail(w) \/ \E k \in Jobs : Start(w, k)
    BY <1>5, <1>10 DEF SelectRecurring, SelectOneShots, TickEnds, OpenRun, CloseRun, Count,
                       Succeed, FindGone, Fail, Start, rows
  <1>11. QED BY <1>6, <1>7, <1>8, <1>9, <1>10 DEF WorkerStep, Outcome

\* A one-shot is given up (applyRetryDecision, and the wake path's own budget
\* in scheduler.ts) only after its first run and every retry it is allowed
\* have failed, found a busy conversation or were cut off.
THEOREM GivesUpOnlyAfterBudget == SchedulerSpec => GivesUpAfterBudget
  <1>1. ASSUME SchedulerInv, LedgerInv, [Next]_vars, NEW i \in OneShots, GaveUp(i)
        PROVE  failed'[i] + faults'[i] > Budget(i)
    <2>1. TypeInv /\ StageInv /\ TidyInv /\ KnownInv /\ i \in Jobs
      BY <1>1 DEF SchedulerInv, LedgerInv, Jobs
    <2>2. job' # job
      BY <1>1 DEF GaveUp
    <2>3. ASSUME NEW w \in Workers, WorkerStep(w) \/ Outcome(w)
          PROVE  failed'[i] + faults'[i] > Budget(i)
      BY <1>1, <2>3, WorkerGivesUp
    <2>4. CASE RecoverDecide
      <3> DEFINE d == daemon.job
                 r == daemon.retry
                 new == ApplyRetryDecision(d, job[d], r)
      <3>1. /\ daemon.at = "decide" /\ job' = [job EXCEPT ![d] = new] /\ failed' = failed /\ faults' = faults
        BY <2>4 DEF RecoverDecide, ghosts
      <3>2. Mending /\ d \in Jobs /\ r \in Nat /\ r < Paid(d)
        BY <2>1, <3>1 DEF Mending, StageInv, TypeInv, DaemonRec, KnownInv
      <3>3. DecideRetry(r) => new.status = job[d].status
        BY <2>1, <3>2, ApplyFacts
      <3>4. i = d /\ ~DecideRetry(r)
        <4> HIDE DEF new
        <4>1. job'[d] = new /\ \A k \in Jobs : k # d => job'[k] = job[k]
          BY <2>1, <3>1, <3>2 DEF TypeInv
        <4>2. QED BY <1>1, <2>1, <3>3, <4>1 DEF GaveUp
      <3>5. /\ Paid(i) \in Nat /\ Paid(i) = failed'[i] + faults'[i]
            /\ Budget(i) \in Nat /\ Budget(i) <= MaxRetries /\ MaxRetries \in Nat
        BY <2>1, <3>1, PaidNat, BudgetFacts, SchedulerConstants DEF Paid
      <3> HIDE DEF r
      <3>6. QED BY <3>2, <3>4, <3>5 DEF DecideRetry
    <2>5. CASE RecoverCharge \/ RecoverRevert
      <3> DEFINE d == daemon.job
      <3>1. d \in Jobs
        BY <2>1, <2>5 DEF RecoverCharge, RecoverRevert, Mending, StageInv
      <3>2. /\ ChargeRetry(job[d], FALSE, daemon.count).status = job[d].status
            /\ RevertStatus(job[d]).status = Status(job[d], "active")
        <4>1. daemon.count \in Nat
          BY <2>1 DEF TypeInv, DaemonRec
        <4>2. QED BY <2>1, <3>1, <4>1, ChargeFacts, SettleFacts
      <3>3. PICK new : job' = [job EXCEPT ![d] = new] /\ (new.status = "cancelled" => job[d].status # "firing")
        BY <2>5, <3>2 DEF RecoverCharge, RecoverRevert, Status
      <3>4. QED BY <1>1, <2>1, <3>1, <3>3, KeepsOn
    <2>6. ASSUME NEW j \in Jobs,
                 \/ CancelSchedule(j) \/ Disable(j) \/ Enable(j) \/ TimePasses(j)
                 \/ LastOccurrence(j)
          PROVE  FALSE
      <3>1. job[j] \in JobRec
        BY <2>1 DEF TypeInv
      <3>2. \A k \in Jobs : k # j => job'[k] = job[k]
        BY <2>1, <2>6 DEF CancelSchedule, Disable, Enable, TimePasses, LastOccurrence, TypeInv
      <3>3. i = j
        BY <1>1, <2>1, <3>2 DEF GaveUp
      <3>4. CASE CancelSchedule(j)
        BY <1>1, <3>3, <3>4 DEF CancelSchedule, GaveUp
      <3>5. j \notin Recurring
        BY <3>3, SchedulerConstants
      <3>6. CASE Disable(j) \/ Enable(j) \/ TimePasses(j) \/ LastOccurrence(j)
        <4>1. \/ job' = [job EXCEPT ![j] = [job[j] EXCEPT !.enabled = FALSE]]
              \/ job' = [job EXCEPT ![j] = [job[j] EXCEPT !.enabled = TRUE]]
              \/ job' = [job EXCEPT ![j] = [job[j] EXCEPT !.due = TRUE]]
              \/ job' = [job EXCEPT ![j] = [job[j] EXCEPT !.more = FALSE]]
          BY <3>5, <3>6 DEF Disable, Enable, TimePasses, LastOccurrence
        <4>2. /\ [job[j] EXCEPT !.enabled = FALSE].status = job[j].status
              /\ [job[j] EXCEPT !.enabled = TRUE].status = job[j].status
              /\ [job[j] EXCEPT !.due = TRUE].status = job[j].status
              /\ [job[j] EXCEPT !.more = FALSE].status = job[j].status
          BY <3>1 DEF JobRec
        <4>3. PICK new : job' = [job EXCEPT ![j] = new] /\ new.status = job[j].status
          BY <4>1, <4>2
        <4>4. QED BY <1>1, <2>1, <4>3, KeepsOn
      <3>7. QED BY <2>6, <3>4, <3>6
    <2>7. CASE \/ SetQuiesce \/ LeaseEnds \/ UNCHANGED vars \/ Boot \/ StartScheduler \/ DaemonDies
               \/ RecoverClose \/ RecoverCount \/ \E s \in daemon.todo : RecoverRun(s)
               \/ \E w \in Workers : Spawn(w) \/ ToolsReady(w) \/ ToolsReload(w) \/ WorkerDies(w)
      BY <2>2, <2>7 DEF SetQuiesce, LeaseEnds, vars, rows, Boot, StartScheduler, DaemonDies, RecoverRun,
                        RecoverClose, RecoverCount, Spawn, ToolsReady, ToolsReload, WorkerDies
    <2>8. QED BY <1>1, <2>3, <2>4, <2>5, <2>6, <2>7 DEF Next, DaemonStep
  <1>2. SchedulerInv /\ LedgerInv /\ [Next]_vars
          => [\A j \in OneShots :
                job[j].status = "firing" /\ job'[j].status = "cancelled" =>
                  failed'[j] + faults'[j] > Budget(j)]_vars
    BY <1>1 DEF GaveUp
  <1>3. QED BY <1>2, ChargesArePaid, PTL DEF SchedulerSpec, GivesUpAfterBudget

=============================================================================
