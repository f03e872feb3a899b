------------------------ MODULE MemoryCoverageProofs ------------------------
(***************************************************************************)
(* No update of a source is forgotten, for any rows, keys, groups and      *)
(* budgets, as long as no two workers are alive at the same time: the one  *)
(* worker of the hypothesis may be stopped, killed and started again as    *)
(* often as it likes.  (Two live workers may write the index of a key out  *)
(* of order.)                                                              *)
(***************************************************************************)
EXTENDS MemoryJobsProofs

\* A row that will still bring the index of its key up to date.
Stands(j) ==
  \/ rows[j].status = "pending"
  \/ rows[j].status = "running" /\ StandsFor(j) = {version[KeyOf[j]]}

\* The latest version of k is taken care of, whatever the index holds.
Waiting(k) ==
  \/ enqueuing[k] # "no"
  \/ version[k] \in abandoned[k]
  \/ \E j \in Jobs : KeyOf[j] = k /\ Stands(j)

Started(w, j) == task[w][j].stage \in {"read", "written", "hung"}

\* Only an executing worker in its running phase has tasks.
IdleInv == \A w \in Workers :
  /\ ~Executing(w) => phase[w] = "idle"
  /\ phase[w] # "running" => \A j \in Jobs : task[w][j].stage = "none"

\* The rows of a group are executed one after the other.
SerialInv == \A w \in Workers, i, j \in Jobs :
  SameGroup(i, j) /\ Started(w, i) /\ Started(w, j) => i = j

\* A row that a worker holds is its own, or was settled behind its back.
HeldInv == \A w \in Workers, j \in Jobs :
  Holds(w, j) => task[w][j].own \/ rows[j].status \in Terminal

\* An execution that has written the index finds there what it wrote.
WrittenInv == \A w \in Workers, j \in Jobs :
  task[w][j].stage = "written" => indexed[KeyOf[j]] = task[w][j].snap

\* While an execution may still write a version that is out of date, the
\* latest version is waiting.
StaleInv == \A w \in Workers, j \in Jobs :
  task[w][j].stage = "read" /\ task[w][j].snap # version[KeyOf[j]] => Waiting(KeyOf[j])

CoverageInv ==
  /\ IdleInv
  /\ SerialInv
  /\ HeldInv
  /\ WrittenInv
  /\ StaleInv
  /\ NoUpdateForgotten

----------------------------------------------------------------------------
(* One worker at a time.                                                    *)

\* Stands, said of the only worker there is.
Redo(w, j) ==
  \/ rows[j].status = "pending"
  \/ /\ rows[j].status = "running"
     /\ task[w][j].own /\ Started(w, j) => task[w][j].snap = version[KeyOf[j]]

LEMMA StandsForAlone ==
  ASSUME NEW w, Workers = {w}, NEW j
  PROVE  /\ task[w][j].own /\ Started(w, j) => StandsFor(j) = {task[w][j].snap}
         /\ ~(task[w][j].own /\ Started(w, j)) => StandsFor(j) = {version[KeyOf[j]]}
  <1> DEFINE readers == {v \in Workers : task[v][j].own
                                  /\ task[v][j].stage \in {"read", "written", "hung"}}
  <1>1. CASE task[w][j].own /\ Started(w, j)
    <2>1. readers = {w}
      BY <1>1, Zenon DEF Started
    <2>2. StandsFor(j) = {task[v][j].snap : v \in readers}
      BY <2>1 DEF StandsFor
    <2>3. QED
      BY <1>1, <2>1, <2>2
  <1>2. CASE ~(task[w][j].own /\ Started(w, j))
    <2>1. readers = {}
      BY <1>2, Zenon DEF Started
    <2>2. QED
      BY <1>2, <2>1 DEF StandsFor
  <1>3. QED
    BY <1>1, <1>2

LEMMA StandsAlone ==
  ASSUME NEW w, Workers = {w}, NEW j
  PROVE  Stands(j) <=> Redo(w, j)
  <1>1. CASE task[w][j].own /\ Started(w, j)
    <2>1. StandsFor(j) = {task[w][j].snap}
      BY <1>1, StandsForAlone
    <2>2. StandsFor(j) = {version[KeyOf[j]]} <=> task[w][j].snap = version[KeyOf[j]]
      BY <2>1
    <2>3. QED
      BY <1>1, <2>2, Zenon DEF Stands, Redo
  <1>2. CASE ~(task[w][j].own /\ Started(w, j))
    <2>1. StandsFor(j) = {version[KeyOf[j]]}
      BY <1>2, StandsForAlone
    <2>2. QED
      BY <1>2, <2>1, Zenon DEF Stands, Redo
  <1>3. QED
    BY <1>1, <1>2

LEMMA StandsAloneNext ==
  ASSUME NEW w, Workers = {w}, NEW j
  PROVE  Stands(j)' <=> Redo(w, j)'
  <1>1. Stands(j) <=> Redo(w, j)
    BY StandsAlone
  <1>2. QED
    BY <1>1, PTL

\* Giving up a row that stands for the latest version puts it on record.
LEMMA GiveUpRecords ==
  ASSUME JobsTypeOK, ClaimExclusive, NEW w, Workers = {w},
         NEW js \in SUBSET Jobs, GiveUp(js)
  PROVE  /\ \A k \in Keys : abandoned[k] \subseteq abandoned'[k]
         /\ \A j \in js : Redo(w, j) => version[KeyOf[j]] \in abandoned'[KeyOf[j]]
  <1>1. \A k \in Keys : abandoned'[k] =
          abandoned[k] \cup UNION {StandsFor(j) : j \in {i \in js : KeyOf[i] = k}}
    BY DEF GiveUp
  <1>2. ASSUME NEW j \in js, Redo(w, j)
        PROVE  version[KeyOf[j]] \in abandoned'[KeyOf[j]]
    <2>1. StandsFor(j) = {version[KeyOf[j]]}
      <3>1. CASE rows[j].status = "pending"
        <4>1. ~task[w][j].own
          BY <3>1 DEF ClaimExclusive
        <4>2. QED
          BY <4>1, StandsForAlone
      <3>2. CASE rows[j].status # "pending"
        <4>1. CASE task[w][j].own /\ Started(w, j)
          <5>1. task[w][j].snap = version[KeyOf[j]]
            BY <1>2, <3>2, <4>1, Zenon DEF Redo
          <5>2. QED
            BY <4>1, <5>1, StandsForAlone
        <4>2. CASE ~(task[w][j].own /\ Started(w, j))
          BY <4>2, StandsForAlone
        <4>3. QED
          BY <4>1, <4>2
      <3>3. QED
        BY <3>1, <3>2
    <2>2. KeyOf[j] \in Keys
      BY JobsAssumption
    <2>3. QED
      BY <1>1, <2>1, <2>2
  <1>3. QED
    BY <1>1, <1>2
----------------------------------------------------------------------------
(* What keeps an update waiting.  A step that leaves source and enqueues    *)
(* alone must hand over every row that stands for the latest version: the   *)
(* row still stands (or is on record as given up), or the index holds that  *)
(* version and no execution of the key can overwrite it with an older one.  *)

Yields(w, j) ==
  Redo(w, j) => Redo(w, j)' \/ version[KeyOf[j]] \in abandoned'[KeyOf[j]]

Done(w, j) ==
  /\ indexed'[KeyOf[j]] = version[KeyOf[j]]
  /\ \A i \in Jobs : KeyOf[i] = KeyOf[j] => task'[w][i].stage # "read"

LEMMA WaitingKept ==
  ASSUME NEW w, Workers = {w}, NEW k \in Keys, Waiting(k),
         enqueuing'[k] = enqueuing[k], version'[k] = version[k],
         abandoned[k] \subseteq abandoned'[k],
         \A j \in Jobs : KeyOf[j] = k => Yields(w, j)
  PROVE  Waiting(k)'
  <1>1. CASE enqueuing[k] # "no" \/ version[k] \in abandoned[k]
    BY <1>1 DEF Waiting
  <1>2. ASSUME NEW j \in Jobs, KeyOf[j] = k, Stands(j) PROVE Waiting(k)'
    <2>1. Redo(w, j)' \/ version[k] \in abandoned'[k]
      BY <1>2, StandsAlone DEF Yields
    <2>2. CASE Redo(w, j)'
      <3>1. Stands(j)'
        BY <2>2, StandsAloneNext
      <3>2. QED
        BY <1>2, <3>1 DEF Waiting
    <2>3. CASE version[k] \in abandoned'[k]
      BY <2>3 DEF Waiting
    <2>4. QED
      BY <2>1, <2>2, <2>3
  <1>3. QED
    BY <1>1, <1>2 DEF Waiting

\* An update is covered when the index holds it or when it is waiting.
LEMMA CoveredCases ==
  ASSUME NEW k
  PROVE  Covered(k) <=> indexed[k] = version[k] \/ Waiting(k)
  <1>1. (\E j \in Jobs : KeyOf[j] = k /\ Stands(j)) <=>
        \E j \in Jobs : /\ KeyOf[j] = k
                        /\ \/ rows[j].status = "pending"
                           \/ /\ rows[j].status = "running"
                              /\ StandsFor(j) = {version[k]}
    BY DEF Stands
  <1>2. QED
    BY <1>1 DEF Covered, Waiting

LEMMA CoveredCasesNext ==
  ASSUME NEW k
  PROVE  (Covered(k) <=> indexed[k] = version[k] \/ Waiting(k))'
  <1>1. Covered(k) <=> indexed[k] = version[k] \/ Waiting(k)
    BY CoveredCases
  <1>2. QED
    BY <1>1, PTL

\* The two parts of the invariant about versions, for a step that leaves the
\* source and the enqueues alone.
LEMMA CoverageKept ==
  ASSUME JobsTypeOK, StaleInv, NoUpdateForgotten, NEW w, Workers = {w},
         UNCHANGED <<enqueuing, version>>,
         \A k \in Keys : abandoned[k] \subseteq abandoned'[k],
         \A j \in Jobs : Yields(w, j) \/ Done(w, j),
         \A k \in Keys : \/ indexed'[k] = indexed[k]
                         \/ \E j \in Jobs : /\ KeyOf[j] = k
                                            /\ task[w][j].stage = "read"
                                            /\ indexed'[k] = task[w][j].snap,
         \A j \in Jobs : task'[w][j].stage = "read" =>
           \/ task'[w][j].snap = version[KeyOf[j]]
           \/ task[w][j].stage = "read" /\ task'[w][j].snap = task[w][j].snap
  PROVE  StaleInv' /\ NoUpdateForgotten'
  <1>0. \A j \in Jobs : KeyOf[j] \in Keys
    BY JobsAssumption
  <1>1. ASSUME NEW k \in Keys, Waiting(k)
        PROVE  \/ Waiting(k)'
               \/ \E j \in Jobs : KeyOf[j] = k /\ Done(w, j)
    <2>1. CASE \A j \in Jobs : KeyOf[j] = k => Yields(w, j)
      BY <1>1, <2>1, WaitingKept
    <2>2. CASE ~\A j \in Jobs : KeyOf[j] = k => Yields(w, j)
      BY <2>2
    <2>3. QED
      BY <2>1, <2>2
  <1>2. StaleInv'
    <2>1. SUFFICES ASSUME NEW j \in Jobs, task'[w][j].stage = "read",
                          task'[w][j].snap # version[KeyOf[j]]
                   PROVE  Waiting(KeyOf[j])'
      BY DEF StaleInv
    <2>2. task[w][j].stage = "read" /\ task[w][j].snap # version[KeyOf[j]]
      BY <2>1
    <2>3. Waiting(KeyOf[j])
      BY <2>2 DEF StaleInv
    <2>4. \A i \in Jobs : KeyOf[i] = KeyOf[j] => ~Done(w, i)
      BY <2>1 DEF Done
    <2>5. QED
      BY <1>0, <1>1, <2>3, <2>4
  <1>3. NoUpdateForgotten'
    <2>1. SUFFICES ASSUME NEW k \in Keys PROVE indexed'[k] = version[k] \/ Waiting(k)'
      BY CoveredCasesNext DEF NoUpdateForgotten
    <2>2. indexed[k] = version[k] \/ Waiting(k)
      BY CoveredCases DEF NoUpdateForgotten
    <2>3. CASE Waiting(k)
      BY <1>1, <2>3 DEF Done
    <2>4. CASE ~Waiting(k)
      <3>1. \A j \in Jobs : KeyOf[j] = k /\ task[w][j].stage = "read"
                              => task[w][j].snap = version[k]
        BY <2>4 DEF StaleInv
      <3>2. QED
        BY <2>2, <2>4, <3>1
    <2>5. QED
      BY <2>3, <2>4
  <1>4. QED
    BY <1>2, <1>3

\* The parts about tasks, for a step that starts no handler and writes no index:
\* each task is as it was, or gone, or newly claimed.
LEMMA TasksKept ==
  ASSUME SerialInv, WrittenInv, NEW w, Workers = {w}, UNCHANGED indexed,
         \A j \in Jobs : \/ task'[w][j].stage \in {"none", "queued"}
                         \/ /\ task'[w][j].stage = task[w][j].stage
                            /\ task'[w][j].snap = task[w][j].snap
  PROVE  SerialInv' /\ WrittenInv'
  <1>1. \A j \in Jobs : Started(w, j)' => Started(w, j)
    BY DEF Started
  <1>2. SerialInv'
    BY <1>1 DEF SerialInv, SameGroup
  <1>3. WrittenInv'
    BY DEF WrittenInv
  <1>4. QED
    BY <1>2, <1>3
----------------------------------------------------------------------------
(* The daemon's steps.                                                      *)

\* Nothing about a key that the step does not touch changes.
LEMMA OtherKeyWaits ==
  ASSUME NEW w, Workers = {w}, NEW k \in Keys, UNCHANGED <<task, abandoned>>,
         enqueuing'[k] = enqueuing[k], version'[k] = version[k],
         \A j \in Jobs : KeyOf[j] = k => rows'[j] = rows[j],
         Waiting(k)
  PROVE  Waiting(k)'
  <1>1. \A j \in Jobs : KeyOf[j] = k => Yields(w, j)
    BY DEF Yields, Redo, Started
  <1>2. QED
    BY <1>1, WaitingKept

\* A step that leaves the tasks and the index alone, and after which the key it
\* is about is waiting.
LEMMA KeyStep ==
  ASSUME JobsTypeOK, StaleInv, NoUpdateForgotten, NEW w, Workers = {w}, NEW k \in Keys,
         UNCHANGED <<task, abandoned, indexed>>, Waiting(k)',
         \A l \in Keys \ {k} : enqueuing'[l] = enqueuing[l] /\ version'[l] = version[l],
         \A j \in Jobs : KeyOf[j] # k => rows'[j] = rows[j]
  PROVE  StaleInv' /\ NoUpdateForgotten'
  <1>1. \A l \in Keys : Waiting(l) => Waiting(l)'
    BY OtherKeyWaits
  <1>2. \A j \in Jobs : KeyOf[j] \in Keys
    BY JobsAssumption
  <1>3. StaleInv'
    BY <1>1, <1>2 DEF StaleInv
  <1>4. NoUpdateForgotten'
    <2>1. SUFFICES ASSUME NEW l \in Keys PROVE indexed'[l] = version'[l] \/ Waiting(l)'
      BY CoveredCasesNext DEF NoUpdateForgotten
    <2>2. indexed[l] = version[l] \/ Waiting(l)
      BY CoveredCases DEF NoUpdateForgotten
    <2>3. QED
      BY <1>1, <2>2
  <1>5. QED
    BY <1>3, <1>4

LEMMA DaemonCovers ==
  ASSUME JobsTypeOK, ClaimExclusive, CoverageInv, NEW w, Workers = {w}, NEW k \in Keys,
         WriteSource(k) \/ UpsertSelect(k) \/ EnqueueMemoryJob(k)
  PROVE  CoverageInv'
  <1>1. UNCHANGED <<wproc, phase, task, abandoned, indexed>>
    BY DEF WriteSource, UpsertSelect, EnqueueMemoryJob, slotVars
  <1>2. IdleInv' /\ SerialInv' /\ WrittenInv'
    BY <1>1 DEF CoverageInv, IdleInv, SerialInv, WrittenInv, Executing, Started
  <1>3. \A j \in Jobs : \/ rows'[j] = rows[j]
                        \/ KeyOf[j] = k /\ rows[j].status = "none"
    BY DEF WriteSource, UpsertSelect, EnqueueMemoryJob, JobsTypeOK
  <1>4. HeldInv'
    <2>1. SUFFICES ASSUME NEW j \in Jobs, Holds(w, j)'
                   PROVE  task'[w][j].own \/ rows'[j].status \in Terminal
      BY DEF HeldInv
    <2>2. task[w][j].own \/ rows[j].status \in Terminal
      BY <1>1, <2>1 DEF CoverageInv, HeldInv, Holds
    <2>3. rows[j].status # "none"
      BY <2>2 DEF ClaimExclusive, Terminal
    <2>4. QED
      BY <1>1, <1>3, <2>2, <2>3
  <1>5. Waiting(k)'
    <2>1. CASE WriteSource(k)
      BY <2>1 DEF WriteSource, Waiting, JobsTypeOK
    <2>2. CASE UpsertSelect(k)
      <3>1. CASE \E j \in Jobs : KeyOf[j] = k /\ Coalesces(j)
        BY <2>2, <3>1 DEF UpsertSelect, Coalesces, Waiting, Stands
      <3>2. CASE ~\E j \in Jobs : KeyOf[j] = k /\ Coalesces(j)
        BY <2>2, <3>2 DEF UpsertSelect, Waiting, JobsTypeOK
      <3>3. QED
        BY <3>1, <3>2
    <2>3. CASE EnqueueMemoryJob(k)
      <3>1. PICK j \in Jobs : KeyOf[j] = k /\ rows' = [rows EXCEPT ![j].status = "pending"]
        BY <2>3 DEF EnqueueMemoryJob
      <3>2. rows'[j].status = "pending"
        BY <3>1 DEF JobsTypeOK, Row
      <3>3. QED
        BY <3>1, <3>2 DEF Waiting, Stands
    <2>4. QED
      BY <2>1, <2>2, <2>3
  <1>6. \A l \in Keys \ {k} : enqueuing'[l] = enqueuing[l] /\ version'[l] = version[l]
    BY DEF WriteSource, UpsertSelect, EnqueueMemoryJob, JobsTypeOK
  <1>7. StaleInv' /\ NoUpdateForgotten'
    BY <1>1, <1>3, <1>5, <1>6, KeyStep DEF CoverageInv
  <1>8. QED
    BY <1>2, <1>4, <1>7 DEF CoverageInv

----------------------------------------------------------------------------
(* Steps that take rows away from their executions.                         *)

\* Rows fail, by a cancel or by the watchdog.
LEMMA FailingCovers ==
  ASSUME JobsTypeOK, ClaimExclusive, CoverageInv, NEW w, Workers = {w},
         NEW js \in SUBSET Jobs,
         UNCHANGED <<enqueuing, version, indexed>>,
         rows' = [j \in Jobs |-> IF j \in js THEN [rows[j] EXCEPT !.status = "failed"]
                                             ELSE rows[j]],
         task' = Disowned(task, js), GiveUp(js)
  PROVE  SerialInv' /\ WrittenInv' /\ HeldInv' /\ StaleInv' /\ NoUpdateForgotten'
  <1>1. task \in TaskTable /\ rows \in [Jobs -> Row]
    BY DEF JobsTypeOK, TaskTable
  <1>2. \A j \in Jobs : /\ task'[w][j].stage = task[w][j].stage
                        /\ task'[w][j].snap = task[w][j].snap
                        /\ j \notin js => task'[w][j] = task[w][j]
    BY <1>1 DEF Disowned, TaskTable, Task
  <1>3. \A j \in Jobs : /\ j \in js => rows'[j].status = "failed"
                        /\ j \notin js => rows'[j] = rows[j]
    BY <1>1 DEF Row
  <1>4. SerialInv' /\ WrittenInv'
    BY <1>2, TasksKept DEF CoverageInv
  <1>5. HeldInv'
    BY <1>2, <1>3 DEF CoverageInv, HeldInv, Holds, Terminal
  <1>6. \A k \in Keys : abandoned[k] \subseteq abandoned'[k]
    BY GiveUpRecords
  <1>7. \A j \in Jobs : Yields(w, j)
    <2>1. ASSUME NEW j \in js PROVE Yields(w, j)
      BY GiveUpRecords DEF Yields
    <2>2. ASSUME NEW j \in Jobs \ js PROVE Yields(w, j)
      BY <1>2, <1>3 DEF Yields, Redo, Started
    <2>3. QED
      BY <2>1, <2>2
  <1>8. StaleInv' /\ NoUpdateForgotten'
    BY <1>2, <1>6, <1>7, CoverageKept DEF CoverageInv
  <1>9. QED
    BY <1>4, <1>5, <1>8
LEMMA CancelCovers ==
  ASSUME JobsTypeOK, ClaimExclusive, CoverageInv, NEW w, Workers = {w}, NEW k \in Keys,
         CancelPendingJobs(k)
  PROVE  CoverageInv'
  <1> DEFINE active == {j \in Jobs : KeyOf[j] = k /\ rows[j].status \in {"pending", "running"}}
  <1>1. /\ rows' = [j \in Jobs |-> IF j \in active THEN [rows[j] EXCEPT !.status = "failed"]
                                                   ELSE rows[j]]
        /\ task' = Disowned(task, active)
        /\ GiveUp(active)
        /\ active \in SUBSET Jobs
        /\ UNCHANGED <<wproc, phase, enqueuing, version, indexed>>
    BY DEF CancelPendingJobs, slotVars
  <1> HIDE DEF active
  <1>2. SerialInv' /\ WrittenInv' /\ HeldInv' /\ StaleInv' /\ NoUpdateForgotten'
    BY <1>1, FailingCovers
  <1>3. \A j \in Jobs : task'[w][j].stage = task[w][j].stage
    BY <1>1 DEF Disowned, JobsTypeOK, Task
  <1>4. IdleInv'
    BY <1>1, <1>3 DEF CoverageInv, IdleInv, Executing
  <1>5. QED
    BY <1>2, <1>4 DEF CoverageInv

LEMMA SelectCovers ==
  ASSUME JobsTypeOK, ClaimExclusive, CoverageInv, NEW w, Workers = {w},
         NEW js \in SUBSET Jobs, TickSelect(w, js)
  PROVE  CoverageInv'
  <1> DEFINE stalled == {j \in Jobs : rows[j].status = "running" /\ rows[j].old}
  <1>1. /\ rows' = [j \in Jobs |-> IF j \in stalled THEN [rows[j] EXCEPT !.status = "failed"]
                                                    ELSE rows[j]]
        /\ task' = Disowned(task, stalled)
        /\ GiveUp(stalled)
        /\ stalled \in SUBSET Jobs
        /\ UNCHANGED <<wproc, enqueuing, version, indexed>>
        /\ wproc[w] = "looping" /\ phase[w] = "idle"
        /\ phase'[w] \in {"idle", "claiming"}
    BY DEF TickSelect, slotVars, JobsTypeOK
  <1> HIDE DEF stalled
  <1>2. SerialInv' /\ WrittenInv' /\ HeldInv' /\ StaleInv' /\ NoUpdateForgotten'
    BY <1>1, FailingCovers
  <1>3. \A j \in Jobs : task'[w][j].stage = task[w][j].stage
    BY <1>1 DEF Disowned, JobsTypeOK, Task
  <1>4. IdleInv'
    BY <1>1, <1>3 DEF CoverageInv, IdleInv, Executing
  <1>5. QED
    BY <1>2, <1>4 DEF CoverageInv

\* A worker starts: it holds nothing yet, and every row that was left running is
\* pending again.
LEMMA StartCovers ==
  ASSUME JobsTypeOK, ClaimExclusive, CoverageInv, NEW w, Workers = {w}, StartWorkerLoop(w)
  PROVE  CoverageInv'
  <1> DEFINE running == {j \in Jobs : rows[j].status = "running"}
  <1>1. /\ rows' = [j \in Jobs |-> IF j \in running THEN [rows[j] EXCEPT !.status = "pending"]
                                                    ELSE rows[j]]
        /\ task' = Disowned(task, running)
        /\ UNCHANGED <<phase, enqueuing, version, indexed, abandoned>>
        /\ wproc[w] = "booting"
    BY DEF StartWorkerLoop, EnterLoop
  <1>2. phase[w] = "idle" /\ \A j \in Jobs : task[w][j].stage = "none"
    BY <1>1 DEF CoverageInv, IdleInv, Executing
  <1>3. \A j \in Jobs : task'[w][j].stage = "none"
    BY <1>1, <1>2 DEF Disowned, JobsTypeOK, Task
  <1>4. IdleInv' /\ HeldInv'
    BY <1>1, <1>2, <1>3 DEF IdleInv, HeldInv, Holds
  <1>5. SerialInv' /\ WrittenInv'
    BY <1>1, <1>3, TasksKept DEF CoverageInv
  <1>6. \A j \in Jobs : Yields(w, j)
    <2>1. SUFFICES ASSUME NEW j \in Jobs, Redo(w, j) PROVE rows'[j].status = "pending"
      BY DEF Yields, Redo
    <2>2. QED
      BY <1>1, <2>1 DEF Redo, JobsTypeOK, Row
  <1>7. StaleInv' /\ NoUpdateForgotten'
    BY <1>1, <1>3, <1>6, CoverageKept DEF CoverageInv
  <1>8. QED
    BY <1>4, <1>5, <1>7 DEF CoverageInv

\* Each task stays or is gone, and no row changes its status: the row of a task
\* that is gone stands for whatever the source is when it runs again.
LEMMA DropCovers ==
  ASSUME JobsTypeOK, CoverageInv, NEW w, Workers = {w},
         UNCHANGED <<enqueuing, version, indexed, abandoned>>,
         \A j \in Jobs : rows'[j].status = rows[j].status,
         \A j \in Jobs : task'[w][j] = task[w][j] \/ task'[w][j].stage = "none"
  PROVE  SerialInv' /\ WrittenInv' /\ HeldInv' /\ StaleInv' /\ NoUpdateForgotten'
  <1>1. SerialInv' /\ WrittenInv'
    BY TasksKept DEF CoverageInv
  <1>2. HeldInv'
    BY DEF CoverageInv, HeldInv, Holds
  <1>3. \A j \in Jobs : Yields(w, j)
    BY Zenon DEF Yields, Redo, Started
  <1>4. StaleInv' /\ NoUpdateForgotten'
    BY <1>3, CoverageKept DEF CoverageInv
  <1>5. QED
    BY <1>1, <1>2, <1>4

LEMMA GoneCovers ==
  ASSUME JobsTypeOK, CoverageInv, NEW w, Workers = {w}, WorkerGone(w)
  PROVE  CoverageInv'
  <1>1. /\ UNCHANGED <<rows, enqueuing, version, indexed, abandoned>>
        /\ phase'[w] = "idle"
        /\ \A j \in Jobs : task'[w][j].stage = "none"
    BY DEF WorkerGone, JobsTypeOK, NoTask
  <1>2. SerialInv' /\ WrittenInv' /\ HeldInv' /\ StaleInv' /\ NoUpdateForgotten'
    BY <1>1, DropCovers
  <1>3. IdleInv'
    BY <1>1 DEF IdleInv
  <1>4. QED
    BY <1>2, <1>3 DEF CoverageInv

\* Steps that touch neither a task nor the status of a row.
LEMMA QuietCovers ==
  ASSUME JobsTypeOK, CoverageInv, NEW w, Workers = {w},
         \/ SlotStep(w) \/ TickEnd(w) \/ UNCHANGED vars
         \/ \E j \in Jobs : TurnOld(j)
  PROVE  CoverageInv'
  <1>1. UNCHANGED <<task, enqueuing, version, indexed, abandoned>>
    BY DEF SlotStep, TickEnd, TurnOld, vars, jobVars
  <1>2. \A j \in Jobs : rows'[j].status = rows[j].status
    BY DEF SlotStep, TickEnd, TurnOld, vars, jobVars, JobsTypeOK, Row
  <1>3. SerialInv' /\ WrittenInv' /\ HeldInv' /\ StaleInv' /\ NoUpdateForgotten'
    BY <1>1, <1>2, DropCovers
  <1>4. IdleInv'
    <2>1. CASE SlotStep(w)
      <3>1. UNCHANGED phase
        BY <2>1 DEF SlotStep, jobVars
      <3>2. ~Executing(w)' => ~Executing(w)
        <4>1. wproc[w] \in {"dead", "spawned", "looping"}
          BY <2>1 DEF SlotStep, SpawnWorkerProcess, WritePidFile, StopWorkerProcess
        <4>2. wproc[w] = "looping" => wproc'[w] = "stopping"
          BY <2>1 DEF SlotStep, SpawnWorkerProcess, WritePidFile, StopWorkerProcess,
                      JobsTypeOK, SlotTypeOK
        <4>3. QED
          BY <4>1, <4>2 DEF Executing
      <3>3. QED
        BY <1>1, <3>1, <3>2 DEF CoverageInv, IdleInv
    <2>2. CASE TickEnd(w)
      <3>1. phase'[w] = "idle" /\ \A j \in Jobs : task'[w][j].stage = "none"
        BY <1>1, <2>2 DEF TickEnd, Holds, JobsTypeOK
      <3>2. QED
        BY <3>1 DEF IdleInv
    <2>3. CASE UNCHANGED vars \/ \E j \in Jobs : TurnOld(j)
      BY <1>1, <2>3 DEF TurnOld, vars, jobVars, slotVars, CoverageInv, IdleInv, Executing
    <2>4. QED
      BY <2>1, <2>2, <2>3
  <1>5. QED
    BY <1>3, <1>4 DEF CoverageInv
----------------------------------------------------------------------------
(* A tick: claim, read, write, resolve.                                     *)

LEMMA ClaimCovers ==
  ASSUME JobsTypeOK, ClaimExclusive, CoverageInv, NEW w, Workers = {w}, TickClaim(w)
  PROVE  CoverageInv'
  <1> DEFINE claimed == {j \in candidates[w] : Claimable(j)}
  <1>1. /\ UNCHANGED <<wproc, enqueuing, version, indexed, abandoned>>
        /\ Executing(w)
        /\ phase'[w] = IF claimed = {} THEN "idle" ELSE "running"
    BY DEF TickClaim, slotVars, JobsTypeOK
  <1>2. \A j \in claimed : /\ j \in Jobs
                           /\ rows'[j].status = "running"
                           /\ task'[w][j].stage = "queued"
                           /\ task'[w][j].own
    BY DEF TickClaim, JobsTypeOK, Row
  <1>3. \A j \in Jobs \ claimed : rows'[j] = rows[j] /\ task'[w][j].stage = "none"
    BY DEF TickClaim, JobsTypeOK, NoTask
  <1> HIDE DEF claimed
  <1>4. IdleInv'
    BY <1>1, <1>3 DEF IdleInv, Executing
  <1>5. HeldInv'
    BY <1>2, <1>3 DEF HeldInv, Holds
  <1>6. \A j \in Jobs : task'[w][j].stage \in {"none", "queued"}
    BY <1>2, <1>3
  <1>7. SerialInv' /\ WrittenInv'
    BY <1>1, <1>6, TasksKept DEF CoverageInv
  <1>8. \A j \in Jobs : Yields(w, j)
    <2>1. ASSUME NEW j \in claimed PROVE Yields(w, j)
      BY <1>2 DEF Yields, Redo, Started
    <2>2. ASSUME NEW j \in Jobs \ claimed PROVE Yields(w, j)
      BY <1>3 DEF Yields, Redo, Started
    <2>3. QED
      BY <2>1, <2>2
  <1>9. StaleInv' /\ NoUpdateForgotten'
    BY <1>1, <1>6, <1>8, CoverageKept DEF CoverageInv
  <1>10. QED
    BY <1>4, <1>5, <1>7, <1>9 DEF CoverageInv

\* The handler of row i reads the source, writes the index or hangs.
LEMMA HandlerCovers ==
  ASSUME JobsTypeOK, ClaimExclusive, CoverageInv, NEW w, Workers = {w}, NEW i \in Jobs,
         ProcessJob(w, i) \/ WriteIndex(w, i) \/ Hang(w, i)
  PROVE  CoverageInv'
  <1>1. /\ UNCHANGED <<wproc, phase, rows, enqueuing, version, abandoned>>
        /\ \A j \in Jobs \ {i} : task'[w][j] = task[w][j]
    BY DEF ProcessJob, WriteIndex, Hang, slotVars, JobsTypeOK
  <1>2. /\ task'[w][i].own = task[w][i].own
        /\ task[w][i].stage \in {"queued", "read"}
        /\ task'[w][i].stage \in {"read", "written", "hung"}
    BY DEF ProcessJob, WriteIndex, Hang, JobsTypeOK, Task
  <1>3. Holds(w, i)
    BY <1>2 DEF Holds
  <1>4. IdleInv'
    BY <1>1, <1>3 DEF CoverageInv, IdleInv, Executing, Holds
  <1>5. HeldInv'
    <2>1. task'[w][i].own \/ rows'[i].status \in Terminal
      BY <1>1, <1>2, <1>3 DEF CoverageInv, HeldInv
    <2>2. QED
      BY <1>1, <2>1 DEF CoverageInv, HeldInv, Holds
  <1>6. \A j \in Jobs \ {i} : SameGroup(i, j) \/ SameGroup(j, i) => ~Started(w, j)
    <2>1. CASE ProcessJob(w, i)
      BY <2>1 DEF ProcessJob, SameGroup, Started
    <2>2. CASE WriteIndex(w, i) \/ Hang(w, i)
      <3>1. Started(w, i)
        BY <2>2 DEF WriteIndex, Hang, Started
      <3>2. QED
        BY <3>1 DEF CoverageInv, SerialInv, SameGroup
    <2>3. QED
      BY <2>1, <2>2
  <1>7. SerialInv'
    <2>1. SUFFICES ASSUME NEW j \in Jobs, NEW n \in Jobs, SameGroup(j, n),
                          Started(w, j)', Started(w, n)'
                   PROVE  j = n
      BY DEF SerialInv, SameGroup
    <2>2. CASE j = i \/ n = i
      BY <1>1, <1>6, <2>1, <2>2 DEF Started
    <2>3. CASE j # i /\ n # i
      BY <1>1, <2>1, <2>3 DEF CoverageInv, SerialInv, Started
    <2>4. QED
      BY <2>2, <2>3
  <1>8. \A j \in Jobs \ {i} : KeyOf[j] = KeyOf[i] => ~Started(w, j)
    BY <1>6 DEF SameGroup
  <1>9. /\ \A k \in Keys : k # KeyOf[i] => indexed'[k] = indexed[k]
        /\ WriteIndex(w, i) \/ UNCHANGED indexed
        /\ WriteIndex(w, i) => /\ indexed'[KeyOf[i]] = task[w][i].snap
                               /\ task'[w][i].snap = task[w][i].snap
                               /\ task[w][i].stage = "read"
                               /\ task'[w][i].stage = "written"
    BY JobsAssumption DEF ProcessJob, WriteIndex, Hang, JobsTypeOK, Task
  <1>10. WrittenInv'
    <2>1. SUFFICES ASSUME NEW j \in Jobs, task'[w][j].stage = "written"
                   PROVE  indexed'[KeyOf[j]] = task'[w][j].snap
      BY DEF WrittenInv
    <2>2. CASE j = i
      <3>1. WriteIndex(w, i)
        BY <2>1, <2>2 DEF ProcessJob, Hang, JobsTypeOK, Task
      <3>2. QED
        BY <1>9, <2>2, <3>1
    <2>3. CASE j # i
      <3>1. task[w][j].stage = "written" /\ task'[w][j] = task[w][j]
        BY <1>1, <2>1, <2>3
      <3>2. KeyOf[j] # KeyOf[i] /\ KeyOf[j] \in Keys
        BY <1>8, <2>3, <3>1, JobsAssumption DEF Started
      <3>3. QED
        BY <1>9, <3>1, <3>2 DEF CoverageInv, WrittenInv
    <2>4. QED
      BY <2>2, <2>3
  <1>11. task'[w][i].snap = IF ProcessJob(w, i) THEN version[KeyOf[i]] ELSE task[w][i].snap
    <2>1. CASE ProcessJob(w, i)
      BY <2>1 DEF ProcessJob, JobsTypeOK, Task
    <2>2. CASE ~ProcessJob(w, i)
      BY <2>2 DEF WriteIndex, Hang, JobsTypeOK, Task
    <2>3. QED
      BY <2>1, <2>2
  <1>12. ProcessJob(w, i) \/ task[w][i].stage = "read"
    BY DEF WriteIndex, Hang
  <1>13. Yields(w, i)
    <2>1. SUFFICES ASSUME Redo(w, i) PROVE Redo(w, i)'
      BY DEF Yields
    <2>2. CASE ProcessJob(w, i)
      BY <1>1, <1>11, <2>1, <2>2 DEF Redo
    <2>3. CASE ~ProcessJob(w, i)
      <3>1. Started(w, i) /\ task'[w][i].snap = task[w][i].snap
        BY <1>11, <1>12, <2>3 DEF Started
      <3>2. QED
        BY <1>1, <1>2, <2>1, <3>1 DEF Redo
    <2>4. QED
      BY <2>2, <2>3
  <1>14. \A j \in Jobs : Yields(w, j)
    <2>1. ASSUME NEW j \in Jobs \ {i} PROVE Yields(w, j)
      BY <1>1 DEF Yields, Redo, Started
    <2>2. QED
      BY <1>13, <2>1
  <1>15. \A j \in Jobs : task'[w][j].stage = "read" =>
           \/ task'[w][j].snap = version[KeyOf[j]]
           \/ task[w][j].stage = "read" /\ task'[w][j].snap = task[w][j].snap
    BY <1>1, <1>11, <1>12
  <1>16. StaleInv' /\ NoUpdateForgotten'
    <2>1. \A k \in Keys : \/ indexed'[k] = indexed[k]
                          \/ \E j \in Jobs : /\ KeyOf[j] = k
                                             /\ task[w][j].stage = "read"
                                             /\ indexed'[k] = task[w][j].snap
      BY <1>9
    <2>2. QED
      BY <1>1, <1>14, <1>15, <2>1, CoverageKept DEF CoverageInv
  <1>17. QED
    BY <1>4, <1>5, <1>7, <1>10, <1>16 DEF CoverageInv
\* What a transition makes of a running row.
LEMMA TransitionStatus ==
  ASSUME NEW row \in Row, NEW n \in Nat
  PROVE  /\ CompleteMemoryJob(row).status = "completed"
         /\ FailRetryable(row, n).status \in {"pending", "failed"}
         /\ FailFatal(row, n).status = "failed"
         /\ DeferMemoryJob(row, n).status \in {"pending", "failed"}
         /\ RescheduleMemoryJob(row).status = "pending"
  BY DEF CompleteMemoryJob, FailRetryable, FailFatal, DeferMemoryJob, RescheduleMemoryJob, Row

\* A resolution settles the row it is about, drops its task or only reads; a row
\* only completes when its handler has written the index.
LEMMA ResolveSettles ==
  ASSUME JobsTypeOK, NEW w \in Workers, NEW j \in Jobs, Resolve(w, j)
  PROVE  \/ \E js \in SUBSET Jobs, next \in [Jobs -> Row] :
              /\ Settle(w, js, next)
              /\ \/ \A i \in Jobs : next[i].status \in {"pending", "failed"}
                 \/ /\ js = {j} /\ task[w][j].stage = "written"
                    /\ \A i \in Jobs : next[i].status = "completed"
         \/ /\ task' = [task EXCEPT ![w][j] = NoTask]
            /\ UNCHANGED <<rows, abandoned>>
         \/ UNCHANGED <<rows, task, abandoned>>
  <1>1. \A i \in Jobs : rows[i] \in Row
    BY DEF JobsTypeOK
  <1> DEFINE completed == [i \in Jobs |-> CompleteMemoryJob(rows[i])]
             again == [i \in Jobs |-> RescheduleMemoryJob(rows[i])]
  <1>2. completed \in [Jobs -> Row] /\ again \in [Jobs -> Row]
    <2>1. 0 \in Nat
      OBVIOUS
    <2>2. QED BY <1>1, <2>1, TransitionTypes
  <1>3. \A i \in Jobs : /\ completed[i].status = "completed"
                        /\ again[i].status \in {"pending", "failed"}
    <2>1. 0 \in Nat
      OBVIOUS
    <2>2. QED BY <1>1, <2>1, TransitionStatus
  <1>4. {j} \in SUBSET Jobs
    OBVIOUS
  <1>5. \/ task[w][j].stage = "written" /\ Settle(w, {j}, completed)
        \/ Settle(w, {j}, again)
        \/ /\ task' = [task EXCEPT ![w][j] = NoTask]
           /\ UNCHANGED <<rows, abandoned>>
        \/ UNCHANGED <<rows, task, abandoned>>
    BY Zenon DEF Resolve, SelectRow
  <1> HIDE DEF completed, again
  <1>6. QED
    BY <1>2, <1>3, <1>4, <1>5, Zenon

LEMMA SettleCovers ==
  ASSUME JobsTypeOK, ClaimExclusive, CoverageInv, NEW w, Workers = {w}, NEW j \in Jobs,
         NEW js \in SUBSET Jobs, NEW next \in [Jobs -> Row], Settle(w, js, next),
         UNCHANGED <<enqueuing, version, indexed>>,
         \/ \A i \in Jobs : next[i].status \in {"pending", "failed"}
         \/ /\ js = {j} /\ task[w][j].stage = "written"
            /\ \A i \in Jobs : next[i].status = "completed"
  PROVE  SerialInv' /\ WrittenInv' /\ HeldInv' /\ StaleInv' /\ NoUpdateForgotten'
  <1> DEFINE settled == {i \in js : MaySettle(i)}
             t == [task EXCEPT ![w] = [i \in Jobs |-> IF i \in js THEN NoTask ELSE task[w][i]]]
             failed == {i \in settled : next[i].status = "failed"}
  <1>1. /\ \A i \in settled : rows'[i] = next[i] /\ rows[i].status = "running" /\ i \in js
        /\ \A i \in Jobs \ settled : rows'[i] = rows[i]
        /\ \A i \in js \ settled : rows[i].status # "running"
    BY DEF Settle, MaySettle
  <1>2. /\ \A i \in js : task'[w][i].stage = "none"
        /\ \A i \in Jobs \ js : task'[w][i] = task[w][i]
    <2>1. t \in TaskTable
      BY NoTaskIsTask DEF JobsTypeOK, TaskTable
    <2>2. /\ \A i \in js : t[w][i] = NoTask
          /\ \A i \in Jobs \ js : t[w][i] = task[w][i]
      BY DEF JobsTypeOK
    <2>3. task' = Disowned(t, settled)
      BY DEF Settle
    <2>4. \A i \in Jobs : \/ task'[w][i] = t[w][i]
                          \/ i \in settled /\ task'[w][i] = [t[w][i] EXCEPT !.own = FALSE]
      <3> HIDE DEF t, settled
      <3>1. QED BY <2>1, <2>3 DEF Disowned
    <2>5. \A i \in js : task'[w][i].stage = "none"
      <3> HIDE DEF t, settled
      <3>1. QED BY <2>2, <2>4 DEF NoTask
    <2>6. \A i \in Jobs \ js : task'[w][i] = t[w][i]
      BY <1>1, <2>4
    <2>7. QED
      BY <2>2, <2>5, <2>6
  <1>3. GiveUp(failed) /\ failed \in SUBSET Jobs
    BY DEF Settle
  <1> HIDE DEF settled, t, failed
  <1>4. /\ \A k \in Keys : abandoned[k] \subseteq abandoned'[k]
        /\ \A i \in failed : Redo(w, i) => version[KeyOf[i]] \in abandoned'[KeyOf[i]]
    BY <1>3, GiveUpRecords
  <1>5. SerialInv' /\ WrittenInv'
    BY <1>2, TasksKept DEF CoverageInv
  <1>6. HeldInv'
    <2>1. \A i \in Jobs \ js : rows'[i] = rows[i]
      BY <1>1
    <2>2. QED
      BY <1>2, <2>1 DEF CoverageInv, HeldInv, Holds
  <1>7. ASSUME NEW i \in Jobs PROVE Yields(w, i) \/ Done(w, i)
    <2>1. CASE i \notin js
      BY <1>1, <1>2, <2>1 DEF Yields, Redo, Started
    <2>2. CASE i \in js /\ i \notin settled
      BY <1>1, <2>2 DEF Yields, Redo
    <2>3. CASE i \in settled /\ next[i].status = "pending"
      BY <1>1, <2>3 DEF Yields, Redo
    <2>4. CASE i \in settled /\ next[i].status = "failed"
      BY <1>4, <2>4 DEF Yields, failed
    <2>5. CASE i \in settled /\ next[i].status = "completed"
      <3>1. i = j /\ task[w][i].stage = "written" /\ rows[i].status = "running"
        BY <1>1, <2>5
      <3>2. Started(w, i) /\ Holds(w, i)
        BY <3>1 DEF Started, Holds
      <3>3. task[w][i].own
        BY <3>1, <3>2 DEF CoverageInv, HeldInv, Terminal
      <3>4. \A n \in Jobs : KeyOf[n] = KeyOf[i] => task'[w][n].stage # "read"
        <4>1. SUFFICES ASSUME NEW n \in Jobs, KeyOf[n] = KeyOf[i], task'[w][n].stage = "read"
                       PROVE  FALSE
          OBVIOUS
        <4>2. n \notin js /\ task[w][n].stage = "read"
          BY <1>2, <4>1
        <4>3. n = i
          BY <3>2, <4>1, <4>2 DEF CoverageInv, SerialInv, SameGroup, Started
        <4>4. QED
          BY <3>1, <4>2, <4>3
      <3>5. Redo(w, i) => indexed'[KeyOf[i]] = version[KeyOf[i]]
        <4>1. Redo(w, i) => task[w][i].snap = version[KeyOf[i]]
          BY <3>1, <3>2, <3>3 DEF Redo
        <4>2. QED
          BY <3>1, <4>1 DEF CoverageInv, WrittenInv
      <3>6. QED
        BY <3>4, <3>5 DEF Yields, Done
    <2>6. next[i].status \in {"pending", "failed", "completed"}
      OBVIOUS
    <2>7. QED
      BY <2>1, <2>2, <2>3, <2>4, <2>5, <2>6
  <1>8. \A i \in Jobs : task'[w][i].stage = "read" =>
          task[w][i].stage = "read" /\ task'[w][i].snap = task[w][i].snap
    BY <1>2
  <1>9. StaleInv' /\ NoUpdateForgotten'
    BY <1>4, <1>7, <1>8, CoverageKept DEF CoverageInv
  <1>10. QED
    BY <1>5, <1>6, <1>9

LEMMA ResolveCovers ==
  ASSUME JobsTypeOK, ClaimExclusive, CoverageInv, NEW w, Workers = {w}, NEW j \in Jobs,
         Resolve(w, j)
  PROVE  CoverageInv'
  <1>1. /\ UNCHANGED <<wproc, phase, enqueuing, version, indexed>>
        /\ Holds(w, j)
    BY DEF Resolve, slotVars, Holds
  <1>2. IdleInv'
    <2>1. Executing(w) /\ phase[w] = "running"
      BY <1>1 DEF Resolve, Free, CoverageInv, IdleInv, Holds
    <2>2. QED
      BY <1>1, <2>1 DEF IdleInv, Executing
  <1>3. CASE task' = [task EXCEPT ![w][j] = NoTask] /\ UNCHANGED <<rows, abandoned>>
    <2>1. \A i \in Jobs : task'[w][i] = task[w][i] \/ task'[w][i].stage = "none"
      BY <1>3 DEF JobsTypeOK, NoTask
    <2>2. SerialInv' /\ WrittenInv' /\ HeldInv' /\ StaleInv' /\ NoUpdateForgotten'
      BY <1>1, <1>3, <2>1, DropCovers
    <2>3. QED
      BY <1>2, <2>2 DEF CoverageInv
  <1>4. CASE \E js \in SUBSET Jobs, next \in [Jobs -> Row] :
              /\ Settle(w, js, next)
              /\ \/ \A i \in Jobs : next[i].status \in {"pending", "failed"}
                 \/ /\ js = {j} /\ task[w][j].stage = "written"
                    /\ \A i \in Jobs : next[i].status = "completed"
    BY <1>1, <1>2, <1>4, SettleCovers DEF CoverageInv
  <1>5. CASE UNCHANGED <<rows, task, abandoned>>
    <2>1. \A i \in Jobs : task'[w][i] = task[w][i]
      BY <1>5
    <2>2. SerialInv' /\ WrittenInv' /\ HeldInv' /\ StaleInv' /\ NoUpdateForgotten'
      BY <1>1, <1>5, <2>1, DropCovers
    <2>3. QED
      BY <1>2, <2>2 DEF CoverageInv
  <1>6. QED
    BY <1>3, <1>4, <1>5, ResolveSettles

\* The UPDATE of a store call, and the SELECT of the next one.
LEMMA StoreCallCovers ==
  ASSUME JobsTypeOK, ClaimExclusive, CoverageInv, NEW w, Workers = {w},
         UpdateRow(w) \/ DeferNext(w)
  PROVE  CoverageInv'
  <1>1. UNCHANGED <<wproc, phase, enqueuing, version, indexed>>
    BY DeferReads DEF UpdateRow, slotVars
  <1>2. CASE UpdateRow(w)
    <2>1. PICK j \in Jobs, n \in Nat, next \in [Jobs -> Row] :
            /\ Settle(w, {j}, next)
            /\ \/ next = [i \in Jobs |-> FailRetryable(rows[i], n)]
               \/ next = [i \in Jobs |-> FailFatal(rows[i], n)]
               \/ next = [i \in Jobs |-> DeferMemoryJob(rows[i], n)]
      BY <1>2, UpdateCases
    <2>2. \A i \in Jobs : next[i].status \in {"pending", "failed"}
      <3>1. \A i \in Jobs : rows[i] \in Row
        BY DEF JobsTypeOK
      <3>2. QED BY <2>1, <3>1, TransitionStatus
    <2>3. {j} \in SUBSET Jobs
      OBVIOUS
    <2>4. SerialInv' /\ WrittenInv' /\ HeldInv' /\ StaleInv' /\ NoUpdateForgotten'
      BY <1>1, <2>1, <2>2, <2>3, SettleCovers
    <2>5. \A i \in Jobs : task[w][i].stage = "none" => task'[w][i].stage = "none"
      <3> DEFINE t == [task EXCEPT ![w] =
                         [i \in Jobs |-> IF i \in {j} THEN NoTask ELSE task[w][i]]]
                 settled == {i \in {j} : MaySettle(i)}
      <3>1. t \in TaskTable /\ \A i \in Jobs : t[w][i] = task[w][i] \/ t[w][i] = NoTask
        BY NoTaskIsTask DEF JobsTypeOK, TaskTable
      <3>2. task' = Disowned(t, settled)
        BY <2>1 DEF Settle
      <3> HIDE DEF t, settled
      <3>3. \A i \in Jobs : task'[w][i].stage = t[w][i].stage
        BY <3>1, <3>2 DEF Disowned, TaskTable, Task
      <3>4. QED
        BY <3>1, <3>3 DEF NoTask
    <2>6. IdleInv'
      BY <1>1, <2>5 DEF CoverageInv, IdleInv, Executing
    <2>7. QED
      BY <2>4, <2>6 DEF CoverageInv
  <1>3. CASE DeferNext(w)
    <2>1. UNCHANGED <<rows, task, abandoned>>
      BY <1>3, DeferReads
    <2>2. SerialInv' /\ WrittenInv' /\ HeldInv' /\ StaleInv' /\ NoUpdateForgotten'
      BY <1>1, <2>1, DropCovers
    <2>3. IdleInv'
      BY <1>1, <2>1 DEF CoverageInv, IdleInv, Executing
    <2>4. QED
      BY <2>2, <2>3 DEF CoverageInv
  <1>4. QED
    BY <1>2, <1>3

----------------------------------------------------------------------------
(* The theorem.                                                             *)

OneWorker == \E w : Workers = {w}

LEMMA CoverageStep ==
  ASSUME OneWorker, JobsTypeOK, ClaimExclusive, CoverageInv, [JobsNext]_vars
  PROVE  CoverageInv'
  <1>0. PICK w : Workers = {w}
    BY DEF OneWorker
  <1>1. ASSUME NEW k \in Keys, WriteSource(k) \/ UpsertSelect(k) \/ EnqueueMemoryJob(k)
        PROVE  CoverageInv'
    BY <1>0, <1>1, DaemonCovers
  <1>2. ASSUME NEW k \in Keys, CancelPendingJobs(k) PROVE CoverageInv'
    BY <1>0, <1>2, CancelCovers
  <1>3. CASE SlotStep(w) \/ TickEnd(w) \/ UNCHANGED vars \/ \E j \in Jobs : TurnOld(j)
    BY <1>0, <1>3, QuietCovers
  <1>4. CASE StartWorkerLoop(w)
    BY <1>0, <1>4, StartCovers
  <1>5. CASE WorkerGone(w)
    BY <1>0, <1>5, GoneCovers
  <1>6. ASSUME NEW js \in SUBSET Jobs, TickSelect(w, js) PROVE CoverageInv'
    BY <1>0, <1>6, SelectCovers
  <1>7. CASE TickClaim(w)
    BY <1>0, <1>7, ClaimCovers
  <1>8. ASSUME NEW j \in Jobs, ProcessJob(w, j) \/ WriteIndex(w, j) \/ Hang(w, j)
        PROVE  CoverageInv'
    BY <1>0, <1>8, HandlerCovers
  <1>9. ASSUME NEW j \in Jobs, Resolve(w, j) PROVE CoverageInv'
    BY <1>0, <1>9, ResolveCovers
  <1>10. CASE UpdateRow(w) \/ DeferNext(w)
    BY <1>0, <1>10, StoreCallCovers
  <1>11. QED
    BY <1>0, <1>1, <1>2, <1>3, <1>4, <1>5, <1>6, <1>7, <1>8, <1>9, <1>10 DEF JobsNext

\* A write to a source is never forgotten, whatever mix of coalescing, retries,
\* deferrals, cancels, stalls, kills and restarts its rows go through, as long
\* as the slot keeps one worker alive at a time: the index holds the latest
\* version, or a row or an enqueue is there to bring it, or a row that stood
\* for it has failed.
THEOREM UpdatesAreNotForgotten == OneWorker => (JobsSpec => []NoUpdateForgotten)
  <1> SUFFICES ASSUME OneWorker PROVE JobsSpec => []NoUpdateForgotten
    OBVIOUS
  <1>1. JobsInit => CoverageInv
    <2> SUFFICES ASSUME JobsInit PROVE CoverageInv
      OBVIOUS
    <2>1. \A w \in Workers, j \in Jobs : task[w][j].stage = "none"
      BY DEF JobsInit, NoTask
    <2>2. \A w \in Workers : phase[w] = "idle"
      BY DEF JobsInit
    <2>3. IdleInv /\ SerialInv /\ HeldInv /\ WrittenInv /\ StaleInv
      BY <2>1, <2>2 DEF IdleInv, SerialInv, HeldInv, WrittenInv, StaleInv, Holds, Started
    <2>4. NoUpdateForgotten
      BY DEF JobsInit, NoUpdateForgotten, Covered
    <2>5. QED
      BY <2>3, <2>4 DEF CoverageInv
  <1>2. JobsTypeOK /\ ClaimExclusive /\ CoverageInv /\ [JobsNext]_vars => CoverageInv'
    BY CoverageStep
  <1>3. CoverageInv => NoUpdateForgotten
    BY DEF CoverageInv
  <1>4. QED
    BY <1>1, <1>2, <1>3, JobsTypeCorrect, ClaimsAreExclusive, PTL DEF JobsSpec
=============================================================================
