-------------------------- MODULE MemoryJobsProofs --------------------------
(***************************************************************************)
(* Theorems about MemoryJobs, for any number of workers, rows and keys and *)
(* any budgets: the type invariant; a claim hands a row to one worker;     *)
(* rows that may still run are within their budgets; settled rows stay     *)
(* settled.                                                                *)
(***************************************************************************)
EXTENDS MemoryJobs, TLAPS

TaskTable == [Workers -> [Jobs -> Task]]

LEMMA NoTaskIsTask == NoTask \in Task
  BY DEF NoTask, Task

LEMMA NoRowIsRow == NoRow \in Row
  BY DEF NoRow, Row, Terminal

\* Disowning keeps the table of tasks well-typed, and says of each task who
\* still owns its row.
LEMMA DisownedFacts ==
  ASSUME NEW t \in TaskTable, NEW js
  PROVE  /\ Disowned(t, js) \in TaskTable
         /\ \A w \in Workers, j \in Jobs :
              Disowned(t, js)[w][j].own <=> t[w][j].own /\ j \notin js
  <1>1. ASSUME NEW w \in Workers, NEW j \in Jobs
        PROVE  /\ Disowned(t, js)[w][j] = IF j \in js THEN [t[w][j] EXCEPT !.own = FALSE]
                                                    ELSE t[w][j]
               /\ Disowned(t, js)[w][j] \in Task
               /\ Disowned(t, js)[w][j].own <=> t[w][j].own /\ j \notin js
    <2>1. t[w][j] \in Task
      BY DEF TaskTable
    <2>2. Disowned(t, js)[w][j] = IF j \in js THEN [t[w][j] EXCEPT !.own = FALSE]
                                              ELSE t[w][j]
      BY DEF Disowned
    <2>3. CASE j \in js
      BY <2>1, <2>2, <2>3 DEF Task
    <2>4. CASE j \notin js
      BY <2>1, <2>2, <2>4
    <2>5. QED
      BY <2>3, <2>4, <2>2
  <1>2. Disowned(t, js) \in TaskTable
    BY <1>1 DEF Disowned, TaskTable
  <1>3. QED
    BY <1>1, <1>2

\* A row stands for versions that are numbers.
LEMMA StandsForType ==
  ASSUME JobsTypeOK, NEW j \in Jobs
  PROVE  StandsFor(j) \subseteq Nat
  <1>1. version[KeyOf[j]] \in Nat
    BY JobsAssumption DEF JobsTypeOK
  <1>2. \A w \in Workers : task[w][j].snap \in Nat
    BY DEF JobsTypeOK, Task
  <1>3. QED
    BY <1>1, <1>2 DEF StandsFor

LEMMA GiveUpType ==
  ASSUME JobsTypeOK, NEW js \in SUBSET Jobs, GiveUp(js)
  PROVE  abandoned' \in [Keys -> SUBSET Nat]
  <1>1. \A j \in js : StandsFor(j) \subseteq Nat
    BY StandsForType
  <1>2. \A k \in Keys : UNION {StandsFor(j) : j \in {i \in js : KeyOf[i] = k}} \subseteq Nat
    BY <1>1
  <1>3. QED
    BY <1>2 DEF GiveUp, JobsTypeOK

\* Settling keeps the tables well-typed when the new rows are.
LEMMA SettleType ==
  ASSUME JobsTypeOK, NEW w \in Workers, NEW js \in SUBSET Jobs,
         NEW next \in [Jobs -> Row], Settle(w, js, next)
  PROVE  /\ rows' \in [Jobs -> Row]
         /\ task' \in TaskTable
         /\ abandoned' \in [Keys -> SUBSET Nat]
  <1> DEFINE settled == {i \in js : MaySettle(i)}
             t == [task EXCEPT ![w] = [i \in Jobs |-> IF i \in js THEN NoTask ELSE task[w][i]]]
  <1>1. rows' \in [Jobs -> Row]
    BY DEF Settle, JobsTypeOK
  <1>2. t \in TaskTable
    BY NoTaskIsTask DEF JobsTypeOK, TaskTable
  <1>3. task' = Disowned(t, settled)
    BY DEF Settle
  <1>4. task' \in TaskTable
    <2> HIDE DEF t, settled
    <2>1. QED BY <1>2, <1>3, DisownedFacts
  <1>5. abandoned' \in [Keys -> SUBSET Nat]
    <2>1. GiveUp({i \in settled : next[i].status = "failed"})
      BY DEF Settle
    <2>2. {i \in settled : next[i].status = "failed"} \in SUBSET Jobs
      OBVIOUS
    <2> HIDE DEF settled
    <2>3. QED BY <2>1, <2>2, GiveUpType
  <1>6. QED
    BY <1>1, <1>4, <1>5

\* A row with another count and another status is a row.
LEMMA CountedRow ==
  ASSUME NEW row \in Row, NEW n \in Nat, NEW s \in {"pending", "failed"}
  PROVE  /\ [row EXCEPT !.attempts = n, !.status = s] \in Row
         /\ [row EXCEPT !.deferrals = n, !.status = s] \in Row
  BY DEF Row, Terminal

\* The rows the transitions of an execution produce.
LEMMA TransitionTypes ==
  ASSUME NEW row \in Row, NEW n \in Nat
  PROVE  /\ CompleteMemoryJob(row) \in Row
         /\ FailRetryable(row, n) \in Row
         /\ FailFatal(row, n) \in Row
         /\ DeferMemoryJob(row, n) \in Row
         /\ RescheduleMemoryJob(row) \in Row
  <1>1. CompleteMemoryJob(row) \in Row /\ RescheduleMemoryJob(row) \in Row
    BY DEF CompleteMemoryJob, RescheduleMemoryJob, Row, Terminal
  <1>2. n + 1 \in Nat
    OBVIOUS
  <1> DEFINE retried == IF n + 1 >= MaxAttempts THEN "failed" ELSE "pending"
             deferred == IF n + 1 >= MaxDeferrals THEN "failed" ELSE "pending"
  <1>3. retried \in {"pending", "failed"} /\ deferred \in {"pending", "failed"}
    OBVIOUS
  <1>4. /\ FailRetryable(row, n) = [row EXCEPT !.attempts = n + 1, !.status = retried]
        /\ DeferMemoryJob(row, n) = [row EXCEPT !.deferrals = n + 1, !.status = deferred]
        /\ FailFatal(row, n) = [row EXCEPT !.attempts = n + 1, !.status = "failed"]
    BY DEF FailRetryable, DeferMemoryJob, FailFatal
  <1> HIDE DEF retried, deferred
  <1>5. FailRetryable(row, n) \in Row
    <2>1. [row EXCEPT !.attempts = n + 1, !.status = retried] \in Row
      BY <1>2, <1>3, CountedRow
    <2>2. QED BY <2>1, <1>4, Zenon
  <1>6. DeferMemoryJob(row, n) \in Row
    <2>1. [row EXCEPT !.deferrals = n + 1, !.status = deferred] \in Row
      BY <1>2, <1>3, CountedRow
    <2>2. QED BY <2>1, <1>4, Zenon
  <1>7. FailFatal(row, n) \in Row
    <2>1. [row EXCEPT !.attempts = n + 1, !.status = "failed"] \in Row
      BY <1>2, CountedRow
    <2>2. QED BY <2>1, <1>4, Zenon
  <1>8. QED
    BY <1>1, <1>5, <1>6, <1>7

\* Overwriting the status of a set of rows.
LEMMA StatusOverwrite ==
  ASSUME JobsTypeOK, NEW js, NEW s \in {"pending", "running", "failed"},
         rows' = [j \in Jobs |-> IF j \in js THEN [rows[j] EXCEPT !.status = s] ELSE rows[j]]
  PROVE  rows' \in [Jobs -> Row]
  <1>1. \A j \in Jobs : rows[j] \in Row
    BY DEF JobsTypeOK
  <1>2. \A j \in Jobs : [rows[j] EXCEPT !.status = s] \in Row
    BY <1>1 DEF Row, Terminal
  <1>3. QED
    BY <1>1, <1>2

LEMMA SlotStepType ==
  ASSUME SlotTypeOK, NEW w \in Workers,
         \/ SpawnWorkerProcess(w) \/ WritePidFile(w) \/ StopWorkerProcess(w)
         \/ EnterLoop(w) \/ Gone(w)
  PROVE  SlotTypeOK'
  <1>1. CASE SpawnWorkerProcess(w)
    BY <1>1, WorkerSlotAssumption DEF SpawnWorkerProcess, SlotTypeOK
  <1>2. CASE WritePidFile(w)
    BY <1>2 DEF WritePidFile, SlotTypeOK
  <1>3. CASE StopWorkerProcess(w)
    BY <1>3 DEF StopWorkerProcess, SlotTypeOK
  <1>4. CASE EnterLoop(w)
    BY <1>4 DEF EnterLoop, SlotTypeOK
  <1>5. CASE Gone(w)
    BY <1>5 DEF Gone, Evicted, ExitAfterReap, Die, UnlinkPidFileIfNames, SlotTypeOK
  <1>6. QED
    BY <1>1, <1>2, <1>3, <1>4, <1>5

\* What one execution's resolution does to the tables: the row completes or is
\* rescheduled, or the task is dropped, or a store call has only read.
LEMMA ResolveCases ==
  ASSUME JobsTypeOK, NEW w \in Workers, NEW j \in Jobs, Resolve(w, j)
  PROVE  \/ \E next \in [Jobs -> Row] :
              /\ Settle(w, {j}, next)
              /\ \/ next = [i \in Jobs |-> CompleteMemoryJob(rows[i])]
                 \/ next = [i \in Jobs |-> RescheduleMemoryJob(rows[i])]
         \/ /\ task' = [task EXCEPT ![w][j] = NoTask]
            /\ UNCHANGED <<rows, abandoned>>
         \/ UNCHANGED <<rows, task, abandoned>>
  <1>1. \A i \in Jobs : rows[i] \in Row
    BY DEF JobsTypeOK
  <1>2. /\ [i \in Jobs |-> CompleteMemoryJob(rows[i])] \in [Jobs -> Row]
        /\ [i \in Jobs |-> RescheduleMemoryJob(rows[i])] \in [Jobs -> Row]
    <2>1. 0 \in Nat
      OBVIOUS
    <2>2. QED BY <1>1, <2>1, TransitionTypes
  <1>3. QED
    BY <1>2, Zenon DEF Resolve, SelectRow

\* A store call between its SELECT and its UPDATE.
LEMMA CallFields ==
  ASSUME NEW c \in Call, c.kind \in {"fail", "fatal", "defer"}
  PROVE  c.job \in Jobs /\ c.count \in Nat /\ c.rest \in SUBSET Jobs
  BY DEF Call

LEMMA OwedFields ==
  ASSUME NEW c \in Call, c.kind = "owed"
  PROVE  c.rest \in SUBSET Jobs
  BY DEF Call

\* What the UPDATE of a store call does, given the count its SELECT has read.
LEMMA UpdateCases ==
  ASSUME JobsTypeOK, NEW w \in Workers, UpdateRow(w)
  PROVE  \E j \in Jobs, n \in Nat, next \in [Jobs -> Row] :
           /\ Settle(w, {j}, next)
           /\ \/ next = [i \in Jobs |-> FailRetryable(rows[i], n)]
              \/ next = [i \in Jobs |-> FailFatal(rows[i], n)]
              \/ next = [i \in Jobs |-> DeferMemoryJob(rows[i], n)]
  <1> DEFINE c == call[w]
             next == [i \in Jobs |-> Counted(c, rows[i])]
  <1>1. c.job \in Jobs /\ c.count \in Nat
    <2>1. c \in Call /\ c.kind \in {"fail", "fatal", "defer"}
      BY DEF UpdateRow, JobsTypeOK
    <2> HIDE DEF c
    <2>2. QED BY <2>1, CallFields
  <1>2. Settle(w, {c.job}, next)
    BY DEF UpdateRow
  <1>3. \/ next = [i \in Jobs |-> FailRetryable(rows[i], c.count)]
        \/ next = [i \in Jobs |-> FailFatal(rows[i], c.count)]
        \/ next = [i \in Jobs |-> DeferMemoryJob(rows[i], c.count)]
    BY DEF Counted
  <1>4. next \in [Jobs -> Row]
    <2>1. \A i \in Jobs : rows[i] \in Row
      BY DEF JobsTypeOK
    <2>2. \A i \in Jobs : /\ FailRetryable(rows[i], c.count) \in Row
                          /\ FailFatal(rows[i], c.count) \in Row
                          /\ DeferMemoryJob(rows[i], c.count) \in Row
      <3> HIDE DEF c
      <3>1. QED BY <1>1, <2>1, TransitionTypes
    <2> HIDE DEF c
    <2>3. QED BY <2>2, <1>3
  <1> HIDE DEF c, next
  <1>5. QED
    BY <1>1, <1>2, <1>3, <1>4, Zenon

\* The next row of a blocked group is only read.
LEMMA DeferReads ==
  ASSUME NEW w, DeferNext(w)
  PROVE  /\ UNCHANGED <<rows, task, abandoned>>
         /\ UNCHANGED <<slotVars, phase, candidates, enqueuing, version, indexed>>
  BY DEF DeferNext, SelectRow

\* The store calls of the workers are well-typed.
LEMMA SelectType ==
  ASSUME JobsTypeOK, NEW w \in Workers, NEW j \in Jobs, NEW kind \in {"fail", "fatal", "defer"},
         NEW rest \in SUBSET Jobs, SelectRow(w, j, kind, rest)
  PROVE  call' \in [Workers -> Call]
  <1> DEFINE n == IF kind = "defer" THEN rows[j].deferrals ELSE rows[j].attempts
  <1>1. n \in Nat
    <2>1. rows[j] \in Row
      BY DEF JobsTypeOK
    <2>2. QED BY <2>1 DEF Row
  <1>2. call' = [call EXCEPT ![w] = [kind |-> kind, job |-> j, rest |-> rest, count |-> n]]
    BY DEF SelectRow
  <1> HIDE DEF n
  <1>3. [kind |-> kind, job |-> j, rest |-> rest, count |-> n] \in Call
    BY <1>1 DEF Call
  <1>4. QED
    BY <1>2, <1>3 DEF JobsTypeOK

LEMMA CallType ==
  ASSUME JobsTypeOK, NEW w \in Workers,
         (\E j \in Jobs : Resolve(w, j)) \/ UpdateRow(w) \/ DeferNext(w)
  PROVE  call' \in [Workers -> Call]
  <1>1. ASSUME NEW j \in Jobs, Resolve(w, j) PROVE call' \in [Workers -> Call]
    <2>1. {} \in SUBSET Jobs /\ Unstarted(w, j) \in SUBSET Jobs
      BY DEF Unstarted
    <2>2. \/ UNCHANGED call
          \/ \E kind \in {"fail", "fatal", "defer"}, rest \in SUBSET Jobs :
               SelectRow(w, j, kind, rest)
      BY <1>1, <2>1, Zenon DEF Resolve
    <2>3. QED
      BY <2>2, SelectType DEF JobsTypeOK
  <1>2. CASE UpdateRow(w)
    <2> DEFINE c == call[w]
    <2>1. c \in Call /\ c.kind \in {"fail", "fatal", "defer"}
      BY <1>2 DEF UpdateRow, JobsTypeOK
    <2>2. call' = [call EXCEPT ![w] = IF c.rest = {} THEN NoCall
                                      ELSE [kind |-> "owed", rest |-> c.rest]]
      BY <1>2 DEF UpdateRow
    <2> HIDE DEF c
    <2>3. c.rest \in SUBSET Jobs
      BY <2>1, CallFields
    <2>4. NoCall \in Call /\ [kind |-> "owed", rest |-> c.rest] \in Call
      BY <2>3 DEF NoCall, Call
    <2>5. QED
      BY <2>2, <2>4 DEF JobsTypeOK
  <1>3. CASE DeferNext(w)
    <2> DEFINE c == call[w]
    <2>1. c \in Call /\ c.kind = "owed"
      BY <1>3 DEF DeferNext, JobsTypeOK
    <2>2. \E j \in c.rest : SelectRow(w, j, "defer", c.rest \ {j})
      BY <1>3 DEF DeferNext
    <2> HIDE DEF c
    <2>3. c.rest \in SUBSET Jobs
      BY <2>1, OwedFields
    <2>4. PICK j \in Jobs : SelectRow(w, j, "defer", c.rest \ {j})
      BY <2>2, <2>3
    <2>5. (c.rest \ {j}) \in SUBSET Jobs
      BY <2>3
    <2>6. QED
      BY <2>4, <2>5, SelectType
  <1>4. QED
    BY <1>1, <1>2, <1>3

----------------------------------------------------------------------------
(* Types.                                                                   *)

LEMMA TypeInit == JobsInit => JobsTypeOK
  BY NoTaskIsTask, NoRowIsRow, WorkerSlotAssumption
  DEF JobsInit, SlotInit, JobsTypeOK, SlotTypeOK, Call, NoCall

LEMMA TypeStep ==
  ASSUME JobsTypeOK, [JobsNext]_vars
  PROVE  JobsTypeOK'
  <1>a. task \in TaskTable
    BY DEF JobsTypeOK, TaskTable
  <1>b. UNCHANGED slotVars => SlotTypeOK'
    BY DEF JobsTypeOK, SlotTypeOK, slotVars
  <1>1. ASSUME NEW k \in Keys, WriteSource(k) PROVE JobsTypeOK'
    BY <1>1, <1>b DEF WriteSource, JobsTypeOK
  <1>2. ASSUME NEW k \in Keys, UpsertSelect(k) PROVE JobsTypeOK'
    BY <1>2, <1>b DEF UpsertSelect, JobsTypeOK
  <1>3. ASSUME NEW k \in Keys, EnqueueMemoryJob(k) PROVE JobsTypeOK'
    <2>1. rows' \in [Jobs -> Row]
      <3>1. \A j \in Jobs : rows[j] \in Row
        BY DEF JobsTypeOK
      <3>2. \A j \in Jobs : [rows[j] EXCEPT !.status = "pending"] \in Row
        BY <3>1 DEF Row, Terminal
      <3>3. QED BY <1>3, <3>1, <3>2 DEF EnqueueMemoryJob, JobsTypeOK
    <2>2. QED
      BY <1>3, <2>1, <1>b DEF EnqueueMemoryJob, JobsTypeOK
  <1>4. ASSUME NEW k \in Keys, CancelPendingJobs(k) PROVE JobsTypeOK'
    <2> DEFINE active == {j \in Jobs : KeyOf[j] = k /\ rows[j].status \in {"pending", "running"}}
    <2>0. /\ rows' = [j \in Jobs |-> IF j \in active THEN [rows[j] EXCEPT !.status = "failed"]
                                                    ELSE rows[j]]
          /\ task' = Disowned(task, active)
          /\ GiveUp(active)
          /\ active \in SUBSET Jobs
      BY <1>4 DEF CancelPendingJobs
    <2> HIDE DEF active
    <2>1. rows' \in [Jobs -> Row]
      BY <2>0, StatusOverwrite
    <2>2. task' \in TaskTable
      BY <2>0, <1>a, DisownedFacts
    <2>3. abandoned' \in [Keys -> SUBSET Nat]
      BY <2>0, GiveUpType
    <2>4. QED
      BY <1>4, <2>1, <2>2, <2>3, <1>b DEF CancelPendingJobs, JobsTypeOK, TaskTable
  <1>5. ASSUME NEW j \in Jobs, TurnOld(j) PROVE JobsTypeOK'
    <2>1. rows' \in [Jobs -> Row]
      <3>1. \A i \in Jobs : rows[i] \in Row
        BY DEF JobsTypeOK
      <3>2. \A i \in Jobs : [rows[i] EXCEPT !.old = TRUE] \in Row
        BY <3>1 DEF Row, Terminal
      <3>3. QED BY <1>5, <3>1, <3>2 DEF TurnOld, JobsTypeOK
    <2>2. QED
      BY <1>5, <2>1, <1>b DEF TurnOld, JobsTypeOK
  <1>6. ASSUME NEW w \in Workers, SlotStep(w) PROVE JobsTypeOK'
    <2>1. SlotTypeOK'
      BY <1>6, SlotStepType DEF SlotStep, JobsTypeOK
    <2>2. QED
      BY <1>6, <2>1 DEF SlotStep, JobsTypeOK, jobVars
  <1>7. ASSUME NEW w \in Workers, StartWorkerLoop(w) PROVE JobsTypeOK'
    <2> DEFINE running == {j \in Jobs : rows[j].status = "running"}
    <2>0. /\ rows' = [j \in Jobs |-> IF j \in running THEN [rows[j] EXCEPT !.status = "pending"]
                                                     ELSE rows[j]]
          /\ task' = Disowned(task, running)
      BY <1>7 DEF StartWorkerLoop
    <2> HIDE DEF running
    <2>1. rows' \in [Jobs -> Row]
      BY <2>0, StatusOverwrite
    <2>2. task' \in TaskTable
      BY <2>0, <1>a, DisownedFacts
    <2>3. SlotTypeOK'
      BY <1>7, SlotStepType DEF StartWorkerLoop, JobsTypeOK
    <2>4. QED
      BY <1>7, <2>1, <2>2, <2>3 DEF StartWorkerLoop, JobsTypeOK, TaskTable
  <1>8. ASSUME NEW w \in Workers, WorkerGone(w) PROVE JobsTypeOK'
    <2>1. SlotTypeOK'
      BY <1>8, SlotStepType DEF WorkerGone, JobsTypeOK
    <2>2. task' \in TaskTable
      BY <1>8, <1>a, NoTaskIsTask DEF WorkerGone, TaskTable
    <2>3. QED
      BY <1>8, <2>1, <2>2 DEF WorkerGone, JobsTypeOK, TaskTable, Call, NoCall
  <1>9. ASSUME NEW w \in Workers, NEW js \in SUBSET Jobs, TickSelect(w, js) PROVE JobsTypeOK'
    <2> DEFINE stalled == {j \in Jobs : rows[j].status = "running" /\ rows[j].old}
    <2>0. /\ rows' = [j \in Jobs |-> IF j \in stalled THEN [rows[j] EXCEPT !.status = "failed"]
                                                     ELSE rows[j]]
          /\ task' = Disowned(task, stalled)
          /\ GiveUp(stalled)
          /\ stalled \in SUBSET Jobs
      BY <1>9 DEF TickSelect
    <2> HIDE DEF stalled
    <2>1. rows' \in [Jobs -> Row]
      BY <2>0, StatusOverwrite
    <2>2. task' \in TaskTable
      BY <2>0, <1>a, DisownedFacts
    <2>3. abandoned' \in [Keys -> SUBSET Nat]
      BY <2>0, GiveUpType
    <2>4. QED
      BY <1>9, <2>1, <2>2, <2>3, <1>b DEF TickSelect, JobsTypeOK, TaskTable
  <1>10. ASSUME NEW w \in Workers, TickClaim(w) PROVE JobsTypeOK'
    <2> DEFINE claimed == {j \in candidates[w] : Claimable(j)}
    <2>1. rows' \in [Jobs -> Row]
      <3>1. \A j \in Jobs : [rows[j] EXCEPT !.status = "running", !.old = FALSE] \in Row
        <4>1. \A j \in Jobs : rows[j] \in Row
          BY DEF JobsTypeOK
        <4>2. QED BY <4>1 DEF Row, Terminal
      <3>2. QED
        BY <1>10, <3>1 DEF TickClaim, JobsTypeOK
    <2>2. task' \in TaskTable
      <3>1. [stage |-> "queued", snap |-> 0, own |-> TRUE] \in Task
        BY DEF Task
      <3>2. QED
        BY <1>10, <3>1, <1>a, NoTaskIsTask DEF TickClaim, TaskTable
    <2>3. QED
      BY <1>10, <2>1, <2>2, <1>b DEF TickClaim, JobsTypeOK, TaskTable
  <1>11. ASSUME NEW w \in Workers, TickEnd(w) PROVE JobsTypeOK'
    BY <1>11, <1>b DEF TickEnd, JobsTypeOK
  <1>12. ASSUME NEW w \in Workers, NEW j \in Jobs,
                ProcessJob(w, j) \/ WriteIndex(w, j) \/ Hang(w, j)
         PROVE  JobsTypeOK'
    <2>1. version[KeyOf[j]] \in Nat /\ task[w][j].snap \in Nat
      BY JobsAssumption DEF JobsTypeOK, Task
    <2>2. task' \in TaskTable
      <3>1. task[w][j] \in Task
        BY <1>a DEF TaskTable
      <3>2. \A s \in {"read", "written", "hung"}, v \in Nat :
              /\ [task[w][j] EXCEPT !.stage = s, !.snap = v] \in Task
              /\ [task[w][j] EXCEPT !.stage = s] \in Task
        BY <3>1 DEF Task
      <3>3. CASE ProcessJob(w, j)
        <4> DEFINE new == [task[w][j] EXCEPT !.stage = "read", !.snap = version[KeyOf[j]]]
        <4>1. task' = [task EXCEPT ![w] = [task[w] EXCEPT ![j] = new]]
          BY <3>3, <1>a DEF ProcessJob, TaskTable
        <4>2. new \in Task
          BY <3>2, <2>1
        <4> HIDE DEF new
        <4>3. QED BY <4>1, <4>2, <1>a DEF TaskTable
      <3>4. CASE WriteIndex(w, j) \/ Hang(w, j)
        <4>1. PICK s \in {"written", "hung"} :
                task' = [task EXCEPT ![w] = [task[w] EXCEPT ![j] =
                           [task[w][j] EXCEPT !.stage = s]]]
          BY <3>4, <1>a DEF WriteIndex, Hang, TaskTable
        <4>2. [task[w][j] EXCEPT !.stage = s] \in Task
          BY <3>2
        <4>3. QED BY <4>1, <4>2, <1>a DEF TaskTable
      <3>5. QED
        BY <1>12, <3>3, <3>4
    <2>3. indexed' \in [Keys -> Nat]
      BY <1>12, <2>1 DEF ProcessJob, WriteIndex, Hang, JobsTypeOK
    <2>4. QED
      BY <1>12, <2>2, <2>3, <1>b DEF ProcessJob, WriteIndex, Hang, JobsTypeOK, TaskTable
  <1>13. ASSUME NEW w \in Workers, NEW j \in Jobs, Resolve(w, j) PROVE JobsTypeOK'
    <2>1. rows' \in [Jobs -> Row] /\ task' \in TaskTable /\ abandoned' \in [Keys -> SUBSET Nat]
      <3>1. CASE /\ task' = [task EXCEPT ![w][j] = NoTask]
                 /\ UNCHANGED <<rows, abandoned>>
        BY <3>1, <1>a, NoTaskIsTask DEF JobsTypeOK, TaskTable
      <3>2. CASE \E next \in [Jobs -> Row] : Settle(w, {j}, next)
        <4>1. {j} \in SUBSET Jobs
          OBVIOUS
        <4>2. QED BY <3>2, <4>1, SettleType
      <3>3. CASE UNCHANGED <<rows, task, abandoned>>
        BY <3>3, <1>a DEF JobsTypeOK
      <3>4. QED
        BY <1>13, <3>1, <3>2, <3>3, ResolveCases
    <2>2. call' \in [Workers -> Call]
      BY <1>13, CallType
    <2>3. QED
      BY <1>13, <2>1, <2>2, <1>b DEF Resolve, JobsTypeOK, TaskTable
  <1>14. ASSUME NEW w \in Workers, UpdateRow(w) \/ DeferNext(w) PROVE JobsTypeOK'
    <2>1. rows' \in [Jobs -> Row] /\ task' \in TaskTable /\ abandoned' \in [Keys -> SUBSET Nat]
      <3>1. CASE UpdateRow(w)
        <4>1. PICK j \in Jobs, next \in [Jobs -> Row] : Settle(w, {j}, next)
          BY <3>1, UpdateCases
        <4>2. {j} \in SUBSET Jobs
          OBVIOUS
        <4>3. QED BY <4>1, <4>2, SettleType
      <3>2. CASE DeferNext(w)
        BY <3>2, <1>a, DeferReads DEF JobsTypeOK
      <3>3. QED
        BY <1>14, <3>1, <3>2
    <2>2. call' \in [Workers -> Call]
      BY <1>14, CallType
    <2>3. UNCHANGED <<slotVars, phase, candidates, enqueuing, version, indexed>>
      BY <1>14, DeferReads DEF UpdateRow
    <2>4. QED
      BY <2>1, <2>2, <2>3, <1>b DEF JobsTypeOK, TaskTable
  <1>15. CASE UNCHANGED vars
    BY <1>15, <1>b DEF JobsTypeOK, vars, jobVars
  <1>16. QED
    BY <1>1, <1>2, <1>3, <1>4, <1>5, <1>6, <1>7, <1>8, <1>9, <1>10, <1>11, <1>12, <1>13, <1>14,
       <1>15
    DEF JobsNext

\* The tables, tasks and slot of the queue are well-typed in every reachable
\* state, however many workers share it and whatever their budgets.
THEOREM JobsTypeCorrect == JobsSpec => []JobsTypeOK
  BY TypeInit, TypeStep, PTL DEF JobsSpec

----------------------------------------------------------------------------
(* What a step does to one row.                                             *)

\* Settling touches running rows only, and turns them into what the transition
\* says.
LEMMA SettleRow ==
  ASSUME NEW w \in Workers, NEW js \in SUBSET Jobs, NEW next \in [Jobs -> Row],
         Settle(w, js, next), NEW j \in Jobs
  PROVE  \/ rows'[j] = rows[j]
         \/ rows[j].status = "running" /\ rows'[j] = next[j]
  BY DEF Settle, MaySettle

\* No transition of an execution leaves a row in reach of a budget it has spent.
LEMMA TransitionBudgets ==
  ASSUME NEW row \in Row, NEW n \in Nat, row.attempts < MaxAttempts, row.deferrals < MaxDeferrals,
         NEW new \in Row, new.status \in {"pending", "running"},
         \/ new = CompleteMemoryJob(row)
         \/ new = FailRetryable(row, n)
         \/ new = FailFatal(row, n)
         \/ new = DeferMemoryJob(row, n)
         \/ new = RescheduleMemoryJob(row)
  PROVE  new.attempts < MaxAttempts /\ new.deferrals < MaxDeferrals
  <1>1. /\ row.attempts \in Nat /\ row.deferrals \in Nat
        /\ MaxAttempts \in Nat /\ MaxDeferrals \in Nat
    BY JobsAssumption DEF Row
  <1>2. CASE new = CompleteMemoryJob(row) \/ new = RescheduleMemoryJob(row)
    BY <1>2 DEF CompleteMemoryJob, RescheduleMemoryJob, Row
  <1>3. CASE new = FailRetryable(row, n)
    <2>1. /\ new.attempts = n + 1
          /\ new.deferrals = row.deferrals
          /\ new.status = IF n + 1 >= MaxAttempts THEN "failed" ELSE "pending"
      BY <1>3 DEF FailRetryable, Row
    <2>2. QED BY <2>1, <1>1
  <1>4. CASE new = FailFatal(row, n)
    BY <1>4 DEF FailFatal, Row
  <1>5. CASE new = DeferMemoryJob(row, n)
    <2>1. /\ new.deferrals = n + 1
          /\ new.attempts = row.attempts
          /\ new.status = IF n + 1 >= MaxDeferrals THEN "failed" ELSE "pending"
      BY <1>5 DEF DeferMemoryJob, Row
    <2>2. QED BY <2>1, <1>1
  <1>6. QED
    BY <1>2, <1>3, <1>4, <1>5

\* What a step may do to a row: leave its status, move it among the active
\* states or fail it without touching its counts, or settle a running row.
Kept(j) ==
  /\ rows'[j].attempts = rows[j].attempts
  /\ rows'[j].deferrals = rows[j].deferrals
  /\ \/ rows'[j].status = rows[j].status
     \/ /\ rows[j].status \in {"pending", "running"}
        /\ rows'[j].status \in {"pending", "running", "failed"}
     \/ rows[j].status = "none" /\ rows'[j].status = "pending"

Settled(j) ==
  /\ rows[j].status = "running"
  /\ \/ rows'[j] = CompleteMemoryJob(rows[j])
     \/ rows'[j] = RescheduleMemoryJob(rows[j])
     \/ \E n \in Nat : \/ rows'[j] = FailRetryable(rows[j], n)
                       \/ rows'[j] = FailFatal(rows[j], n)
                       \/ rows'[j] = DeferMemoryJob(rows[j], n)

LEMMA RowStep ==
  ASSUME JobsTypeOK, [JobsNext]_vars, NEW j \in Jobs
  PROVE  Kept(j) \/ Settled(j)
  <1>a. rows \in [Jobs -> Row] /\ rows[j] \in Row
    BY DEF JobsTypeOK
  <1>b. UNCHANGED rows => Kept(j)
    BY DEF Kept
  <1>1. ASSUME NEW k \in Keys, WriteSource(k) \/ UpsertSelect(k) PROVE Kept(j)
    BY <1>1, <1>b DEF WriteSource, UpsertSelect
  <1>2. ASSUME NEW k \in Keys, EnqueueMemoryJob(k) PROVE Kept(j)
    BY <1>2, <1>a DEF EnqueueMemoryJob, Kept, Row
  <1>3. ASSUME NEW k \in Keys, CancelPendingJobs(k) PROVE Kept(j)
    BY <1>3, <1>a DEF CancelPendingJobs, Kept, Row
  <1>4. ASSUME NEW i \in Jobs, TurnOld(i) PROVE Kept(j)
    BY <1>4, <1>a DEF TurnOld, Kept, Row
  <1>5. ASSUME NEW w \in Workers, SlotStep(w) \/ WorkerGone(w) \/ TickEnd(w) PROVE Kept(j)
    BY <1>5, <1>b DEF SlotStep, WorkerGone, TickEnd, jobVars
  <1>6. ASSUME NEW w \in Workers, StartWorkerLoop(w) PROVE Kept(j)
    BY <1>6, <1>a DEF StartWorkerLoop, Kept, Row
  <1>7. ASSUME NEW w \in Workers, NEW js \in SUBSET Jobs, TickSelect(w, js) PROVE Kept(j)
    <2>1. \/ rows'[j] = rows[j]
          \/ rows[j].status = "running" /\ rows'[j] = [rows[j] EXCEPT !.status = "failed"]
      BY <1>7 DEF TickSelect
    <2>2. QED
      BY <2>1, <1>a DEF Kept, Row
  <1>8. ASSUME NEW w \in Workers, TickClaim(w) PROVE Kept(j)
    <2>1. \/ rows'[j] = rows[j]
          \/ /\ rows[j].status = "pending"
             /\ rows'[j] = [rows[j] EXCEPT !.status = "running", !.old = FALSE]
      BY <1>8 DEF TickClaim, Claimable
    <2>2. QED
      BY <2>1, <1>a DEF Kept, Row
  <1>9. ASSUME NEW w \in Workers, NEW i \in Jobs,
               ProcessJob(w, i) \/ WriteIndex(w, i) \/ Hang(w, i)
        PROVE  Kept(j)
    BY <1>9, <1>b DEF ProcessJob, WriteIndex, Hang
  <1>10. ASSUME NEW w \in Workers, NEW i \in Jobs, NEW next \in [Jobs -> Row],
                Settle(w, {i}, next),
                rows[j].status = "running" /\ rows'[j] = next[j] => Settled(j)
         PROVE  Kept(j) \/ Settled(j)
    <2>1. \/ rows'[j] = rows[j]
          \/ rows[j].status = "running" /\ rows'[j] = next[j]
      <3>1. {i} \in SUBSET Jobs
        OBVIOUS
      <3>2. QED BY <1>10, <3>1, SettleRow
    <2>2. CASE rows'[j] = rows[j]
      BY <2>2 DEF Kept
    <2>3. QED
      BY <1>10, <2>1, <2>2
  <1>11. ASSUME NEW w \in Workers, NEW i \in Jobs, Resolve(w, i) PROVE Kept(j) \/ Settled(j)
    <2>1. CASE UNCHANGED rows
      BY <2>1, <1>b
    <2>2. ASSUME NEW next \in [Jobs -> Row], Settle(w, {i}, next),
                 \/ next = [n \in Jobs |-> CompleteMemoryJob(rows[n])]
                 \/ next = [n \in Jobs |-> RescheduleMemoryJob(rows[n])]
          PROVE  Kept(j) \/ Settled(j)
      <3>1. rows[j].status = "running" /\ rows'[j] = next[j] => Settled(j)
        BY <2>2, Zenon DEF Settled
      <3>2. QED BY <1>10, <2>2, <3>1
    <2>3. QED
      BY <1>11, <2>1, <2>2, ResolveCases
  <1>12. ASSUME NEW w \in Workers, UpdateRow(w) PROVE Kept(j) \/ Settled(j)
    <2>1. PICK i \in Jobs, n \in Nat, next \in [Jobs -> Row] :
            /\ Settle(w, {i}, next)
            /\ \/ next = [m \in Jobs |-> FailRetryable(rows[m], n)]
               \/ next = [m \in Jobs |-> FailFatal(rows[m], n)]
               \/ next = [m \in Jobs |-> DeferMemoryJob(rows[m], n)]
      BY <1>12, UpdateCases
    <2>2. rows[j].status = "running" /\ rows'[j] = next[j] => Settled(j)
      BY <2>1, Zenon DEF Settled
    <2>3. QED BY <1>10, <2>1, <2>2
  <1>13. ASSUME NEW w \in Workers, DeferNext(w) PROVE Kept(j)
    BY <1>13, <1>b, DeferReads
  <1>14. CASE UNCHANGED vars
    BY <1>14, <1>b DEF vars, jobVars
  <1>15. QED
    BY <1>1, <1>2, <1>3, <1>4, <1>5, <1>6, <1>7, <1>8, <1>9, <1>11, <1>12, <1>13, <1>14 DEF JobsNext

----------------------------------------------------------------------------
(* Settled rows stay settled, and active rows are within their budgets.     *)

\* No step of any worker, and no restart, cancel or timeout, takes a row out of
\* `completed` or `failed`.
THEOREM SettledRowsStaySettled == JobsSpec => TerminalIsFinal
  <1>1. ASSUME JobsTypeOK, [JobsNext]_vars
        PROVE  \A j \in Jobs : rows[j].status \in Terminal => rows'[j].status = rows[j].status
    BY <1>1, RowStep DEF Kept, Settled, Terminal
  <1>2. ASSUME JobsTypeOK, [JobsNext]_vars
        PROVE  [\A j \in Jobs : rows[j].status \in Terminal =>
                                  rows'[j].status = rows[j].status]_vars
    BY <1>1, <1>2
  <1>3. QED
    BY <1>2, JobsTypeCorrect, PTL DEF JobsSpec, TerminalIsFinal

\* Rows not inserted yet have clean counts: what makes the budgets inductive.
BudgetInv ==
  /\ WithinRetryBudgets
  /\ \A j \in Jobs : rows[j].status = "none" => rows[j].attempts = 0 /\ rows[j].deferrals = 0

LEMMA BudgetStep ==
  ASSUME JobsTypeOK, JobsTypeOK', BudgetInv, [JobsNext]_vars
  PROVE  BudgetInv'
  <1> SUFFICES ASSUME NEW j \in Jobs
               PROVE  /\ rows'[j].status \in {"pending", "running"} =>
                           rows'[j].attempts < MaxAttempts /\ rows'[j].deferrals < MaxDeferrals
                      /\ rows'[j].status = "none" =>
                           rows'[j].attempts = 0 /\ rows'[j].deferrals = 0
    BY DEF BudgetInv, WithinRetryBudgets
  <1>a. rows[j] \in Row /\ rows'[j] \in Row
    BY DEF JobsTypeOK
  <1>b. 0 < MaxAttempts /\ 0 < MaxDeferrals
    BY JobsAssumption
  <1>c. /\ rows[j].status \in {"pending", "running"} =>
             rows[j].attempts < MaxAttempts /\ rows[j].deferrals < MaxDeferrals
        /\ rows[j].status = "none" => rows[j].attempts = 0 /\ rows[j].deferrals = 0
    BY DEF BudgetInv, WithinRetryBudgets
  <1>1. CASE Kept(j)
    BY <1>1, <1>b, <1>c DEF Kept
  <1>2. CASE Settled(j)
    <2>1. rows[j].attempts < MaxAttempts /\ rows[j].deferrals < MaxDeferrals
      BY <1>2, <1>c DEF Settled
    <2>2. rows'[j].status # "none"
      BY <1>2, <1>a DEF Settled, CompleteMemoryJob, FailRetryable, FailFatal, DeferMemoryJob,
                        RescheduleMemoryJob, Row
    <2>3. QED
      BY <1>2, <1>a, <2>1, <2>2, TransitionBudgets DEF Settled
  <1>3. QED
    BY <1>1, <1>2, RowStep

\* Whatever mix of retries, deferrals, postponements and restarts a row went
\* through, it can run again only while both its budgets last.
THEOREM BudgetsBoundRetries == JobsSpec => []WithinRetryBudgets
  <1>1. JobsInit => BudgetInv
    BY DEF JobsInit, BudgetInv, WithinRetryBudgets, NoRow
  <1>2. JobsTypeOK /\ JobsTypeOK' /\ BudgetInv /\ [JobsNext]_vars => BudgetInv'
    BY BudgetStep
  <1>3. BudgetInv => WithinRetryBudgets
    BY DEF BudgetInv
  <1>4. QED
    BY <1>1, <1>2, <1>3, JobsTypeCorrect, PTL DEF JobsSpec

----------------------------------------------------------------------------
(* A claim is exclusive.                                                    *)

\* A step that gives nobody a row, and leaves running the rows that are still
\* owned, keeps the claims exclusive.
LEMMA OwnKept ==
  ASSUME ClaimExclusive,
         \A w \in Workers, j \in Jobs :
           task'[w][j].own => task[w][j].own /\ rows'[j].status = "running"
  PROVE  ClaimExclusive'
  BY Zenon DEF ClaimExclusive

\* Rows whose status is overwritten are no longer owned by any execution.
LEMMA OverwriteDisowns ==
  ASSUME JobsTypeOK, ClaimExclusive, NEW js \in SUBSET Jobs,
         task' = Disowned(task, js),
         \A j \in Jobs \ js : rows'[j] = rows[j]
  PROVE  ClaimExclusive'
  <1>1. task \in TaskTable
    BY DEF JobsTypeOK, TaskTable
  <1>2. ASSUME NEW w \in Workers, NEW j \in Jobs, task'[w][j].own
        PROVE  task[w][j].own /\ rows'[j].status = "running"
    <2>1. task[w][j].own /\ j \notin js
      BY <1>1, <1>2, DisownedFacts
    <2>2. rows[j].status = "running"
      BY <2>1, Zenon DEF ClaimExclusive
    <2>3. rows'[j] = rows[j]
      BY <2>1
    <2>4. QED BY <2>1, <2>2, <2>3
  <1>3. QED
    BY <1>2, OwnKept

\* Settling takes the rows it overwrites from everyone, and gives nobody a row.
LEMMA SettleDisowns ==
  ASSUME JobsTypeOK, ClaimExclusive, NEW w \in Workers, NEW js \in SUBSET Jobs,
         NEW next \in [Jobs -> Row], Settle(w, js, next)
  PROVE  ClaimExclusive'
  <1> DEFINE settled == {i \in js : MaySettle(i)}
             t == [task EXCEPT ![w] = [i \in Jobs |-> IF i \in js THEN NoTask ELSE task[w][i]]]
  <1>1. t \in TaskTable
    BY NoTaskIsTask DEF JobsTypeOK, TaskTable
  <1>2. task' = Disowned(t, settled)
    BY DEF Settle
  <1>3. \A j \in Jobs \ settled : rows'[j] = rows[j]
    BY DEF Settle
  <1>4. \A v \in Workers, j \in Jobs : t[v][j] = task[v][j] \/ t[v][j] = NoTask
    BY DEF JobsTypeOK
  <1> HIDE DEF t, settled
  <1>5. ASSUME NEW v \in Workers, NEW j \in Jobs, task'[v][j].own
        PROVE  task[v][j].own /\ rows'[j].status = "running"
    <2>1. t[v][j].own /\ j \notin settled
      BY <1>1, <1>2, <1>5, DisownedFacts
    <2>2. t[v][j] # NoTask
      BY <2>1 DEF NoTask
    <2>3. task[v][j].own
      BY <2>1, <2>2, <1>4, Zenon
    <2>4. rows[j].status = "running"
      BY <2>3, Zenon DEF ClaimExclusive
    <2>5. rows'[j] = rows[j]
      BY <2>1, <1>3
    <2>6. QED BY <2>3, <2>4, <2>5
  <1>6. QED
    BY <1>5, OwnKept

LEMMA ClaimStep ==
  ASSUME JobsTypeOK, ClaimExclusive, [JobsNext]_vars
  PROVE  ClaimExclusive'
  <1>a. task \in TaskTable /\ rows \in [Jobs -> Row]
    BY DEF JobsTypeOK, TaskTable
  <1>b. ASSUME UNCHANGED task,
               \A j \in Jobs : rows[j].status = "running" => rows'[j].status = "running"
        PROVE  ClaimExclusive'
    BY <1>b, Zenon DEF ClaimExclusive
  <1>c. ASSUME UNCHANGED <<rows, task>> PROVE ClaimExclusive'
    BY <1>c, <1>b
  <1>1. ASSUME NEW k \in Keys, WriteSource(k) \/ UpsertSelect(k) PROVE ClaimExclusive'
    BY <1>1, <1>c DEF WriteSource, UpsertSelect
  <1>2. ASSUME NEW k \in Keys, EnqueueMemoryJob(k) PROVE ClaimExclusive'
    <2>1. \A j \in Jobs : rows[j].status = "running" => rows'[j].status = "running"
      BY <1>2, <1>a DEF EnqueueMemoryJob, Row
    <2>2. QED BY <1>2, <2>1, <1>b DEF EnqueueMemoryJob
  <1>3. ASSUME NEW k \in Keys, CancelPendingJobs(k) PROVE ClaimExclusive'
    <2> DEFINE active == {j \in Jobs : KeyOf[j] = k /\ rows[j].status \in {"pending", "running"}}
    <2>1. /\ task' = Disowned(task, active)
          /\ \A j \in Jobs \ active : rows'[j] = rows[j]
          /\ active \in SUBSET Jobs
      BY <1>3 DEF CancelPendingJobs
    <2> HIDE DEF active
    <2>2. QED BY <2>1, OverwriteDisowns
  <1>4. ASSUME NEW i \in Jobs, TurnOld(i) PROVE ClaimExclusive'
    <2>1. \A j \in Jobs : rows[j].status = "running" => rows'[j].status = "running"
      BY <1>4, <1>a DEF TurnOld, Row
    <2>2. QED BY <1>4, <2>1, <1>b DEF TurnOld
  <1>5. ASSUME NEW w \in Workers, SlotStep(w) \/ TickEnd(w) PROVE ClaimExclusive'
    BY <1>5, <1>c DEF SlotStep, TickEnd, jobVars
  <1>6. ASSUME NEW w \in Workers, StartWorkerLoop(w) PROVE ClaimExclusive'
    <2> DEFINE running == {j \in Jobs : rows[j].status = "running"}
    <2>1. /\ task' = Disowned(task, running)
          /\ \A j \in Jobs \ running : rows'[j] = rows[j]
          /\ running \in SUBSET Jobs
      BY <1>6 DEF StartWorkerLoop
    <2> HIDE DEF running
    <2>2. QED BY <2>1, OverwriteDisowns
  <1>7. ASSUME NEW w \in Workers, WorkerGone(w) PROVE ClaimExclusive'
    <2>1. \A v \in Workers, j \in Jobs : task'[v][j] = task[v][j] \/ task'[v][j] = NoTask
      BY <1>7, <1>a DEF WorkerGone, TaskTable
    <2>2. UNCHANGED rows
      BY <1>7 DEF WorkerGone
    <2>3. ASSUME NEW v \in Workers, NEW j \in Jobs, task'[v][j].own
          PROVE  task[v][j].own /\ rows'[j].status = "running"
      <3>1. task'[v][j] # NoTask
        BY <2>3 DEF NoTask
      <3>2. task[v][j].own
        BY <2>1, <2>3, <3>1, Zenon
      <3>3. rows[j].status = "running"
        BY <3>2, Zenon DEF ClaimExclusive
      <3>4. QED BY <3>2, <3>3, <2>2
    <2>4. QED BY <2>3, OwnKept
  <1>8. ASSUME NEW w \in Workers, NEW js \in SUBSET Jobs, TickSelect(w, js)
        PROVE  ClaimExclusive'
    <2> DEFINE stalled == {j \in Jobs : rows[j].status = "running" /\ rows[j].old}
    <2>1. /\ task' = Disowned(task, stalled)
          /\ \A j \in Jobs \ stalled : rows'[j] = rows[j]
          /\ stalled \in SUBSET Jobs
      BY <1>8 DEF TickSelect
    <2> HIDE DEF stalled
    <2>2. QED BY <2>1, OverwriteDisowns
  <1>9. ASSUME NEW w \in Workers, TickClaim(w) PROVE ClaimExclusive'
    <2> DEFINE claimed == {j \in candidates[w] : Claimable(j)}
    <2>1. \A j \in claimed : j \in Jobs /\ rows[j].status = "pending"
      BY DEF Claimable, JobsTypeOK
    <2>2. \A j \in claimed, v \in Workers : ~task[v][j].own
      BY <2>1 DEF ClaimExclusive
    <2>3. \A j \in Jobs : IF j \in claimed THEN rows'[j].status = "running"
                                           ELSE rows'[j] = rows[j]
      BY <1>9, <1>a DEF TickClaim, Row
    <2>4. \A v \in Workers \ {w}, j \in Jobs : task'[v][j] = task[v][j]
      BY <1>9, <1>a DEF TickClaim, TaskTable
    <2>5. \A j \in Jobs : j \notin claimed => task'[w][j] = NoTask
      BY <1>9, <1>a DEF TickClaim, TaskTable
    <2>6. ~NoTask.own
      BY DEF NoTask
    <2> HIDE DEF claimed
    <2>7. ASSUME NEW v \in Workers, NEW j \in Jobs, task'[v][j].own
          PROVE  \/ v = w /\ j \in claimed
                 \/ v # w /\ j \notin claimed /\ task[v][j].own
      <3>1. CASE v = w
        BY <2>5, <2>6, <2>7, <3>1, Zenon
      <3>2. CASE v # w
        <4>1. task[v][j].own
          BY <2>4, <2>7, <3>2, Zenon
        <4>2. QED BY <4>1, <2>2, <3>2, Zenon
      <3>3. QED BY <3>1, <3>2
    <2>8. ASSUME NEW v \in Workers, NEW j \in Jobs, task'[v][j].own
          PROVE  rows'[j].status = "running"
      <3>1. CASE j \in claimed
        BY <3>1, <2>3
      <3>2. CASE j \notin claimed
        <4>1. task[v][j].own
          BY <2>7, <2>8, <3>2
        <4>2. rows[j].status = "running"
          BY <4>1, Zenon DEF ClaimExclusive
        <4>3. QED BY <4>2, <3>2, <2>3
      <3>3. QED BY <3>1, <3>2
    <2>9. ASSUME NEW v \in Workers, NEW u \in Workers, NEW j \in Jobs,
                 task'[v][j].own, task'[u][j].own
          PROVE  v = u
      <3>1. \/ v = w /\ j \in claimed
            \/ v # w /\ j \notin claimed /\ task[v][j].own
        BY <2>7, <2>9
      <3>2. \/ u = w /\ j \in claimed
            \/ u # w /\ j \notin claimed /\ task[u][j].own
        BY <2>7, <2>9
      <3>3. task[v][j].own /\ task[u][j].own => v = u
        BY Zenon DEF ClaimExclusive
      <3>4. QED BY <3>1, <3>2, <3>3
    <2>10. QED
      BY <2>8, <2>9, Zenon DEF ClaimExclusive
  <1>10. ASSUME NEW w \in Workers, NEW i \in Jobs,
                ProcessJob(w, i) \/ WriteIndex(w, i) \/ Hang(w, i)
         PROVE  ClaimExclusive'
    <2>1. UNCHANGED rows
      BY <1>10 DEF ProcessJob, WriteIndex, Hang
    <2>2. \A v \in Workers, j \in Jobs : task'[v][j].own <=> task[v][j].own
      <3>1. ASSUME NEW v \in Workers, NEW j \in Jobs, v = w /\ j = i
            PROVE  task'[v][j].own <=> task[v][j].own
        <4>1. task[v][j] \in Task
          BY <1>a DEF TaskTable
        <4>2. \/ task'[v][j] = [task[v][j] EXCEPT !.stage = "read", !.snap = version[KeyOf[i]]]
              \/ task'[v][j] = [task[v][j] EXCEPT !.stage = "written"]
              \/ task'[v][j] = [task[v][j] EXCEPT !.stage = "hung"]
          <5>1. CASE ProcessJob(w, i)
            BY <5>1, <1>a, <3>1 DEF ProcessJob, TaskTable
          <5>2. CASE WriteIndex(w, i)
            BY <5>2, <1>a, <3>1 DEF WriteIndex, TaskTable
          <5>3. CASE Hang(w, i)
            BY <5>3, <1>a, <3>1 DEF Hang, TaskTable
          <5>4. QED BY <1>10, <5>1, <5>2, <5>3
        <4>3. QED BY <4>1, <4>2 DEF Task
      <3>2. ASSUME NEW v \in Workers, NEW j \in Jobs, ~(v = w /\ j = i)
            PROVE  task'[v][j] = task[v][j]
        BY <1>10, <1>a, <3>2 DEF ProcessJob, WriteIndex, Hang, TaskTable
      <3>3. QED BY <3>1, <3>2, Zenon
    <2>3. \A v \in Workers, j \in Jobs :
            task'[v][j].own => task[v][j].own /\ rows'[j].status = "running"
      BY <2>1, <2>2, Zenon DEF ClaimExclusive
    <2>4. QED BY <2>3, OwnKept
  <1>11. ASSUME NEW w \in Workers, NEW i \in Jobs, Resolve(w, i) PROVE ClaimExclusive'
    <2>1. CASE task' = [task EXCEPT ![w][i] = NoTask] /\ UNCHANGED <<rows, abandoned>>
      <3>1. \A v \in Workers, j \in Jobs : task'[v][j] = task[v][j] \/ task'[v][j] = NoTask
        BY <2>1, <1>a DEF TaskTable
      <3>2. ASSUME NEW v \in Workers, NEW j \in Jobs, task'[v][j].own
            PROVE  task[v][j].own /\ rows'[j].status = "running"
        <4>1. task'[v][j] # NoTask
          BY <3>2 DEF NoTask
        <4>2. task[v][j].own
          BY <3>1, <3>2, <4>1, Zenon
        <4>3. rows[j].status = "running"
          BY <4>2, Zenon DEF ClaimExclusive
        <4>4. QED BY <4>2, <4>3, <2>1
      <3>3. QED BY <3>2, OwnKept
    <2>2. CASE \E next \in [Jobs -> Row] : Settle(w, {i}, next)
      <3>1. {i} \in SUBSET Jobs
        OBVIOUS
      <3>2. QED BY <2>2, <3>1, SettleDisowns
    <2>3. CASE UNCHANGED <<rows, task, abandoned>>
      BY <2>3, <1>c
    <2>4. QED
      BY <1>11, <2>1, <2>2, <2>3, ResolveCases
  <1>12. ASSUME NEW w \in Workers, UpdateRow(w) PROVE ClaimExclusive'
    <2>1. PICK i \in Jobs, next \in [Jobs -> Row] : Settle(w, {i}, next)
      BY <1>12, UpdateCases
    <2>2. {i} \in SUBSET Jobs
      OBVIOUS
    <2>3. QED BY <2>1, <2>2, SettleDisowns
  <1>13. ASSUME NEW w \in Workers, DeferNext(w) PROVE ClaimExclusive'
    BY <1>13, <1>c, DeferReads
  <1>14. CASE UNCHANGED vars
    BY <1>14, <1>c DEF vars, jobVars
  <1>15. QED
    BY <1>1, <1>2, <1>3, <1>4, <1>5, <1>6, <1>7, <1>8, <1>9, <1>10, <1>11, <1>12, <1>13, <1>14
    DEF JobsNext

\* However many workers find each other alive, and whatever stops, restarts,
\* cancels and timeouts come between select, claim and return, a row is in the
\* hands of one execution at most, and is running while it is.
THEOREM ClaimsAreExclusive == JobsSpec => []ClaimExclusive
  <1>1. JobsInit => ClaimExclusive
    BY DEF JobsInit, ClaimExclusive, NoTask
  <1>2. JobsTypeOK /\ ClaimExclusive /\ [JobsNext]_vars => ClaimExclusive'
    BY ClaimStep
  <1>3. QED
    BY <1>1, <1>2, JobsTypeCorrect, PTL DEF JobsSpec
=============================================================================
