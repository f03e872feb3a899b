----------------------------- MODULE MemoryJobs -----------------------------
(***************************************************************************)
(* The memory job queue: the table memory_jobs with its claims and         *)
(* transitions (assistant/src/persistence/jobs-store.ts) and the worker    *)
(* loop that drains it                                                     *)
(* (assistant/src/plugins/defaults/memory/jobs-worker.ts).                 *)
(*                                                                         *)
(* A job's row carries only a key (a page, a conversation); its handler    *)
(* reads what the key stands for when it executes and writes the derived   *)
(* index.  Enqueuing coalesces with a row that is still pending.  The      *)
(* daemon and the workers are processes of their own on one database:      *)
(* each SQL statement is atomic, a sequence of them is not.                *)
(*                                                                         *)
(* Time is abstract.  Which pending rows are due, and whether the quiesce  *)
(* lease or a breaker holds a lane back, is a choice of the tick; a        *)
(* running row turns old when the stalled-job timeout has passed.          *)
(***************************************************************************)
EXTENDS WorkerSlot

CONSTANTS
  Keys,           \* what jobs are about
  Jobs,           \* row ids
  KeyOf,          \* KeyOf[j]: the key in the payload of row j
  Lane,           \* Lane[k]: the lane of the job type of k
  Budget,         \* Budget[l]: concurrency of lane l
  Group,          \* Group[k]: rows of one group run one after the other
  Cancellable,    \* keys that are conversations and may be deleted
  Postponable,    \* keys whose handler postpones itself off v1
  MaxVersion,     \* bound of the model: writes per key
  MaxAttempts,    \* RETRY_MAX_ATTEMPTS
  MaxDeferrals,   \* MAX_DEFERRALS
  MayHang         \* a handler may never return

ASSUME JobsAssumption ==
  /\ KeyOf \in [Jobs -> Keys]
  /\ MaxVersion \in Nat
  /\ MaxAttempts \in Nat \ {0}
  /\ MaxDeferrals \in Nat \ {0}
  /\ MayHang \in BOOLEAN

VARIABLES
  rows,       \* the table memory_jobs
  task,       \* task[w][j]: what worker w is doing with row j
  phase,      \* phase[w]: "idle", "claiming" or "running" a tick
  candidates, \* candidates[w]: the rows the tick has selected
  call,       \* call[w]: the store call of w between its SELECT and its UPDATE
  enqueuing,  \* enqueuing[k]: "no", "written" (source changed, nothing
              \* enqueued yet) or "absent" (no pending row was found)
  version,    \* version[k]: the source, as the number of writes to it
  indexed,    \* indexed[k]: the version the derived index was built from
  abandoned   \* history: abandoned[k] holds the versions failed rows stood for

jobVars ==
  <<rows, task, phase, candidates, call, enqueuing, version, indexed, abandoned>>
vars == <<slotVars, jobVars>>

Terminal == {"completed", "failed"}

Row == [status : {"none", "pending", "running"} \cup Terminal,
        attempts : Nat, deferrals : Nat, old : BOOLEAN]

\* stage: how far the handler is; snap: the version it read; own (history):
\* nobody has taken the row out of this claim's hands.
Task == [stage : {"none", "queued", "read", "written", "hung"},
         snap : Nat, own : BOOLEAN]

\* failMemoryJob and deferMemoryJob read the row, then update it: `count` is the
\* counter they read, `rest` the rows of the group still to be deferred.
Call == [kind : {"none"}] \cup [kind : {"owed"}, rest : SUBSET Jobs]
          \cup [kind : {"fail", "fatal", "defer"}, job : Jobs, count : Nat,
                rest : SUBSET Jobs]

NoCall == [kind |-> "none"]
NoRow == [status |-> "none", attempts |-> 0, deferrals |-> 0, old |-> FALSE]
NoTask == [stage |-> "none", snap |-> 0, own |-> FALSE]

JobsTypeOK ==
  /\ SlotTypeOK
  /\ rows \in [Jobs -> Row]
  /\ task \in [Workers -> [Jobs -> Task]]
  /\ phase \in [Workers -> {"idle", "claiming", "running"}]
  /\ candidates \in [Workers -> SUBSET Jobs]
  /\ call \in [Workers -> Call]
  /\ enqueuing \in [Keys -> {"no", "written", "absent"}]
  /\ version \in [Keys -> Nat]
  /\ indexed \in [Keys -> Nat]
  /\ abandoned \in [Keys -> SUBSET Nat]

JobsInit ==
  /\ SlotInit
  /\ rows = [j \in Jobs |-> NoRow]
  /\ task = [w \in Workers |-> [j \in Jobs |-> NoTask]]
  /\ phase = [w \in Workers |-> "idle"]
  /\ candidates = [w \in Workers |-> {}]
  /\ call = [w \in Workers |-> NoCall]
  /\ enqueuing = [k \in Keys |-> "no"]
  /\ version = [k \in Keys |-> 0]
  /\ indexed = [k \in Keys |-> 0]
  /\ abandoned = [k \in Keys |-> {}]

Holds(w, j) == task[w][j].stage # "none"

\* Somebody other than its execution takes the rows of js out of `running`.
Disowned(t, js) ==
  [w \in Workers |-> [j \in Jobs |->
     IF j \in js THEN [t[w][j] EXCEPT !.own = FALSE] ELSE t[w][j]]]

\* The version a row stands for: what its execution has read, or else
\* whatever the source is when it gets to run.
StandsFor(j) ==
  LET readers == {w \in Workers : task[w][j].own
                                    /\ task[w][j].stage \in {"read", "written", "hung"}}
  IN  IF readers = {} THEN {version[KeyOf[j]]} ELSE {task[w][j].snap : w \in readers}

GiveUp(js) ==
  abandoned' = [k \in Keys |->
    abandoned[k] \cup UNION {StandsFor(j) : j \in {i \in js : KeyOf[i] = k}}]

----------------------------------------------------------------------------
(* The daemon: enqueue and cancel.                                          *)

WriteSource(k) ==
  /\ enqueuing[k] = "no"
  /\ version[k] < MaxVersion
  /\ version' = [version EXCEPT ![k] = @ + 1]
  /\ enqueuing' = [enqueuing EXCEPT ![k] = "written"]
  /\ UNCHANGED <<slotVars, rows, task, phase, candidates, call, indexed, abandoned>>

\* Mutant: a running row is taken for one that covers the new write.
CoalescesWithActive(j) == rows[j].status \in {"pending", "running"}

\* Only a pending row covers a new write: a running one may have read already.
Coalesces(j) == rows[j].status = "pending"

UpsertSelect(k) ==
  /\ enqueuing[k] = "written"
  /\ enqueuing' = [enqueuing EXCEPT ![k] =
       IF \E j \in Jobs : KeyOf[j] = k /\ Coalesces(j) THEN "no" ELSE "absent"]
  /\ UNCHANGED <<slotVars, rows, task, phase, candidates, call, version, indexed, abandoned>>

EnqueueMemoryJob(k) ==
  /\ enqueuing[k] = "absent"
  /\ \E j \in Jobs :
       /\ KeyOf[j] = k
       /\ rows[j].status = "none"
       /\ rows' = [rows EXCEPT ![j].status = "pending"]
  /\ enqueuing' = [enqueuing EXCEPT ![k] = "no"]
  /\ UNCHANGED <<slotVars, task, phase, candidates, call, version, indexed, abandoned>>

\* The conversation is deleted, or its task failed: its active rows fail.
CancelPendingJobs(k) ==
  LET active == {j \in Jobs : KeyOf[j] = k /\ rows[j].status \in {"pending", "running"}}
  IN /\ k \in Cancellable
     /\ active # {}
     /\ rows' = [j \in Jobs |-> IF j \in active THEN [rows[j] EXCEPT !.status = "failed"]
                                                ELSE rows[j]]
     /\ task' = Disowned(task, active)
     /\ GiveUp(active)
     /\ UNCHANGED <<slotVars, phase, candidates, call, enqueuing, version, indexed>>

----------------------------------------------------------------------------
(* A worker's start and end.                                                *)

\* startMemoryJobsWorkerLoop: whatever is running must be left over.
StartWorkerLoop(w) ==
  LET running == {j \in Jobs : rows[j].status = "running"}
  IN /\ EnterLoop(w)
     /\ rows' = [j \in Jobs |-> IF j \in running THEN [rows[j] EXCEPT !.status = "pending"]
                                                 ELSE rows[j]]
     /\ task' = Disowned(task, running)
     /\ UNCHANGED <<phase, candidates, call, enqueuing, version, indexed, abandoned>>

WorkerGone(w) ==
  /\ Gone(w)
  /\ task' = [task EXCEPT ![w] = [j \in Jobs |-> NoTask]]
  /\ phase' = [phase EXCEPT ![w] = "idle"]
  /\ candidates' = [candidates EXCEPT ![w] = {}]
  /\ call' = [call EXCEPT ![w] = NoCall]
  /\ UNCHANGED <<rows, enqueuing, version, indexed, abandoned>>

SlotStep(w) ==
  /\ SpawnWorkerProcess(w) \/ WritePidFile(w) \/ StopWorkerProcess(w)
  /\ UNCHANGED jobVars

----------------------------------------------------------------------------
(* A tick: fail what has stalled, claim, run everything claimed.            *)

Executing(w) == wproc[w] \in {"looping", "stopping"}

\* A worker runs one thing at a time: nothing of its own comes between the
\* SELECT and the UPDATE of a store call.
Free(w) == Executing(w) /\ call[w] = NoCall

\* The stalled-job timeout of a running row passes.
TurnOld(j) ==
  /\ rows[j].status = "running"
  /\ ~rows[j].old
  /\ rows' = [rows EXCEPT ![j].old = TRUE]
  /\ UNCHANGED <<slotVars, task, phase, candidates, call, enqueuing, version, indexed, abandoned>>

WithinBudgets(js) ==
  \A k \in Keys : Cardinality({j \in js : Lane[KeyOf[j]] = Lane[k]}) <= Budget[Lane[k]]

\* failStalledJobs, then the SELECTs of claimMemoryJobs.
TickSelect(w, js) ==
  LET stalled == {j \in Jobs : rows[j].status = "running" /\ rows[j].old}
  IN /\ wproc[w] = "looping"
     /\ phase[w] = "idle"
     /\ js \subseteq {j \in Jobs : rows[j].status = "pending"}
     /\ WithinBudgets(js)
     /\ rows' = [j \in Jobs |-> IF j \in stalled THEN [rows[j] EXCEPT !.status = "failed"]
                                                 ELSE rows[j]]
     /\ task' = Disowned(task, stalled)
     /\ GiveUp(stalled)
     /\ candidates' = [candidates EXCEPT ![w] = js]
     /\ phase' = [phase EXCEPT ![w] = IF js = {} THEN "idle" ELSE "claiming"]
     /\ UNCHANGED <<slotVars, call, enqueuing, version, indexed>>

\* Mutant: the claim trusts its SELECT.
ClaimableAsSelected(j) == TRUE

\* The UPDATE of a claim is conditional: another worker may have been faster.
Claimable(j) == rows[j].status = "pending"

TickClaim(w) ==
  LET claimed == {j \in candidates[w] : Claimable(j)}
  IN /\ Executing(w)
     /\ phase[w] = "claiming"
     /\ rows' = [j \in Jobs |-> IF j \in claimed
                                THEN [rows[j] EXCEPT !.status = "running", !.old = FALSE]
                                ELSE rows[j]]
     /\ task' = [task EXCEPT ![w] = [j \in Jobs |->
                   IF j \in claimed THEN [stage |-> "queued", snap |-> 0, own |-> TRUE]
                                    ELSE NoTask]]
     /\ candidates' = [candidates EXCEPT ![w] = {}]
     /\ phase' = [phase EXCEPT ![w] = IF claimed = {} THEN "idle" ELSE "running"]
     /\ UNCHANGED <<slotVars, call, enqueuing, version, indexed, abandoned>>

SameGroup(i, j) == Group[KeyOf[i]] = Group[KeyOf[j]]

\* The handler of the next row of a group starts and reads the source.
ProcessJob(w, j) ==
  /\ Free(w)
  /\ task[w][j].stage = "queued"
  /\ \A i \in Jobs : SameGroup(i, j) => task[w][i].stage \in {"none", "queued"}
  /\ task' = [task EXCEPT ![w][j].stage = "read", ![w][j].snap = version[KeyOf[j]]]
  /\ UNCHANGED <<slotVars, rows, phase, candidates, call, enqueuing, version, indexed, abandoned>>

WriteIndex(w, j) ==
  /\ Free(w)
  /\ task[w][j].stage = "read"
  /\ indexed' = [indexed EXCEPT ![KeyOf[j]] = task[w][j].snap]
  /\ task' = [task EXCEPT ![w][j].stage = "written"]
  /\ UNCHANGED <<slotVars, rows, phase, candidates, call, enqueuing, version, abandoned>>

\* The handler's promise never settles.
Hang(w, j) ==
  /\ MayHang
  /\ Free(w)
  /\ task[w][j].stage = "read"
  /\ task' = [task EXCEPT ![w][j].stage = "hung"]
  /\ UNCHANGED <<slotVars, rows, phase, candidates, call, enqueuing, version, indexed, abandoned>>

\* Mutant: the row is settled whatever has become of it.
MaySettleAlways(j) == TRUE

\* Every transition out of an execution is guarded on `running`.
MaySettle(j) == rows[j].status = "running"

\* Worker w is done with the rows of js: next[i] is what row i becomes.
Settle(w, js, next) ==
  LET settled == {i \in js : MaySettle(i)}
  IN /\ rows' = [i \in Jobs |-> IF i \in settled THEN next[i] ELSE rows[i]]
     /\ task' = Disowned([task EXCEPT ![w] =
                  [i \in Jobs |-> IF i \in js THEN NoTask ELSE task[w][i]]], settled)
     /\ GiveUp({i \in settled : next[i].status = "failed"})

CompleteMemoryJob(row) == [row EXCEPT !.status = "completed"]

RescheduleMemoryJob(row) == [row EXCEPT !.status = "pending"]

\* Mutant: one attempt too many.
FailRetryableOffByOne(row, attempts) ==
  [row EXCEPT !.attempts = attempts + 1,
              !.status = IF attempts + 1 > MaxAttempts THEN "failed" ELSE "pending"]

\* failMemoryJob with the retry budget, and with maxAttempts 1 (fatal), given
\* the attempts its SELECT has found.
FailRetryable(row, attempts) ==
  [row EXCEPT !.attempts = attempts + 1,
              !.status = IF attempts + 1 >= MaxAttempts THEN "failed" ELSE "pending"]

FailFatal(row, attempts) == [row EXCEPT !.attempts = attempts + 1, !.status = "failed"]

\* Mutant: the deferral budget is counted down from zero.
DeferCountingDown(row, deferrals) ==
  [row EXCEPT !.deferrals = deferrals - 1,
              !.status = IF deferrals = 0 THEN "failed" ELSE "pending"]

\* Mutant: deferrals are not counted.
DeferUncounted(row, deferrals) == [row EXCEPT !.status = "pending"]

DeferMemoryJob(row, deferrals) ==
  [row EXCEPT !.deferrals = deferrals + 1,
              !.status = IF deferrals + 1 >= MaxDeferrals THEN "failed" ELSE "pending"]

\* What the UPDATE of the call c makes of a row.
Counted(c, row) ==
  CASE c.kind = "fail" -> FailRetryable(row, c.count)
    [] c.kind = "fatal" -> FailFatal(row, c.count)
    [] OTHER -> DeferMemoryJob(row, c.count)

\* The SELECT of failMemoryJob or deferMemoryJob for row j.
SelectRow(w, j, kind, rest) ==
  /\ call' = [call EXCEPT ![w] =
       [kind |-> kind, job |-> j, rest |-> rest,
        count |-> IF kind = "defer" THEN rows[j].deferrals ELSE rows[j].attempts]]
  /\ UNCHANGED <<rows, task, abandoned>>

\* The rest of the group, deferred unrun after a billing block.
Unstarted(w, j) == {i \in Jobs : i # j /\ SameGroup(i, j) /\ task[w][i].stage = "queued"}

\* applyQueueResolution or handleJobError for one execution.
Resolve(w, j) ==
  /\ Free(w)
  /\ task[w][j].stage \in {"read", "written"}
  /\ \/ /\ task[w][j].stage = "written"
        /\ Settle(w, {j}, [i \in Jobs |-> CompleteMemoryJob(rows[i])])
        /\ UNCHANGED call
     \/ \E kind \in {"fail", "fatal", "defer"} : SelectRow(w, j, kind, {})
     \/ SelectRow(w, j, "defer", Unstarted(w, j))
     \/ /\ KeyOf[j] \in Postponable
        /\ Settle(w, {j}, [i \in Jobs |-> RescheduleMemoryJob(rows[i])])
        /\ UNCHANGED call
     \* handleJobError itself threw: the row stays `running`
     \/ /\ task' = [task EXCEPT ![w][j] = NoTask]
        /\ UNCHANGED <<rows, call, abandoned>>
  /\ UNCHANGED <<slotVars, phase, candidates, enqueuing, version, indexed>>

\* The UPDATE of the call: other processes may have written since its SELECT.
UpdateRow(w) ==
  LET c == call[w]
  IN /\ Executing(w)
     /\ c.kind \in {"fail", "fatal", "defer"}
     /\ Settle(w, {c.job}, [i \in Jobs |-> Counted(c, rows[i])])
     /\ call' = [call EXCEPT ![w] = IF c.rest = {} THEN NoCall
                                    ELSE [kind |-> "owed", rest |-> c.rest]]
     /\ UNCHANGED <<slotVars, phase, candidates, enqueuing, version, indexed>>

\* The next row of the rest of a blocked group.
DeferNext(w) ==
  /\ Executing(w)
  /\ call[w].kind = "owed"
  /\ \E j \in call[w].rest : SelectRow(w, j, "defer", call[w].rest \ {j})
  /\ UNCHANGED <<slotVars, phase, candidates, enqueuing, version, indexed>>

TickEnd(w) ==
  /\ Free(w)
  /\ phase[w] = "running"
  /\ \A j \in Jobs : ~Holds(w, j)
  /\ phase' = [phase EXCEPT ![w] = "idle"]
  /\ UNCHANGED <<slotVars, rows, task, candidates, call, enqueuing, version, indexed, abandoned>>

JobsNext ==
  \/ \E k \in Keys : WriteSource(k) \/ UpsertSelect(k) \/ EnqueueMemoryJob(k) \/ CancelPendingJobs(k)
  \/ \E j \in Jobs : TurnOld(j)
  \/ \E w \in Workers :
       \/ SlotStep(w) \/ StartWorkerLoop(w) \/ WorkerGone(w)
       \/ \E js \in SUBSET Jobs : TickSelect(w, js)
       \/ TickClaim(w) \/ TickEnd(w) \/ UpdateRow(w) \/ DeferNext(w)
       \/ \E j \in Jobs : ProcessJob(w, j) \/ WriteIndex(w, j) \/ Hang(w, j) \/ Resolve(w, j)

JobsSpec == JobsInit /\ [][JobsNext]_vars

\* What keeps the queue moving: the event loop of a live worker and its timers
\* run, handlers that do not hang settle, and a pending row is due again and
\* again (back-off, lease and breaker cool-downs end; the SELECTs order by
\* runAfter, so no row is passed over for ever).  Nothing restarts a worker that
\* is gone: it is spawned when a daemon starts, and no daemon has to.
JobsFairness ==
  /\ \A k \in Keys : WF_vars(UpsertSelect(k)) /\ WF_vars(EnqueueMemoryJob(k))
  /\ \A j \in Jobs : WF_vars(TurnOld(j))
  /\ \A w \in Workers :
       /\ WF_vars(WritePidFile(w) /\ UNCHANGED jobVars)
       /\ WF_vars(StartWorkerLoop(w))
       /\ WF_vars(WorkerGone(w) /\ (Evicted(w) \/ ExitAfterReap(w)))
       /\ WF_vars(\E js \in SUBSET Jobs : TickSelect(w, js))
       /\ WF_vars(TickClaim(w))
       /\ WF_vars(TickEnd(w) \/ UpdateRow(w) \/ DeferNext(w))
       /\ \A j \in Jobs :
            /\ SF_vars(\E js \in SUBSET Jobs : j \in js /\ TickSelect(w, js))
            /\ WF_vars(ProcessJob(w, j))
            /\ WF_vars(WriteIndex(w, j) \/ Hang(w, j) \/ Resolve(w, j))

JobsFairSpec == JobsSpec /\ JobsFairness

----------------------------------------------------------------------------
(* Properties.                                                              *)

\* A settled row stays settled: a late return, a restart, a cancel and the
\* watchdog are all guarded, so a job that failed is never resurrected and one
\* that completed is never failed, whoever is still running it.
TerminalIsFinal ==
  [][\A j \in Jobs : rows[j].status \in Terminal => rows'[j].status = rows[j].status]_vars

\* However many workers are alive, a claim hands a row to one of them: at most
\* one execution believes rightly that the row is its own, and then the row is
\* running (the conditional UPDATE of claimMemoryJobs).
ClaimExclusive ==
  \A j \in Jobs :
    /\ \A w \in Workers : task[w][j].own => rows[j].status = "running"
    /\ \A w, v \in Workers : task[w][j].own /\ task[v][j].own => w = v

\* A write to a source is never forgotten: until the index holds it, a row that
\* has not read it yet, or has read it and is not done, is there to redo it, or
\* a row that stood for it has failed.  (Coalescing with pending rows only;
\* reset of running rows on start; retry and defer.)
Covered(k) ==
  \/ indexed[k] = version[k]
  \/ enqueuing[k] # "no"
  \/ version[k] \in abandoned[k]
  \/ \E j \in Jobs :
       /\ KeyOf[j] = k
       /\ \/ rows[j].status = "pending"
          \/ /\ rows[j].status = "running"
             /\ StandsFor(j) = {version[k]}

NoUpdateForgotten == \A k \in Keys : Covered(k)

\* A row that may still run is within both budgets, whatever mix of retries,
\* deferrals and restarts it went through.
WithinRetryBudgets ==
  \A j \in Jobs : rows[j].status \in {"pending", "running"} =>
    rows[j].attempts < MaxAttempts /\ rows[j].deferrals < MaxDeferrals

Active(j) == rows[j].status \in {"pending", "running"}

Draining == \E w \in Workers : wproc[w] = "looping"

\* Row j goes back to pending at the hands of its own execution and without a
\* counting call: only rescheduleMemoryJob does this.
Postpones(j) ==
  /\ rows[j].status = "running"
  /\ rows'[j].status = "pending"
  /\ \E w \in Workers : call[w] = NoCall /\ Holds(w, j) /\ ~Holds(w, j)'

\* As long as a worker keeps draining the queue, every job ends, completed or
\* failed (its attempts or deferrals are spent, its error is fatal, the watchdog
\* or a cancel took it), through whatever overlap of two workers.  The queue
\* owes nothing while no worker runs, since only a daemon start brings one back,
\* nor for a job whose handler postpones it for ever, which costs no budget.
JobsSettle ==
  \A j \in Jobs :
    []<>Draining /\ <>[][~Postpones(j)]_vars
      => (Active(j) ~> rows[j].status \in Terminal)

\* After the last spawn a single worker drains the queue: the identity check
\* evicts whoever the PID file does not name.
SoleDrainer ==
  <>[](\A w, v \in Workers : wproc[w] = "looping" /\ wproc[v] = "looping" => w = v)
=============================================================================
