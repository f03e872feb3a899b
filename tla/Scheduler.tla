------------------------------ MODULE Scheduler ------------------------------
(***************************************************************************)
(* Scheduled jobs: the cron_jobs and cron_runs rows of                     *)
(* assistant/src/schedule/schedule-store.ts, the schedule worker that      *)
(* claims and runs them (scheduler.ts, worker.ts), the retry policy        *)
(* (retry-policy.ts) and the recovery the daemon runs when it boots        *)
(* (schedule-recovery.ts, daemon/lifecycle.ts).                            *)
(*                                                                         *)
(* The worker is a process of its own: every statement it sends to SQLite  *)
(* is a step, and the daemon, the user and a second worker take theirs in  *)
(* between.  Times are abstract.  nextRunAt is a stamp that no one else    *)
(* holds, together with the fact whether it has been reached; 0 is the     *)
(* source's 0.  That a new nextRunAt differs from every one a worker has   *)
(* read is what the source's "later than now" gives it.                    *)
(***************************************************************************)
EXTENDS Integers, FiniteSets

CONSTANTS
  OneShots,         \* jobs without an expression
  Recurring,        \* jobs with one
  ModesOf,          \* job -> the modes it may have been created with
  Workers,          \* worker processes, by PID
  MaxRetries,       \* the rows' maxRetries
  WakeMaxRetries,   \* WAKE_MAX_RETRIES
  MayOverlap,       \* whether a second worker may start beside the first
  Crashes,          \* bound on deaths of the worker and of the daemon
  Leases,           \* bound on quiesce leases and on reloads of the tools
  Edits,            \* bound on what the user changes
  Failures          \* bound on runs that fail or find a busy conversation

Jobs == OneShots \cup Recurring

\* A job of mode workflow takes the path of mode execute through the store.
Modes == {"execute", "script", "notify", "wake"}

\* Stamps enough for every one held by a worker and the one in the row.
Stamps == 1 .. Cardinality(Workers) + 2

ASSUME SchedulerConstants ==
  /\ IsFiniteSet(Workers)
  /\ OneShots \cap Recurring = {}
  /\ ModesOf \in [Jobs -> SUBSET Modes]
  /\ {MaxRetries, WakeMaxRetries, Crashes, Leases, Edits, Failures} \subseteq Nat
  /\ MayOverlap \in BOOLEAN

VARIABLES
  job,      \* job -> its cron_jobs row
  open,     \* <<p, j>>: p has a cron_runs row of j in status running;
            \* recovery's own rows are those of NoRun
  worker,   \* worker -> where it is, the rows it read, the jobs it claimed
  daemon,   \* where the daemon is, what recovery still has to do
  quiesced, \* a quiesce lease is active
  left,     \* how often each bounded event may still happen
  ran,      \* one-shot -> successful executions
  failed,   \* job -> executions that failed or found a busy conversation
  faults    \* job -> executions cut off, and recoveries gone wrong

rows == <<job, open>>
ghosts == <<ran, failed, faults>>
vars == <<job, open, worker, daemon, quiesced, left, ran, failed, faults>>

NoJob == "nojob"
NoRun == "norun"
Dead == [at |-> "dead", ready |-> FALSE, seen |-> <<>>, claims |-> <<>>, job |-> NoJob,
         count |-> 0]
Up == [at |-> "up", todo |-> {}, job |-> NoJob, of |-> NoRun, retry |-> 0, count |-> 0]

Alive(w) == worker[w].at # "dead"
Holds(w, j) == j \in DOMAIN worker[w].claims
Tracked(j) == job[j].mode \in {"execute", "script"}
NeedsTools(j) == job[j].mode \in {"execute", "wake"}

-----------------------------------------------------------------------------
(* The store's writes, each one statement on one row.                      *)

\* A nextRunAt later than now: one that nobody has read.
FreshStamp(j) ==
  LET held == {job[j].next}
        \cup {worker[w].seen[j].next : w \in {v \in Workers : j \in DOMAIN worker[v].seen}}
        \cup {worker[w].claims[j].next : w \in {v \in Workers : Holds(v, j)}}
  IN  CHOOSE s \in Stamps : s \notin held

Later(j, row) == [row EXCEPT !.next = FreshStamp(j), !.due = FALSE]

\* Statements that ask for status firing leave any other row alone.
FromFiring(row, status, enabled) ==
  IF row.status = "firing"
    THEN [row EXCEPT !.status = status, !.enabled = enabled]
    ELSE row

FromAnywhere(row, status, enabled) ==
  [row EXCEPT !.status = status, !.enabled = enabled]

\* Mutants: a completed one-shot stays armed; a revert takes any status.
CompleteKeepsArmed(row) == FromFiring(row, "active", row.enabled)
RevertAnyStatus(row) == FromAnywhere(row, "active", row.enabled)

CompleteOneShot(row) == FromFiring(row, "fired", FALSE)
FailOneShotPermanently(row) == FromFiring(row, "cancelled", FALSE)
RevertStatus(row) == FromFiring(row, "active", row.enabled)
RetryOneShot(row) ==
  IF row.status = "firing" THEN [RevertStatus(row) EXCEPT !.retry = @ + 1] ELSE row

\* completeScheduleRun: what it writes to the job's row, once a failed run has
\* read the count in a statement of its own.
ChargeRetry(row, ok, count) == [row EXCEPT !.retry = IF ok THEN 0 ELSE count + 1]

\* claimDueSchedules, recurring: advance nextRunAt, or exhaust the job.
Advance(j, row) ==
  IF row.more
    THEN Later(j, row)
    ELSE [row EXCEPT !.next = 0, !.due = TRUE, !.enabled = FALSE]

\* Mutant: the claim does not look at what the row has become.
ClaimAnyway(j, seen) == TRUE

\* The optimistic lock of a recurring claim, and the CAS of a one-shot's.
ClaimHolds(j, seen) ==
  IF j \in Recurring
    THEN job[j].next = seen.next
    ELSE job[j].status = "active"

\* Mutant: the failure at hand is charged twice.
DecideRetryCharged(retry) == retry + 1 < MaxRetries

\* decideRetry, on the count the row had before this failure was charged.
DecideRetry(retry) == retry < MaxRetries

\* applyRetryDecision's first statement.
ApplyRetryDecision(j, row, retry) ==
  CASE DecideRetry(retry) -> Later(j, row)
    [] ~DecideRetry(retry) /\ j \in OneShots -> FailOneShotPermanently(row)
    [] OTHER -> [row EXCEPT !.retry = 0]

-----------------------------------------------------------------------------
Init ==
  /\ job \in [Jobs -> [mode : Modes, status : {"active"}, enabled : {TRUE}, next : {1},
                       due : {FALSE}, retry : {0}, more : BOOLEAN]]
  /\ \A j \in Jobs : job[j].mode \in ModesOf[j] /\ job[j].more = (j \in Recurring)
  /\ open = {}
  /\ worker = [w \in Workers |-> Dead]
  /\ daemon = Up
  /\ quiesced = FALSE
  /\ left = [crashes |-> Crashes, leases |-> Leases, edits |-> Edits,
             failures |-> Failures]
  /\ ran = [j \in OneShots |-> 0]
  /\ failed = [j \in Jobs |-> 0]
  /\ faults = [j \in Jobs |-> 0]

Spend(what) == left[what] > 0 /\ left' = [left EXCEPT ![what] = @ - 1]

-----------------------------------------------------------------------------
(* One tick of the worker: claim everything due, then run it job by job.   *)

DueAmong(S) == {j \in S : /\ job[j].enabled
                          /\ job[j].due
                          /\ j \in OneShots => job[j].status = "active"}
Read(S) == [j \in DueAmong(S) |-> [next |-> job[j].next, retry |-> job[j].retry]]

Without(f, j) == [i \in DOMAIN f \ {j} |-> f[i]]
With(f, j, v) == [i \in DOMAIN f \cup {j} |-> IF i = j THEN v ELSE f[i]]

SelectRecurring(w) ==
  /\ worker[w].at = "idle"
  /\ ~quiesced
  /\ DueAmong(Jobs) # {}
  /\ worker' = [worker EXCEPT ![w].at = "recurring", ![w].seen = Read(Recurring)]
  /\ UNCHANGED <<rows, daemon, quiesced, left, ghosts>>

Claim(w, j) ==
  /\ worker[w].at \in {"recurring", "oneshot"}
  /\ j \in DOMAIN worker[w].seen
  /\ LET seen == worker[w].seen[j]
     IN  IF ClaimHolds(j, seen)
           THEN /\ job' = [job EXCEPT ![j] =
                     IF j \in Recurring THEN Advance(j, @)
                                        ELSE [@ EXCEPT !.status = "firing"]]
                /\ worker' = [worker EXCEPT ![w].seen = Without(@, j),
                                            ![w].claims = With(@, j, seen)]
           ELSE /\ worker' = [worker EXCEPT ![w].seen = Without(@, j)]
                /\ job' = job
  /\ UNCHANGED <<open, daemon, quiesced, left, ghosts>>

SelectOneShots(w) ==
  /\ worker[w].at = "recurring"
  /\ worker[w].seen = <<>>
  /\ worker' = [worker EXCEPT ![w].at = "oneshot", ![w].seen = Read(OneShots)]
  /\ UNCHANGED <<rows, daemon, quiesced, left, ghosts>>

\* The claimed jobs are run in the order in which they were claimed.
Foremost(S) == IF S \cap Recurring # {} THEN S \cap Recurring ELSE S

InLoop(w) == worker[w].at = "oneshot" /\ worker[w].seen = <<>>

TickEnds(w) ==
  /\ InLoop(w)
  /\ worker[w].claims = <<>>
  /\ worker' = [worker EXCEPT ![w].at = "idle"]
  /\ UNCHANGED <<rows, daemon, quiesced, left, ghosts>>

Begins(w, j) == InLoop(w) /\ j \in Foremost(DOMAIN worker[w].claims)

\* Mutant: a tick defers what needs tools even when they are ready.
MustDeferTools(w, j) == quiesced \/ NeedsTools(j)

MustDefer(w, j) == quiesced \/ (NeedsTools(j) /\ ~worker[w].ready)

\* deferClaimedSchedule, first statement.
Requeue(j, row) == [Later(j, row) EXCEPT !.enabled = TRUE]

Defer(w, j) ==
  /\ Begins(w, j)
  /\ MustDefer(w, j)
  /\ job' = [job EXCEPT ![j] = Requeue(j, @)]
  /\ worker' = [worker EXCEPT ![w].at = "revert", ![w].job = j]
  /\ UNCHANGED <<open, daemon, quiesced, left, ghosts>>

\* execute, script and workflow runs have their cron_runs row first.
Start(w, j) ==
  /\ Begins(w, j)
  /\ ~MustDefer(w, j)
  /\ worker' = [worker EXCEPT ![w].at = "working", ![w].job = j]
  /\ open' = IF Tracked(j) THEN open \cup {<<w, j>>} ELSE open
  /\ UNCHANGED <<job, daemon, quiesced, left, ghosts>>

\* Mutant: the finished job is still the current one.
DoneKeepsJob(w) == worker' = [worker EXCEPT ![w].at = "oneshot",
                                            ![w].claims = Without(@, worker[w].job)]

\* On to the next claimed job.
Done(w) == worker' = [worker EXCEPT ![w].at = "oneshot", ![w].job = NoJob,
                                    ![w].claims = Without(@, worker[w].job)]
Goto(w, at) == worker' = [worker EXCEPT ![w].at = at]

\* A recurring wake records no run when it succeeds.
Succeed(w) ==
  /\ worker[w].at = "working"
  /\ LET j == worker[w].job
     IN  /\ ran' = [i \in OneShots |-> IF i = j THEN ran[i] + 1 ELSE ran[i]]
         /\ CASE Tracked(j) -> Goto(w, "ok")
              [] job[j].mode = "wake" /\ j \in Recurring -> Done(w)
              [] OTHER -> Goto(w, "won")
  /\ UNCHANGED <<rows, daemon, quiesced, left, failed, faults>>

\* The conversation to wake stays busy: nothing is run.
FindBusy(w) ==
  /\ worker[w].at = "working"
  /\ job[worker[w].job].mode = "wake"
  /\ Spend("failures")
  /\ LET j == worker[w].job
     IN  /\ job' = [job EXCEPT ![j] =
              IF j \in Recurring THEN @
              ELSE IF worker[w].claims[j].retry >= WakeMaxRetries
                     THEN FailOneShotPermanently(@)
                     ELSE RetryOneShot(@)]
         /\ failed' = [failed EXCEPT ![j] = @ + 1]
         /\ Done(w)
  /\ UNCHANGED <<open, daemon, quiesced, ran, faults>>

\* The conversation to wake is gone: a one-shot is over, nothing is recorded.
FindGone(w) ==
  /\ worker[w].at = "working"
  /\ job[worker[w].job].mode = "wake"
  /\ IF worker[w].job \in OneShots THEN Goto(w, "complete") ELSE Done(w)
  /\ UNCHANGED <<rows, daemon, quiesced, left, ghosts>>

Fail(w) ==
  /\ worker[w].at = "working"
  /\ Spend("failures")
  /\ Goto(w, IF Tracked(worker[w].job) THEN "failed" ELSE "lost")
  /\ failed' = [failed EXCEPT ![worker[w].job] = @ + 1]
  /\ UNCHANGED <<rows, daemon, quiesced, ran, faults>>

\* A notify or wake run has its row only now, its outcome known.
OpenRun(w) ==
  /\ worker[w].at \in {"won", "lost"}
  /\ open' = open \cup {<<w, worker[w].job>>}
  /\ Goto(w, IF worker[w].at = "won" THEN "ok" ELSE "failed")
  /\ UNCHANGED <<job, daemon, quiesced, left, ghosts>>

\* completeScheduleRun, first statement: finishScheduleRunRow.
CloseRun(w) ==
  /\ worker[w].at \in {"ok", "failed"}
  /\ open' = open \ {<<w, worker[w].job>>}
  /\ Goto(w, IF worker[w].at = "ok" THEN "charge-ok" ELSE "count")
  /\ UNCHANGED <<job, daemon, quiesced, left, ghosts>>

\* Of a failed run, the count is read before it is written.
Count(w) ==
  /\ worker[w].at = "count"
  /\ worker' = [worker EXCEPT ![w].at = "charge", ![w].count = job[worker[w].job].retry]
  /\ UNCHANGED <<rows, daemon, quiesced, left, ghosts>>

Charge(w) ==
  /\ worker[w].at \in {"charge-ok", "charge"}
  /\ LET ok == worker[w].at = "charge-ok"
         j == worker[w].job
     IN  /\ job' = [job EXCEPT ![j] = ChargeRetry(@, ok, worker[w].count)]
         /\ CASE ~ok -> worker' = [worker EXCEPT ![w].at = "decide", ![w].count = 0]
              [] ok /\ j \in OneShots -> Goto(w, "complete")
              [] OTHER -> Done(w)
  /\ UNCHANGED <<open, daemon, quiesced, left, ghosts>>

Complete(w) ==
  /\ worker[w].at = "complete"
  /\ job' = [job EXCEPT ![worker[w].job] = CompleteOneShot(@)]
  /\ Done(w)
  /\ UNCHANGED <<open, daemon, quiesced, left, ghosts>>

Decide(w) ==
  /\ worker[w].at = "decide"
  /\ LET j == worker[w].job
         retry == worker[w].claims[j].retry
     IN  /\ job' = [job EXCEPT ![j] = ApplyRetryDecision(j, @, retry)]
         /\ IF DecideRetry(retry) THEN Goto(w, "revert") ELSE Done(w)
  /\ UNCHANGED <<open, daemon, quiesced, left, ghosts>>

\* The second statement of scheduleRetry and of deferClaimedSchedule.
Revert(w) ==
  /\ worker[w].at = "revert"
  /\ job' = [job EXCEPT ![worker[w].job] = RevertStatus(@)]
  /\ Done(w)
  /\ UNCHANGED <<open, daemon, quiesced, left, ghosts>>

-----------------------------------------------------------------------------
(* Processes: the worker dies or is respawned, the daemon dies and boots.  *)

\* The executions that end with the workers in S.  Recovering a job beside a
\* live worker, or dying halfway through, is a fault of that job as well.
CutOff(S) == [j \in Jobs |-> faults[j] + Cardinality({w \in S : Holds(w, j)})]

WorkerDies(w) ==
  /\ Alive(w)
  /\ Spend("crashes")
  /\ worker' = [worker EXCEPT ![w] = Dead]
  /\ faults' = CutOff({w})
  /\ UNCHANGED <<rows, daemon, quiesced, ran, failed>>

\* The watchdog's respawn, off the daemon's tick; recovery is no part of it.
Spawn(w) ==
  /\ daemon.at = "up"
  /\ ~Alive(w)
  /\ MayOverlap \/ \A v \in Workers : ~Alive(v)
  /\ worker' = [worker EXCEPT ![w] = [Dead EXCEPT !.at = "idle"]]
  /\ UNCHANGED <<rows, daemon, quiesced, left, ghosts>>

\* The MCP tool surface settles in the worker: at its start, or after a reload.
ToolsReady(w) ==
  /\ Alive(w)
  /\ ~worker[w].ready
  /\ worker' = [worker EXCEPT ![w].ready = TRUE]
  /\ UNCHANGED <<rows, daemon, quiesced, left, ghosts>>

\* A change of the MCP configuration takes the tool surface away.
ToolsReload(w) ==
  /\ Alive(w)
  /\ worker[w].ready
  /\ Spend("leases")
  /\ worker' = [worker EXCEPT ![w].ready = FALSE]
  /\ UNCHANGED <<rows, daemon, quiesced, ghosts>>

DaemonDies ==
  /\ daemon.at # "down"
  /\ Spend("crashes")
  /\ daemon' = [Up EXCEPT !.at = "down"]
  /\ faults' = [j \in Jobs |-> IF j = daemon.job THEN faults[j] + 1 ELSE faults[j]]
  /\ UNCHANGED <<rows, worker, quiesced, ran, failed>>

\* findStaleInFlightJobs: every running run, and every other firing one-shot.
StaleOneShots ==
  {j \in OneShots : job[j].status = "firing" /\ job[j].enabled}

\* Mutant: only jobs with an open run are found.
FindStaleRuns == open

FindStaleInFlightJobs ==
  open \cup {<<NoRun, j>> : j \in StaleOneShots \ {o[2] : o \in open}}

Boot ==
  /\ daemon.at = "down"
  /\ daemon' = [Up EXCEPT !.at = "recover", !.todo = FindStaleInFlightJobs]
  /\ faults' = [j \in Jobs |-> faults[j] +
       IF \E w \in Workers : Alive(w)
         THEN Cardinality({s \in FindStaleInFlightJobs : s[2] = j})
         ELSE 0]
  /\ UNCHANGED <<rows, worker, quiesced, left, ran, failed>>

\* recoverStaleSchedules reads the job and, where it found no run, inserts one:
\* nobody but recovery looks at that row, so the two statements are one step.
RecoverRun(s) ==
  /\ daemon.at = "recover"
  /\ s \in daemon.todo
  /\ daemon' = [daemon EXCEPT !.at = "close", !.todo = @ \ {s}, !.of = s[1], !.job = s[2],
                              !.retry = job[s[2]].retry]
  /\ open' = IF s[1] = NoRun THEN open \cup {s} ELSE open
  /\ UNCHANGED <<job, worker, quiesced, left, ghosts>>

\* completeScheduleRun's three statements.
RecoverClose ==
  /\ daemon.at = "close"
  /\ open' = open \ {<<daemon.of, daemon.job>>}
  /\ daemon' = [daemon EXCEPT !.at = "count", !.of = NoRun]
  /\ UNCHANGED <<job, worker, quiesced, left, ghosts>>

RecoverCount ==
  /\ daemon.at = "count"
  /\ daemon' = [daemon EXCEPT !.at = "charge", !.count = job[daemon.job].retry]
  /\ UNCHANGED <<rows, worker, quiesced, left, ghosts>>

RecoverCharge ==
  /\ daemon.at = "charge"
  /\ job' = [job EXCEPT ![daemon.job] = ChargeRetry(@, FALSE, daemon.count)]
  /\ daemon' = [daemon EXCEPT !.at = "decide", !.count = 0]
  /\ UNCHANGED <<open, worker, quiesced, left, ghosts>>

\* On to the next stale job.
Recovered == daemon' = [Up EXCEPT !.at = "recover", !.todo = daemon.todo]

RecoverDecide ==
  /\ daemon.at = "decide"
  /\ job' = [job EXCEPT ![daemon.job] = ApplyRetryDecision(daemon.job, @, daemon.retry)]
  /\ IF DecideRetry(daemon.retry) THEN daemon' = [daemon EXCEPT !.at = "revert"] ELSE Recovered
  /\ UNCHANGED <<open, worker, quiesced, left, ghosts>>

RecoverRevert ==
  /\ daemon.at = "revert"
  /\ job' = [job EXCEPT ![daemon.job] = RevertStatus(@)]
  /\ Recovered
  /\ UNCHANGED <<open, worker, quiesced, left, ghosts>>

\* startScheduler: the worker of the daemon before this one is stopped.
StartScheduler ==
  /\ daemon.at = "recover"
  /\ daemon.todo = {}
  /\ daemon' = Up
  /\ faults' = CutOff(Workers)
  /\ worker' = [w \in Workers |-> Dead]
  /\ UNCHANGED <<rows, quiesced, left, ran, failed>>

-----------------------------------------------------------------------------
(* The user and the clock.                                                 *)

CancelSchedule(j) ==
  /\ j \in OneShots
  /\ job[j].status = "active"
  /\ Spend("edits")
  /\ job' = [job EXCEPT ![j] = FromAnywhere(@, "cancelled", FALSE)]
  /\ UNCHANGED <<open, worker, daemon, quiesced, ghosts>>

\* updateSchedule({enabled}): a recurring job's nextRunAt moves with it.
Disable(j) ==
  /\ job[j].enabled
  /\ Spend("edits")
  /\ job' = [job EXCEPT ![j] =
       IF j \in Recurring THEN [@ EXCEPT !.enabled = FALSE, !.next = 0, !.due = TRUE]
                          ELSE [@ EXCEPT !.enabled = FALSE]]
  /\ UNCHANGED <<open, worker, daemon, quiesced, ghosts>>

Enable(j) ==
  /\ ~job[j].enabled
  /\ j \in Recurring => job[j].more
  /\ Spend("edits")
  /\ job' = [job EXCEPT ![j] =
       IF j \in Recurring THEN [Later(j, @) EXCEPT !.enabled = TRUE]
                          ELSE [@ EXCEPT !.enabled = TRUE]]
  /\ UNCHANGED <<open, worker, daemon, quiesced, ghosts>>

TimePasses(j) ==
  /\ ~job[j].due
  /\ job' = [job EXCEPT ![j].due = TRUE]
  /\ UNCHANGED <<open, worker, daemon, quiesced, left, ghosts>>

\* The recurrence's COUNT or UNTIL is reached: nothing comes after nextRunAt.
LastOccurrence(j) ==
  /\ job[j].more
  /\ job' = [job EXCEPT ![j].more = FALSE]
  /\ UNCHANGED <<open, worker, daemon, quiesced, left, ghosts>>

SetQuiesce ==
  /\ ~quiesced
  /\ Spend("leases")
  /\ quiesced' = TRUE
  /\ UNCHANGED <<rows, worker, daemon, ghosts>>

LeaseEnds ==
  /\ quiesced
  /\ quiesced' = FALSE
  /\ UNCHANGED <<rows, worker, daemon, left, ghosts>>

-----------------------------------------------------------------------------
WorkerStep(w) ==
  \/ SelectRecurring(w) \/ SelectOneShots(w) \/ TickEnds(w)
  \/ \E j \in Jobs : Claim(w, j) \/ Defer(w, j) \/ Start(w, j)
  \/ OpenRun(w) \/ CloseRun(w) \/ Count(w) \/ Charge(w) \/ Complete(w) \/ Decide(w) \/ Revert(w)

Outcome(w) == Succeed(w) \/ FindBusy(w) \/ FindGone(w) \/ Fail(w)

DaemonStep ==
  \/ Boot \/ RecoverClose \/ RecoverCount \/ RecoverCharge \/ RecoverDecide
  \/ RecoverRevert \/ StartScheduler
  \/ \E s \in daemon.todo : RecoverRun(s)

Next ==
  \/ \E w \in Workers : WorkerStep(w) \/ Outcome(w) \/ Spawn(w) \/ ToolsReady(w)
                        \/ ToolsReload(w) \/ WorkerDies(w)
  \/ DaemonStep \/ DaemonDies
  \/ \E j \in Jobs : CancelSchedule(j) \/ Disable(j) \/ Enable(j) \/ TimePasses(j)
                     \/ LastOccurrence(j)
  \/ SetQuiesce \/ LeaseEnds

\* The worker's loop, the watchdog's tick, the daemon's boot, the clock and
\* a lease's expiry go on; an execution ends, with whatever outcome.
Fairness ==
  /\ \A w \in Workers : /\ WF_vars(WorkerStep(w)) /\ WF_vars(Outcome(w))
                        /\ WF_vars(Spawn(w)) /\ WF_vars(ToolsReady(w))
  /\ WF_vars(DaemonStep)
  /\ \A j \in Jobs : WF_vars(TimePasses(j))
  /\ WF_vars(LeaseEnds)

SchedulerSpec == Init /\ [][Next]_vars /\ Fairness

-----------------------------------------------------------------------------
(* Properties.                                                             *)

Statuses == {"active", "firing", "fired", "cancelled"}
Settled(j) == job[j].status \in {"fired", "cancelled"}

\* Every variable has its type; a retry count stays within what was charged,
\* and only failures and faults are charged, each of them once.
SchedulerTypeOK ==
  /\ job \in [Jobs -> [mode : Modes, status : Statuses, enabled : BOOLEAN, next : {0} \cup Stamps,
                       due : BOOLEAN, retry : Nat, more : BOOLEAN]]
  /\ \A j \in Jobs : job[j].retry <= failed[j] + faults[j]
  /\ open \subseteq (Workers \cup {NoRun}) \X Jobs
  /\ \A w \in Workers : /\ DOMAIN worker[w].seen \cup DOMAIN worker[w].claims \subseteq Jobs
                        /\ worker[w].job \in DOMAIN worker[w].claims \cup {NoJob}
  /\ quiesced \in BOOLEAN

\* Claims are atomic in the store: two workers that are alive at once never
\* hold the same occurrence of a recurring job, nor the same one-shot unless
\* an execution of it was cut off or recovered.
ClaimedOnce ==
  \A v, w \in Workers : \A j \in Jobs :
    v # w /\ Holds(v, j) /\ Holds(w, j) =>
      \/ j \in Recurring /\ worker[v].claims[j].next # worker[w].claims[j].next
      \/ j \in OneShots /\ faults[j] > 0

\* A one-shot runs to success once, and once more for every execution that a
\* crash cut off or that recovery took away from a live worker.
SucceedsOncePerFault == \A j \in OneShots : ran[j] <= 1 + faults[j]

\* A one-shot that has fired or was cancelled stays that way, whatever a
\* recovery that still has it on its list, or a late statement of a worker
\* that lost it, writes afterwards.
SettledIsFinal ==
  [][\A j \in Jobs : Settled(j) => job'[j].status = job[j].status]_vars

\* The retries a job is allowed.  A wake has two budgets on one count, its own
\* for a busy conversation and the row's for a failed run.
Budget(j) ==
  IF job[j].mode = "wake" /\ WakeMaxRetries < MaxRetries THEN WakeMaxRetries ELSE MaxRetries

\* The policy gives a one-shot up only after its first run and every retry it
\* is allowed have failed or were cut off.
GivesUpAfterBudget ==
  [][\A j \in OneShots :
       job[j].status = "firing" /\ job'[j].status = "cancelled" =>
         failed'[j] + faults'[j] > Budget(j)]_vars

\* Through leases, a tool surface that is not ready, retries and respawns of
\* the worker, an armed one-shot ends up fired or cancelled, unless the user
\* disables it or a crash takes its worker.
OneShotsSettle ==
  \A j \in OneShots :
    job[j].status = "active" /\ job[j].enabled
      ~> Settled(j) \/ ~job[j].enabled \/ faults[j] > 0

\* A one-shot that was cut off is released by the boot of the daemon: it is
\* armed again or given up.
BootReleases ==
  \A j \in OneShots :
    job[j].status = "firing" /\ daemon.at = "down" /\ (\A w \in Workers : ~Holds(w, j))
      ~> job[j].status # "firing" \/ ~job[j].enabled
=============================================================================
