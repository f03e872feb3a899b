------------------------------- MODULE Workflow -------------------------------
(***************************************************************************)
(* One workflow run of the daemon: the engine that executes a script and   *)
(* fans it out to leaf agents, the run row and the journal it writes, and  *)
(* the run manager that starts, aborts, reconciles and resumes it          *)
(* (workflows/engine.ts, run-manager.ts, journal-store.ts).                *)
(*                                                                         *)
(* The script is a parameter: Program maps the answers its host calls gave *)
(* so far to what it does next, so it is deterministic, as the sandbox     *)
(* makes it, and may branch on a leaf that failed.  A leaf call is its     *)
(* prompt; the call hash is the prompt itself and the output of a leaf is  *)
(* the prompt it answers, which is enough to see an output handed to the   *)
(* wrong call.  Tokens and progress events are left out.                   *)
(***************************************************************************)
EXTENDS Integers, Sequences, FiniteSets

CONSTANTS
    Prompts,              \* the leaf calls the script can make
    Null,                 \* what a failed leaf of a parallel() yields
    Program(_),           \* the script
    MaxAgentsPerRun,      \* config.workflows.maxAgentsPerRun
    MaxConcurrentLeaves,  \* config.workflows.maxConcurrentLeaves
    Crashes,              \* bound: how often the daemon dies
    Failures              \* bound: how many leaves fail or abort unasked

ASSUME WorkflowConstants ==
    /\ Null \notin Prompts
    /\ {"waiting", "running", "threw"} \cap (Prompts \cup {Null}) = {}
    /\ MaxAgentsPerRun \in Nat /\ MaxConcurrentLeaves \in Nat \ {0}
    /\ Crashes \in Nat /\ Failures \in Nat

VARIABLES
    up,           \* the daemon is alive
    row,          \* the workflow_runs row: status and agents_spawned
    journal,      \* workflow_journal: seq -> the call and how it ended
    inflight,     \* the run manager holds the run's controller
    aborted,      \* the controller's signal
    engine,       \* "idle", "script" (between host calls) or "pool"
    answers,      \* what the script's host calls returned or threw
    nextSeq, agentsSpawned, capExceeded,
    pool,         \* the host call in progress
    leaves,       \* the leaf agents in flight, each a promise of its own
    launched, done, cutOff, lostSpawns, failures, crashes    \* history

memory == << inflight, aborted, engine, answers, nextSeq, agentsSpawned,
             capExceeded, pool, leaves >>
history == << launched, done, cutOff, lostSpawns, failures, crashes >>
vars == << up, row, journal, memory, history >>

TerminalStatuses == {"completed", "failed", "aborted", "cap_exceeded"}

\* A task of the pool is waiting for a worker, running, was stopped by a
\* sentinel, or has settled with an output or with Null.
Outcomes == Prompts \cup {Null}
TaskStates == {"waiting", "running", "threw"} \cup Outcomes

NoPool == [kind |-> "agent", base |-> 0, prompts |-> << >>, at |-> << >>,
           error |-> "no"]

Tasks == DOMAIN pool.at
Running == {i \in Tasks : pool.at[i] = "running"}
Waiting == {i \in Tasks : pool.at[i] = "waiting"}
SeqOf(i) == pool.base + i - 1

-----------------------------------------------------------------------------
(* The run row and the journal.                                            *)

\* flushCounters.
FlushedRow == [row EXCEPT !.agentsSpawned = agentsSpawned]

FinishRun(r, status) == [r EXCEPT !.status = status]

AppendJournalEntry(seq, prompt, status) ==
    [s \in DOMAIN journal \cup {seq} |->
        IF s = seq THEN [call |-> prompt, status |-> status] ELSE journal[s]]

\* Mutant: the journal is trusted without comparing the call.
ReplayableBySeq(seq, prompt) ==
    seq \in DOMAIN journal /\ journal[seq].status = "completed"

\* Whether the journal answers the call at seq without running it.
Replayable(seq, prompt) ==
    /\ seq \in DOMAIN journal
    /\ journal[seq].call = prompt
    /\ journal[seq].status = "completed"

Init ==
    /\ up = TRUE
    /\ row = [status |-> "none", agentsSpawned |-> 0]
    /\ journal = << >>
    /\ inflight = FALSE /\ aborted = FALSE /\ engine = "idle"
    /\ answers = << >> /\ nextSeq = 0 /\ agentsSpawned = 0
    /\ capExceeded = FALSE /\ pool = NoPool /\ leaves = {}
    /\ launched = 0 /\ lostSpawns = 0 /\ failures = 0 /\ crashes = 0
    /\ done = [p \in Prompts |-> 0]
    /\ cutOff = [p \in Prompts |-> 0]

-----------------------------------------------------------------------------
(* Launching an execution of the script: from the top, with the counters   *)
(* of the row.                                                             *)

\* Mutants: the counters restart with the script; the seq does not.
SeedCountersAtZero(r) == 0
FirstSeqSeeded(r) == r.agentsSpawned

SeedCounters(r) == r.agentsSpawned
FirstSeq(r) == 0

Launch(r) ==
    /\ row' = [r EXCEPT !.status = "running"]
    /\ inflight' = TRUE
    /\ aborted' = FALSE
    /\ engine' = "script"
    /\ answers' = << >>
    /\ nextSeq' = FirstSeq(r)
    /\ agentsSpawned' = SeedCounters(r)
    /\ capExceeded' = FALSE
    /\ pool' = NoPool
    /\ UNCHANGED << up, journal, leaves, history >>

\* WorkflowRunManager.start: the row is created before the engine runs.
Start ==
    /\ up /\ row.status = "none"
    /\ Launch(row)

\* WorkflowRunManager.resume.
Resume ==
    /\ up /\ ~inflight
    /\ row.status = "interrupted"
    /\ Launch(row)

\* WorkflowRunManager.abort.  Once the run row is finished the signal has no
\* reader left.
Abort ==
    /\ up /\ inflight /\ engine # "idle" /\ ~aborted
    /\ aborted' = TRUE
    /\ UNCHANGED << up, row, journal, inflight, engine, answers, nextSeq,
                    agentsSpawned, capExceeded, pool, leaves, history >>

-----------------------------------------------------------------------------
(* Host calls.                                                             *)

Step == Program(answers)

\* agent() and parallel() number their leaves in call order before any runs.
CallHost ==
    /\ engine = "script"
    /\ Step.do \in {"agent", "parallel"}
    /\ pool' = [kind    |-> Step.do,
                base    |-> nextSeq,
                prompts |-> Step.prompts,
                at      |-> [i \in DOMAIN Step.prompts |-> "waiting"],
                error   |-> "no"]
    /\ nextSeq' = nextSeq + Len(Step.prompts)
    /\ engine' = "pool"
    /\ UNCHANGED << up, row, journal, inflight, aborted, answers, agentsSpawned,
                    capExceeded, leaves, history >>

\* A task throws: only the first error counts, and it stops the pool from
\* pulling and cancels the leaves in flight.
Throw(seq, error) ==
    pool' = [pool EXCEPT
        !.at = [i \in Tasks |-> IF SeqOf(i) = seq THEN "threw" ELSE @[i]],
        !.error = IF @ = "no" THEN error ELSE @]

Settle(seq, outcome) ==
    pool' = [pool EXCEPT
        !.at = [i \in Tasks |-> IF SeqOf(i) = seq THEN outcome ELSE @[i]]]

\* Mutant: off by one.
CapReachedLate == agentsSpawned > MaxAgentsPerRun

CapReached == agentsSpawned >= MaxAgentsPerRun

\* A free worker of the pool takes the next task and runs runLeafAtSeq up to
\* its await.
Pull(i) ==
    /\ engine = "pool" /\ pool.error = "no"
    /\ i \in Waiting /\ \A j \in Waiting : i <= j
    /\ Cardinality(Running) < MaxConcurrentLeaves
    /\ LET prompt == pool.prompts[i]
           cached == ~aborted /\ Replayable(SeqOf(i), prompt)
           capped == ~aborted /\ ~cached /\ CapReached
           starts == ~aborted /\ ~cached /\ ~capped
       IN /\ \/ aborted /\ Throw(SeqOf(i), "abort")
             \/ cached /\ Settle(SeqOf(i), journal[SeqOf(i)].call)
             \/ capped /\ Throw(SeqOf(i), "cap")
             \/ starts /\ Settle(SeqOf(i), "running")
          /\ leaves' = leaves \cup {[seq |-> q, prompt |-> prompt] :
                                     q \in IF starts THEN {SeqOf(i)} ELSE {}}
          /\ capExceeded' = (capExceeded \/ capped)
          /\ agentsSpawned' = agentsSpawned + IF starts THEN 1 ELSE 0
          /\ launched' = launched + IF starts THEN 1 ELSE 0
    /\ UNCHANGED << up, row, journal, inflight, aborted, engine, answers, nextSeq,
                    done, cutOff, lostSpawns, failures, crashes >>

\* The leaf runner returns, also when the run was aborted or the pool unwinds
\* and the cancellation came too late.
LeafSucceeds(leaf) ==
    /\ row' = FlushedRow
    /\ journal' = AppendJournalEntry(leaf.seq, leaf.prompt, "completed")
    /\ Settle(leaf.seq, leaf.prompt)
    /\ leaves' = leaves \ {leaf}
    /\ done' = [done EXCEPT ![leaf.prompt] = @ + 1]
    /\ UNCHANGED << up, inflight, aborted, engine, answers, nextSeq, agentsSpawned,
                    capExceeded, launched, cutOff, lostSpawns, failures, crashes >>

\* A genuine failure is journaled, without the counters.
LeafFails(leaf) ==
    /\ ~aborted /\ failures < Failures
    /\ journal' = AppendJournalEntry(leaf.seq, leaf.prompt, "failed")
    /\ Settle(leaf.seq, Null)
    /\ leaves' = leaves \ {leaf}
    /\ failures' = failures + 1
    /\ UNCHANGED << up, row, inflight, aborted, engine, answers, nextSeq,
                    agentsSpawned, capExceeded, launched, done, cutOff, lostSpawns,
                    crashes >>

\* The signal of the run, or of an unwinding parallel(), ends the leaf.
LeafCancelled(leaf) ==
    /\ aborted \/ pool.error # "no"
    /\ Throw(leaf.seq, "abort")
    /\ leaves' = leaves \ {leaf}
    /\ UNCHANGED << up, row, journal, inflight, aborted, engine, answers, nextSeq,
                    agentsSpawned, capExceeded, history >>

\* The leaf's own provider or tool call rejects with an abort error, unasked.
\* The engine takes it for an abort and unwinds the call, without its flag.
LeafAborts(leaf) ==
    /\ ~aborted /\ pool.error = "no" /\ failures < Failures
    /\ Throw(leaf.seq, "unasked")
    /\ leaves' = leaves \ {leaf}
    /\ failures' = failures + 1
    /\ UNCHANGED << up, row, journal, inflight, aborted, engine, answers, nextSeq,
                    agentsSpawned, capExceeded, launched, done, cutOff, lostSpawns,
                    crashes >>

\* Mutants: the first error ends the pool at once; it waits for tasks that no
\* worker will pull any more.
DrainedEagerly == pool.error # "no" \/ Running \cup Waiting = {}
DrainedOfAll == Running \cup Waiting = {}

\* runWithConcurrency is over: no leaf in flight, and none left to start.
Drained ==
    /\ Running = {}
    /\ pool.error # "no" \/ Waiting = {}

\* The host call returns into the script, or throws: the first error of the
\* pool, or the failure of the leaf of an agent().
HostReturns ==
    /\ engine = "pool" /\ Drained
    /\ LET leafFailed == pool.kind = "agent" /\ Null \in {pool.at[i] : i \in Tasks}
       IN answers' = Append(answers,
            [threw   |-> IF pool.error = "no" /\ leafFailed THEN "failed"
                                                            ELSE pool.error,
             base    |-> pool.base,
             prompts |-> pool.prompts,
             values  |-> pool.at])
    /\ pool' = NoPool
    /\ engine' = "script"
    /\ UNCHANGED << up, row, journal, inflight, aborted, nextSeq, agentsSpawned,
                    capExceeded, leaves, history >>

-----------------------------------------------------------------------------
(* The end of the run.                                                     *)

\* Mutant: what the script returned decides.
TrustTheScript(returned) ==
    IF returned THEN "completed"
    ELSE IF capExceeded THEN "cap_exceeded"
    ELSE IF aborted THEN "aborted" ELSE "failed"

\* A script can swallow the sentinel of the cap or of an abort and return: the
\* engine's own flags decide.
FinalStatus(returned) ==
    IF capExceeded THEN "cap_exceeded"
    ELSE IF aborted THEN "aborted"
    ELSE IF returned THEN "completed" ELSE "failed"

Finish(returned) ==
    /\ row' = FinishRun(FlushedRow, FinalStatus(returned))
    /\ engine' = "idle"
    /\ UNCHANGED << up, journal, inflight, aborted, answers, nextSeq,
                    agentsSpawned, capExceeded, pool, leaves, history >>

ScriptEnds ==
    /\ engine = "script"
    /\ Step.do \in {"return", "throw"}
    /\ Finish(Step.do = "return")

\* The interrupt handler of the sandbox sees the signal while the script runs;
\* the script cannot catch that.
ScriptInterrupted ==
    /\ engine = "script" /\ aborted
    /\ Finish(FALSE)

\* runToCompletion wakes the conversation, then gives the slot back.
Release ==
    /\ up /\ inflight /\ engine = "idle"
    /\ inflight' = FALSE
    /\ UNCHANGED << up, row, journal, aborted, engine, answers, nextSeq,
                    agentsSpawned, capExceeded, pool, leaves, history >>

-----------------------------------------------------------------------------
(* Crash and restart.                                                      *)

\* What the daemon held in memory is gone, and with it every spawn that no
\* flush had written.
Lose(r) ==
    /\ up /\ crashes < Crashes
    /\ up' = FALSE
    /\ crashes' = crashes + 1
    /\ row' = r
    /\ lostSpawns' = lostSpawns + IF engine = "idle" THEN 0
                                  ELSE agentsSpawned - r.agentsSpawned
    /\ inflight' = FALSE /\ aborted' = FALSE /\ engine' = "idle"
    /\ answers' = << >> /\ nextSeq' = 0 /\ agentsSpawned' = 0
    /\ capExceeded' = FALSE /\ pool' = NoPool /\ leaves' = {}
    /\ UNCHANGED << journal, launched, failures >>

Crash == Lose(row) /\ UNCHANGED << done, cutOff >>

\* A leaf has returned and the daemon dies between the two writes: the
\* counters are flushed, the journal entry is not written.
CrashBetweenWrites(leaf) ==
    /\ Lose(FlushedRow)
    /\ done' = [done EXCEPT ![leaf.prompt] = @ + 1]
    /\ cutOff' = [cutOff EXCEPT ![leaf.prompt] = @ + 1]

\* The same at the end of the script: flushed, but not finished.
CrashBeforeFinish ==
    /\ engine = "script" /\ Step.do \in {"return", "throw"}
    /\ Lose(FlushedRow)
    /\ UNCHANGED << done, cutOff >>

\* The daemon starts: reconcileOrphanedRuns marks a running row interrupted.
MarkRunningAsInterrupted(r) ==
    [r EXCEPT !.status = IF @ = "running" THEN "interrupted" ELSE @]

Boot ==
    /\ ~up
    /\ up' = TRUE
    /\ row' = MarkRunningAsInterrupted(row)
    /\ UNCHANGED << journal, memory, history >>

Next ==
    \/ Start \/ Resume \/ Abort
    \/ CallHost \/ HostReturns \/ ScriptEnds \/ ScriptInterrupted \/ Release
    \/ \E i \in Tasks : Pull(i)
    \/ \E leaf \in leaves : \/ LeafSucceeds(leaf) \/ LeafFails(leaf)
                            \/ LeafCancelled(leaf) \/ LeafAborts(leaf)
                            \/ CrashBetweenWrites(leaf)
    \/ Crash \/ CrashBeforeFinish \/ Boot

\* The event loop runs what is ready; a leaf ends in some way, as its provider
\* call has a timeout; a dead daemon is restarted by its supervisor.  Nobody
\* has to start, abort or resume a run.
Fairness ==
    /\ WF_vars(CallHost) /\ WF_vars(HostReturns) /\ WF_vars(ScriptEnds)
    /\ WF_vars(Release) /\ WF_vars(Boot)
    /\ WF_vars(\E i \in Tasks : Pull(i))
    /\ WF_vars(\E leaf \in leaves : \/ LeafSucceeds(leaf) \/ LeafFails(leaf)
                                  \/ LeafCancelled(leaf) \/ LeafAborts(leaf))

Spec == Init /\ [][Next]_vars /\ Fairness

-----------------------------------------------------------------------------
(* Properties.                                                             *)

\* Types, and that the engine is in memory only while the daemon is up and the
\* manager holds the run's controller.
WorkflowTypeOK ==
    /\ row.status \in TerminalStatuses \cup {"none", "running", "interrupted"}
    /\ row.agentsSpawned \in 0..MaxAgentsPerRun
    /\ \A s \in DOMAIN journal : /\ journal[s].call \in Prompts
                                 /\ journal[s].status \in {"completed", "failed"}
    /\ engine \in {"idle", "script", "pool"}
    /\ agentsSpawned \in 0..MaxAgentsPerRun
    /\ nextSeq \in Nat
    /\ \A i \in Tasks : pool.at[i] \in TaskStates
    /\ pool.error \in {"no", "cap", "abort", "unasked"}
    /\ engine # "idle" => up /\ inflight

\* "Rejecting eagerly would let executeWorkflow mark the run terminal and call
\* finishRun while orphaned leaves keep running" (engine.ts): a leaf is in
\* flight only under a row that says running, however the pool unwinds.
NoLeafOutlivesItsRun == leaves # {} => row.status = "running"

\* The persisted journal agrees with what the script was told, in every
\* execution and across resumes in which earlier calls come out differently:
\* each output is the answer to the very call at that place, and the row at
\* its seq records the same call and the same outcome.
JournalAgrees ==
    \A k \in DOMAIN answers :
        answers[k].threw \in {"no", "failed"} =>
            \A i \in DOMAIN answers[k].prompts :
                LET seq   == answers[k].base + i - 1
                    value == answers[k].values[i]
                IN /\ value \in {Null, answers[k].prompts[i]}
                   /\ seq \in DOMAIN journal
                   /\ journal[seq].call = answers[k].prompts[i]
                   /\ (journal[seq].status = "completed") = (value # Null)

\* The cap bounds the leaves launched over the whole life of a run, resumes
\* included, but for the launches that no flush had written when the daemon
\* died (the counters are written only when a leaf succeeds).
CapSpansRestarts == launched - lostSpawns <= MaxAgentsPerRun

\* As long as no leaf has failed, an unasked abort included, so that a resumed
\* script makes the calls it made before, a leaf that has done its work is not run again: once, and once
\* more per crash between its return and its journal entry.
WorkIsNotRepeated ==
    failures = 0 => \A p \in Prompts : done[p] <= 1 + cutOff[p]

\* A run is called completed only if no call of its script was stopped by the
\* cap or by an abort of the run, also when the script swallowed the exception.
\* A call that a leaf stopped with an abort error of its own is like one that
\* failed: no flag remembers it, and the script may swallow it and complete.
CompletedMeansWhole ==
    row.status = "completed" =>
        \A k \in DOMAIN answers : answers[k].threw \notin {"cap", "abort"}

\* A started run does not stay running: it ends, or a crash makes it
\* resumable.
RunsEnd ==
    row.status = "running" ~> row.status \in TerminalStatuses \cup {"interrupted"}

=============================================================================
