---------------------------- MODULE WorkflowProofs ----------------------------
(***************************************************************************)
(* Theorems about Workflow, for every script, cap and pool size and any    *)
(* number of crashes and failures: the types; no leaf outlives its run;    *)
(* the cap spans restarts; a completed run is whole; the journal agrees    *)
(* with what the script was told; work that was done is not done again.    *)
(***************************************************************************)
EXTENDS Workflow, SequenceTheorems, WellFoundedInduction, TLAPS

Answer == [threw   : {"no", "failed", "cap", "abort", "unasked"},
           base    : Nat,
           prompts : Seq(Prompts),
           values  : Seq(TaskStates)]

\* What the script passes to a host call, whatever it was told, are leaf calls.
ScriptOK == \A said \in Seq(Answer) : Program(said).prompts \in Seq(Prompts)

Pool == [kind    : {"agent", "parallel"},
         base    : Nat,
         prompts : Seq(Prompts),
         at      : Seq(TaskStates),
         error   : {"no", "cap", "abort", "unasked"}]

Statuses == TerminalStatuses \cup {"none", "running", "interrupted"}
Row == [status : Statuses, agentsSpawned : 0..MaxAgentsPerRun]

-----------------------------------------------------------------------------
(* The inductive invariant, in parts.                                      *)

TypeInv ==
    /\ up \in BOOLEAN /\ inflight \in BOOLEAN
    /\ aborted \in BOOLEAN /\ capExceeded \in BOOLEAN
    /\ row \in Row
    /\ DOMAIN journal \subseteq Nat
    /\ \A s \in DOMAIN journal : /\ journal[s].call \in Prompts
                                 /\ journal[s].status \in {"completed", "failed"}
    /\ engine \in {"idle", "script", "pool"}
    /\ answers \in Seq(Answer)
    /\ nextSeq \in Nat
    /\ agentsSpawned \in 0..MaxAgentsPerRun
    /\ pool \in Pool /\ Len(pool.at) = Len(pool.prompts)
    /\ leaves \subseteq [seq : Nat, prompt : Prompts]
    /\ launched \in Int /\ lostSpawns \in Int

\* A leaf is a running task of the pool.
LeafInv ==
    \A leaf \in leaves :
        \E i \in Tasks : /\ SeqOf(i) = leaf.seq
                         /\ pool.at[i] = "running"
                         /\ pool.prompts[i] = leaf.prompt

\* The engine works under a live daemon, a held slot and a row that says
\* running, and a leaf is in flight only inside a host call.
EngineInv ==
    /\ engine # "idle" => up /\ inflight /\ row.status = "running"
    /\ leaves # {} => engine = "pool"

-----------------------------------------------------------------------------
(* Operators.                                                              *)

LEMMA FunctionIsSeq ==
    ASSUME NEW S, NEW n \in Nat, NEW f \in [1..n -> S]
    PROVE  f \in Seq(S) /\ Len(f) = n
  BY SeqDef

LEMMA PoolFacts ==
    ASSUME TypeInv
    PROVE  /\ Tasks = 1..Len(pool.prompts)
           /\ Len(pool.prompts) \in Nat
           /\ pool.base \in Nat
           /\ pool.at \in [Tasks -> TaskStates]
           /\ pool.prompts \in [Tasks -> Prompts]
           /\ \A i \in Tasks : SeqOf(i) \in Nat
           /\ \A i, j \in Tasks : SeqOf(i) = SeqOf(j) => i = j
  <1>1. pool.at \in Seq(TaskStates) /\ pool.prompts \in Seq(Prompts) /\ pool.base \in Nat
    BY DEF TypeInv, Pool
  <1>2. Len(pool.at) = Len(pool.prompts)
    BY DEF TypeInv
  <1>3. QED
    BY <1>1, <1>2 DEF Tasks, SeqOf

\* Giving the task at seq another state changes that task only.
LEMMA SettleFacts ==
    ASSUME TypeInv, NEW seq, NEW to \in TaskStates, Settle(seq, to)
    PROVE  /\ pool' \in Pool /\ Len(pool'.at) = Len(pool'.prompts)
           /\ pool'.kind = pool.kind /\ pool'.base = pool.base
           /\ pool'.prompts = pool.prompts /\ pool'.error = pool.error
           /\ Tasks' = Tasks
           /\ \A i \in Tasks : SeqOf(i)' = SeqOf(i)
           /\ \A i \in Tasks : pool'.at[i] = IF SeqOf(i) = seq THEN to ELSE pool.at[i]
  <1> DEFINE at == [i \in Tasks |-> IF SeqOf(i) = seq THEN to ELSE pool.at[i]]
  <1>1. pool' = [pool EXCEPT !.at = at]
    BY DEF Settle
  <1>2. at \in Seq(TaskStates) /\ Len(at) = Len(pool.prompts)
    <2>1. at \in [1..Len(pool.prompts) -> TaskStates]
      BY PoolFacts
    <2> HIDE DEF at
    <2>2. QED BY <2>1, FunctionIsSeq, PoolFacts
  <1>3. DOMAIN at = Tasks
    OBVIOUS
  <1>4. \A i \in Tasks : at[i] = IF SeqOf(i) = seq THEN to ELSE pool.at[i]
    OBVIOUS
  <1>5. pool \in Pool
    BY DEF TypeInv
  <1> HIDE DEF at
  <1>6. QED
    BY <1>1, <1>2, <1>3, <1>4, <1>5 DEF Pool, Tasks, SeqOf

\* The same for a task that throws; the first error of the pool stays.
LEMMA ThrowFacts ==
    ASSUME TypeInv, NEW seq, NEW error \in {"cap", "abort", "unasked"}, Throw(seq, error)
    PROVE  /\ pool' \in Pool /\ Len(pool'.at) = Len(pool'.prompts)
           /\ pool'.kind = pool.kind /\ pool'.base = pool.base
           /\ pool'.prompts = pool.prompts
           /\ pool'.error = IF pool.error = "no" THEN error ELSE pool.error
           /\ pool'.error # "no"
           /\ Tasks' = Tasks
           /\ \A i \in Tasks : SeqOf(i)' = SeqOf(i)
           /\ \A i \in Tasks : pool'.at[i] = IF SeqOf(i) = seq THEN "threw" ELSE pool.at[i]
  <1> DEFINE at == [i \in Tasks |-> IF SeqOf(i) = seq THEN "threw" ELSE pool.at[i]]
  <1>1. pool' = [pool EXCEPT !.at = at, !.error = IF pool.error = "no" THEN error ELSE pool.error]
    BY DEF Throw
  <1>2. at \in Seq(TaskStates) /\ Len(at) = Len(pool.prompts)
    <2>1. at \in [1..Len(pool.prompts) -> TaskStates]
      BY PoolFacts DEF TaskStates
    <2> HIDE DEF at
    <2>2. QED BY <2>1, FunctionIsSeq, PoolFacts
  <1>3. DOMAIN at = Tasks
    OBVIOUS
  <1>4. \A i \in Tasks : at[i] = IF SeqOf(i) = seq THEN "threw" ELSE pool.at[i]
    OBVIOUS
  <1>5. pool \in Pool
    BY DEF TypeInv
  <1> HIDE DEF at
  <1>6. QED
    BY <1>1, <1>2, <1>3, <1>4, <1>5 DEF Pool, Tasks, SeqOf

LEMMA JournalFacts ==
    ASSUME NEW seq, NEW prompt, NEW status,
           journal' = AppendJournalEntry(seq, prompt, status)
    PROVE  /\ DOMAIN journal' = DOMAIN journal \cup {seq}
           /\ journal'[seq] = [call |-> prompt, status |-> status]
           /\ \A s \in DOMAIN journal : s # seq => journal'[s] = journal[s]
  BY DEF AppendJournalEntry

LEMMA NoPoolFacts == NoPool \in Pool /\ Len(NoPool.at) = 0 /\ Len(NoPool.prompts) = 0
  BY DEF NoPool, Pool

LEMMA RowFacts ==
    ASSUME TypeInv
    PROVE  /\ FlushedRow \in Row
           /\ FlushedRow.status = row.status
           /\ FlushedRow.agentsSpawned = agentsSpawned
           /\ row \in Row
           /\ \A s \in Statuses : [row EXCEPT !.status = s] \in Row
           /\ \A s \in Statuses : /\ FinishRun(FlushedRow, s) \in Row
                                  /\ FinishRun(FlushedRow, s).status = s
                                  /\ FinishRun(FlushedRow, s).agentsSpawned = agentsSpawned
  BY DEF TypeInv, FlushedRow, FinishRun, Row

-----------------------------------------------------------------------------
(* Types.                                                                  *)

LEMMA TypeInit == Init => TypeInv
  <1> SUFFICES ASSUME Init PROVE TypeInv
    OBVIOUS
  <1>1. row \in Row
    BY WorkflowConstants DEF Init, Row, Statuses
  <1>2. /\ agentsSpawned \in 0..MaxAgentsPerRun /\ nextSeq \in Nat
        /\ launched \in Int /\ lostSpawns \in Int
    BY WorkflowConstants DEF Init
  <1>3. answers \in Seq(Answer) /\ DOMAIN journal = {}
    BY DEF Init
  <1>4. QED
    BY <1>1, <1>2, <1>3, NoPoolFacts DEF Init, TypeInv

LEMMA LaunchType ==
    ASSUME TypeInv, Launch(row)
    PROVE  TypeInv'
  <1>1. row' \in Row /\ agentsSpawned' \in 0..MaxAgentsPerRun
    <2>1. row' = [row EXCEPT !.status = "running"] /\ agentsSpawned' = row.agentsSpawned
      BY DEF Launch, SeedCounters
    <2>2. "running" \in Statuses
      BY DEF Statuses
    <2>3. row.agentsSpawned \in 0..MaxAgentsPerRun
      BY DEF TypeInv, Row
    <2>4. QED BY <2>1, <2>2, <2>3, RowFacts
  <1>2. nextSeq' \in Nat /\ answers' \in Seq(Answer)
    BY DEF Launch, FirstSeq
  <1>3. pool' \in Pool /\ Len(pool'.at) = Len(pool'.prompts)
    BY NoPoolFacts DEF Launch
  <1>4. QED
    BY <1>1, <1>2, <1>3 DEF Launch, TypeInv, history

LEMMA LoseType ==
    ASSUME TypeInv, NEW r \in Row, Lose(r)
    PROVE  TypeInv'
  <1>1. pool' \in Pool /\ Len(pool'.at) = Len(pool'.prompts)
    BY NoPoolFacts DEF Lose
  <1>2. agentsSpawned' \in 0..MaxAgentsPerRun
    BY WorkflowConstants DEF Lose
  <1>3. answers' \in Seq(Answer) /\ nextSeq' \in Nat /\ leaves' = {}
    BY DEF Lose
  <1>4. launched' \in Int /\ lostSpawns' \in Int
    <2>1. agentsSpawned \in Int /\ r.agentsSpawned \in Int /\ lostSpawns \in Int
      BY DEF TypeInv, Row
    <2>2. QED BY <2>1 DEF Lose, TypeInv
  <1>5. QED
    BY <1>1, <1>2, <1>3, <1>4 DEF Lose, TypeInv

LEMMA JournalType ==
    ASSUME TypeInv, NEW leaf \in leaves, NEW status \in {"completed", "failed"},
           journal' = AppendJournalEntry(leaf.seq, leaf.prompt, status)
    PROVE  /\ DOMAIN journal' \subseteq Nat
           /\ \A s \in DOMAIN journal' : /\ journal'[s].call \in Prompts
                                         /\ journal'[s].status \in {"completed", "failed"}
  <1>1. leaf.seq \in Nat /\ leaf.prompt \in Prompts
    BY DEF TypeInv
  <1>2. /\ DOMAIN journal' = DOMAIN journal \cup {leaf.seq}
        /\ journal'[leaf.seq] = [call |-> leaf.prompt, status |-> status]
        /\ \A s \in DOMAIN journal : s # leaf.seq => journal'[s] = journal[s]
    BY JournalFacts
  <1>3. QED
    BY <1>1, <1>2 DEF TypeInv

\* The four ways in which a free worker's pull can go.
LEMMA PullCases ==
    ASSUME TypeInv, NEW i \in Tasks, Pull(i)
    PROVE  /\ engine = "pool" /\ pool.error = "no" /\ pool.at[i] = "waiting"
           /\ \/ /\ aborted /\ Throw(SeqOf(i), "abort")
                 /\ UNCHANGED << leaves, capExceeded, agentsSpawned, launched >>
              \/ /\ ~aborted /\ Replayable(SeqOf(i), pool.prompts[i])
                 /\ Settle(SeqOf(i), pool.prompts[i])
                 /\ UNCHANGED << leaves, capExceeded, agentsSpawned, launched >>
              \/ /\ ~aborted /\ CapReached /\ capExceeded' = TRUE
                 /\ Throw(SeqOf(i), "cap")
                 /\ UNCHANGED << leaves, agentsSpawned, launched >>
              \/ /\ ~aborted /\ ~Replayable(SeqOf(i), pool.prompts[i]) /\ ~CapReached
                 /\ Settle(SeqOf(i), "running")
                 /\ leaves' = leaves \cup {[seq |-> SeqOf(i), prompt |-> pool.prompts[i]]}
                 /\ agentsSpawned' = agentsSpawned + 1 /\ launched' = launched + 1
                 /\ UNCHANGED capExceeded
           /\ UNCHANGED << up, row, journal, inflight, aborted, engine, answers, nextSeq,
                           done, cutOff, lostSpawns, failures, crashes >>
  <1>1. /\ engine = "pool" /\ pool.error = "no" /\ pool.at[i] = "waiting"
        /\ UNCHANGED << up, row, journal, inflight, aborted, engine, answers, nextSeq,
                        done, cutOff, lostSpawns, failures, crashes >>
    BY DEF Pull, Waiting
  <1> DEFINE cached == ~aborted /\ Replayable(SeqOf(i), pool.prompts[i])
             capped == ~aborted /\ ~cached /\ CapReached
             starts == ~aborted /\ ~cached /\ ~capped
  <1>2. /\ \/ aborted /\ Throw(SeqOf(i), "abort")
           \/ cached /\ Settle(SeqOf(i), journal[SeqOf(i)].call)
           \/ capped /\ Throw(SeqOf(i), "cap")
           \/ starts /\ Settle(SeqOf(i), "running")
        /\ leaves' = leaves \cup {[seq |-> q, prompt |-> pool.prompts[i]] :
                                   q \in IF starts THEN {SeqOf(i)} ELSE {}}
        /\ capExceeded' = (capExceeded \/ capped)
        /\ agentsSpawned' = agentsSpawned + IF starts THEN 1 ELSE 0
        /\ launched' = launched + IF starts THEN 1 ELSE 0
    BY DEF Pull
  <1>3. ASSUME ~starts
        PROVE  UNCHANGED << leaves, agentsSpawned, launched >>
    <2>1. leaves' = leaves
      BY <1>2, <1>3
    <2>2. agentsSpawned \in Int /\ launched \in Int
      BY DEF TypeInv
    <2>3. agentsSpawned' = agentsSpawned + 0 /\ launched' = launched + 0
      BY <1>2, <1>3
    <2>4. QED BY <2>1, <2>2, <2>3
  <1>4. aborted \in BOOLEAN /\ capExceeded \in BOOLEAN
    BY DEF TypeInv
  <1>5. CASE aborted
    BY <1>1, <1>2, <1>3, <1>4, <1>5
  <1>6. CASE cached
    <2>1. journal[SeqOf(i)].call = pool.prompts[i]
      BY <1>6 DEF Replayable
    <2>2. QED BY <1>1, <1>2, <1>3, <1>4, <1>6, <2>1
  <1>7. CASE capped
    BY <1>1, <1>2, <1>3, <1>4, <1>7
  <1>8. CASE starts
    <2>1. {[seq |-> q, prompt |-> pool.prompts[i]] : q \in IF starts THEN {SeqOf(i)} ELSE {}}
            = {[seq |-> SeqOf(i), prompt |-> pool.prompts[i]]}
      BY <1>8
    <2>2. QED BY <1>1, <1>2, <1>4, <1>8, <2>1
  <1>9. QED
    BY <1>5, <1>6, <1>7, <1>8

LEMMA PullType ==
    ASSUME TypeInv, NEW i \in Tasks, Pull(i)
    PROVE  TypeInv'
  <1> USE DEF TypeInv
  <1>1. pool.prompts[i] \in Prompts /\ SeqOf(i) \in Nat
    BY PoolFacts
  <1>2. /\ pool.prompts[i] \in TaskStates /\ "running" \in TaskStates
    BY <1>1 DEF TaskStates, Outcomes
  <1>3. pool' \in Pool /\ Len(pool'.at) = Len(pool'.prompts)
    BY <1>2, PullCases, SettleFacts, ThrowFacts
  <1>4. leaves' \subseteq [seq : Nat, prompt : Prompts]
    <2>1. [seq |-> SeqOf(i), prompt |-> pool.prompts[i]] \in [seq : Nat, prompt : Prompts]
      BY <1>1
    <2>2. leaves \subseteq [seq : Nat, prompt : Prompts]
      OBVIOUS
    <2>3. leaves' \in {leaves, leaves \cup {[seq |-> SeqOf(i), prompt |-> pool.prompts[i]]}}
      BY PullCases
    <2>4. QED BY <2>1, <2>2, <2>3
  <1>5. agentsSpawned' \in 0..MaxAgentsPerRun
    <2>1. agentsSpawned \in 0..MaxAgentsPerRun /\ MaxAgentsPerRun \in Nat
      BY WorkflowConstants
    <2>2. \/ agentsSpawned' = agentsSpawned
          \/ agentsSpawned' = agentsSpawned + 1 /\ ~(agentsSpawned >= MaxAgentsPerRun)
      BY PullCases DEF CapReached
    <2>3. QED BY <2>1, <2>2
  <1>6. capExceeded' \in BOOLEAN /\ launched' \in Int
    <2>1. capExceeded \in BOOLEAN /\ launched \in Int
      OBVIOUS
    <2>2. capExceeded' \in {capExceeded, TRUE} /\ launched' \in {launched, launched + 1}
      BY PullCases
    <2>3. capExceeded' \in BOOLEAN
      BY <2>1, <2>2, Zenon
    <2>4. QED BY <2>1, <2>2, <2>3
  <1>7. QED
    BY <1>3, <1>4, <1>5, <1>6, PullCases

LEMMA TypeStep ==
    ASSUME ScriptOK, TypeInv, [Next]_vars
    PROVE  TypeInv'
  <1>1. CASE Start
    BY <1>1, LaunchType DEF Start
  <1>2. CASE Resume
    BY <1>2, LaunchType DEF Resume
  <1>3. CASE Abort
    BY <1>3 DEF Abort, TypeInv, history
  <1>4. CASE CallHost
    <2> DEFINE new == [i \in DOMAIN Step.prompts |-> "waiting"]
    <2>1. Step.prompts \in Seq(Prompts)
      BY DEF ScriptOK, TypeInv, Step
    <2>2. new \in Seq(TaskStates) /\ Len(new) = Len(Step.prompts)
      <3>1. DOMAIN Step.prompts = 1..Len(Step.prompts) /\ Len(Step.prompts) \in Nat
        BY <2>1
      <3>2. new \in [1..Len(Step.prompts) -> TaskStates]
        BY <3>1 DEF TaskStates
      <3> HIDE DEF new
      <3>3. QED BY <3>1, <3>2, FunctionIsSeq
    <2>3. pool' = [kind |-> Step.do, base |-> nextSeq, prompts |-> Step.prompts,
                   at |-> new, error |-> "no"]
      BY <1>4 DEF CallHost
    <2>4. Step.do \in {"agent", "parallel"} /\ nextSeq \in Nat
      BY <1>4 DEF CallHost, TypeInv
    <2> HIDE DEF new
    <2>5. pool' \in Pool /\ Len(pool'.at) = Len(pool'.prompts)
      BY <2>1, <2>2, <2>3, <2>4 DEF Pool
    <2>6. nextSeq' \in Nat
      BY <1>4, <2>1, <2>4 DEF CallHost
    <2>7. QED
      BY <1>4, <2>5, <2>6 DEF CallHost, TypeInv, history
  <1>5. CASE HostReturns
    <2> DEFINE threw == IF pool.error = "no" /\ pool.kind = "agent"
                           /\ Null \in {pool.at[i] : i \in Tasks} THEN "failed" ELSE pool.error
               answer == [threw |-> threw, base |-> pool.base, prompts |-> pool.prompts,
                          values |-> pool.at]
    <2>1. answers' = Append(answers, answer)
      BY <1>5 DEF HostReturns
    <2>2. threw \in {"no", "failed", "cap", "abort", "unasked"}
      BY DEF TypeInv, Pool
    <2>3. answer \in Answer
      <3> HIDE DEF threw
      <3>1. QED BY <2>2 DEF TypeInv, Pool, Answer
    <2> HIDE DEF answer
    <2>4. answers' \in Seq(Answer)
      BY <2>1, <2>3 DEF TypeInv
    <2>5. QED
      BY <1>5, <2>4, NoPoolFacts DEF HostReturns, TypeInv, history
  <1>6. ASSUME NEW returned \in BOOLEAN, Finish(returned)
        PROVE  TypeInv'
    <2>1. FinalStatus(returned) \in Statuses
      BY DEF FinalStatus, Statuses, TerminalStatuses
    <2>2. row' \in Row
      BY <1>6, <2>1, RowFacts DEF Finish
    <2>3. QED
      BY <1>6, <2>2 DEF Finish, TypeInv, history
  <1>7. CASE ScriptEnds
    BY <1>6, <1>7 DEF ScriptEnds
  <1>8. CASE ScriptInterrupted
    BY <1>6, <1>8 DEF ScriptInterrupted
  <1>9. CASE Release
    BY <1>9 DEF Release, TypeInv, history
  <1>10. CASE \E i \in Tasks : Pull(i)
    BY <1>10, PullType
  <1>11. ASSUME NEW leaf \in leaves, LeafSucceeds(leaf)
         PROVE  TypeInv'
    <2>1. leaf.prompt \in TaskStates
      BY DEF TypeInv, TaskStates, Outcomes
    <2>2. pool' \in Pool /\ Len(pool'.at) = Len(pool'.prompts)
      BY <1>11, <2>1, SettleFacts DEF LeafSucceeds
    <2>3. row' \in Row
      BY <1>11, RowFacts DEF LeafSucceeds
    <2>4. QED
      BY <1>11, <2>2, <2>3, JournalType DEF LeafSucceeds, TypeInv
  <1>12. ASSUME NEW leaf \in leaves, LeafFails(leaf)
         PROVE  TypeInv'
    <2>1. Null \in TaskStates
      BY DEF TaskStates, Outcomes
    <2>2. pool' \in Pool /\ Len(pool'.at) = Len(pool'.prompts)
      BY <1>12, <2>1, SettleFacts DEF LeafFails
    <2>3. QED
      BY <1>12, <2>2, JournalType DEF LeafFails, TypeInv
  <1>13. ASSUME NEW leaf \in leaves, LeafCancelled(leaf) \/ LeafAborts(leaf)
         PROVE  TypeInv'
    <2>1. pool' \in Pool /\ Len(pool'.at) = Len(pool'.prompts)
      BY <1>13, ThrowFacts DEF LeafCancelled, LeafAborts
    <2>2. QED
      BY <1>13, <2>1 DEF LeafCancelled, LeafAborts, TypeInv, history
  <1>14. ASSUME NEW leaf \in leaves, CrashBetweenWrites(leaf)
         PROVE  TypeInv'
    BY <1>14, LoseType, RowFacts DEF CrashBetweenWrites
  <1>15. CASE Crash
    BY <1>15, LoseType, RowFacts DEF Crash
  <1>16. CASE CrashBeforeFinish
    BY <1>16, LoseType, RowFacts DEF CrashBeforeFinish
  <1>17. CASE Boot
    <2>1. row' \in Row
      BY <1>17, RowFacts DEF Boot, MarkRunningAsInterrupted, Row, Statuses
    <2>2. QED
      BY <1>17, <2>1 DEF Boot, TypeInv, memory, history
  <1>18. CASE UNCHANGED vars
    BY <1>18 DEF vars, memory, history, TypeInv
  <1>19. QED
    BY <1>1, <1>2, <1>3, <1>4, <1>5, <1>7, <1>8, <1>9, <1>10, <1>11, <1>12, <1>13,
       <1>14, <1>15, <1>16, <1>17, <1>18 DEF Next

LEMMA Typed == ScriptOK => (Spec => []TypeInv)
  <1> SUFFICES ASSUME ScriptOK PROVE Spec => []TypeInv
    OBVIOUS
  <1>1. TypeInv /\ [Next]_vars => TypeInv'
    BY TypeStep
  <1>2. QED
    BY <1>1, TypeInit, PTL DEF Spec

-----------------------------------------------------------------------------
(* Leaves stay inside their run.                                           *)

\* Ending the task of one leaf leaves the others running.
LEMMA LeafEnds ==
    ASSUME TypeInv, LeafInv, NEW leaf \in leaves, leaves' = leaves \ {leaf},
           Tasks' = Tasks, pool'.prompts = pool.prompts,
           \A i \in Tasks : SeqOf(i)' = SeqOf(i),
           \A i \in Tasks : SeqOf(i) # leaf.seq => pool'.at[i] = pool.at[i]
    PROVE  LeafInv'
  <1> SUFFICES ASSUME NEW l \in leaves'
               PROVE  \E i \in Tasks : /\ SeqOf(i) = l.seq
                                       /\ pool'.at[i] = "running"
                                       /\ pool'.prompts[i] = l.prompt
    BY DEF LeafInv
  <1>1. l \in leaves /\ l # leaf
    OBVIOUS
  <1>2. PICK i \in Tasks : /\ SeqOf(i) = l.seq /\ pool.at[i] = "running"
                           /\ pool.prompts[i] = l.prompt
    BY <1>1 DEF LeafInv
  <1>3. PICK j \in Tasks : SeqOf(j) = leaf.seq /\ pool.prompts[j] = leaf.prompt
    BY DEF LeafInv
  <1>4. SeqOf(i) # leaf.seq
    <2>1. SUFFICES ASSUME SeqOf(i) = leaf.seq PROVE FALSE
      OBVIOUS
    <2>2. i = j
      BY <1>3, <2>1, PoolFacts
    <2>3. l.seq = leaf.seq /\ l.prompt = leaf.prompt
      BY <1>2, <1>3, <2>1, <2>2
    <2>4. l \in [seq : Nat, prompt : Prompts] /\ leaf \in [seq : Nat, prompt : Prompts]
      BY <1>1 DEF TypeInv
    <2>5. QED BY <1>1, <2>3, <2>4
  <1>5. QED
    BY <1>2, <1>4

LEMMA NoLeaves ==
    ASSUME EngineInv, engine # "pool"
    PROVE  leaves = {}
  BY DEF EngineInv

LEMMA LeafStep ==
    ASSUME TypeInv, LeafInv, EngineInv, [Next]_vars
    PROVE  LeafInv' /\ EngineInv'
  <1>1. ASSUME up, row.status # "running", Launch(row)
        PROVE  LeafInv' /\ EngineInv'
    <2>1. leaves' = {}
      BY <1>1, NoLeaves DEF Launch, EngineInv, TypeInv
    <2>2. row'.status = "running" /\ inflight' /\ up'
      BY <1>1 DEF Launch, TypeInv, Row
    <2>3. LeafInv'
      BY <2>1 DEF LeafInv
    <2>4. QED
      BY <2>1, <2>2, <2>3 DEF EngineInv
  <1>2. CASE Start
    BY <1>1, <1>2 DEF Start
  <1>3. CASE Resume
    BY <1>1, <1>3 DEF Resume
  <1>4. CASE UNCHANGED << up, row, inflight, engine, pool, leaves >>
    BY <1>4 DEF LeafInv, EngineInv, Tasks, SeqOf
  <1>5. CASE Abort
    BY <1>4, <1>5 DEF Abort
  <1>6. CASE CallHost
    <2>1. leaves' = {}
      BY <1>6, NoLeaves DEF CallHost
    <2>2. QED
      BY <1>6, <2>1 DEF CallHost, LeafInv, EngineInv
  <1>7. CASE HostReturns
    <2>1. \A i \in Tasks : pool.at[i] # "running"
      BY <1>7 DEF HostReturns, Drained, Running
    <2>2. leaves = {}
      BY <2>1 DEF LeafInv
    <2>3. QED
      BY <1>7, <2>2 DEF HostReturns, LeafInv, EngineInv
  <1>8. ASSUME NEW returned \in BOOLEAN, engine = "script", Finish(returned)
        PROVE  LeafInv' /\ EngineInv'
    BY <1>8, NoLeaves DEF Finish, LeafInv, EngineInv
  <1>9. CASE ScriptEnds
    BY <1>8, <1>9 DEF ScriptEnds
  <1>10. CASE ScriptInterrupted
    BY <1>8, <1>10 DEF ScriptInterrupted
  <1>11. CASE Release
    BY <1>11, NoLeaves DEF Release, LeafInv, EngineInv
  <1>12. ASSUME NEW i \in Tasks, Pull(i)
         PROVE  LeafInv' /\ EngineInv'
    <2>1. /\ engine = "pool" /\ pool.at[i] = "waiting"
          /\ UNCHANGED << up, row, inflight, engine >>
      BY <1>12, PullCases
    <2>2. "running" \in TaskStates /\ pool.prompts[i] \in TaskStates
      BY PoolFacts DEF TaskStates, Outcomes
    <2>3. /\ Tasks' = Tasks /\ pool'.prompts = pool.prompts
          /\ \A k \in Tasks : SeqOf(k)' = SeqOf(k)
          /\ \A k \in Tasks : SeqOf(k) # SeqOf(i) => pool'.at[k] = pool.at[k]
      BY <1>12, <2>2, PullCases, SettleFacts, ThrowFacts
    <2>4. \A k \in Tasks : pool.at[k] = "running" => pool'.at[k] = "running"
      BY <2>1, <2>3, PoolFacts
    <2>5. ASSUME NEW leaf \in leaves
          PROVE  \E k \in Tasks' : /\ SeqOf(k)' = leaf.seq /\ pool'.at[k] = "running"
                                   /\ pool'.prompts[k] = leaf.prompt
      <3>1. PICK k \in Tasks : /\ SeqOf(k) = leaf.seq /\ pool.at[k] = "running"
                               /\ pool.prompts[k] = leaf.prompt
        BY DEF LeafInv
      <3>2. QED BY <3>1, <2>3, <2>4
    <2>6. CASE leaves' = leaves
      BY <2>1, <2>5, <2>6 DEF LeafInv, EngineInv
    <2>7. CASE /\ Settle(SeqOf(i), "running")
               /\ leaves' = leaves \cup {[seq |-> SeqOf(i), prompt |-> pool.prompts[i]]}
      <3>1. pool'.at[i] = "running"
        BY <2>2, <2>7, SettleFacts
      <3>2. LeafInv'
        BY <2>3, <2>5, <2>7, <3>1 DEF LeafInv
      <3>3. QED
        BY <2>1, <3>2 DEF EngineInv
    <2>8. QED
      BY <1>12, <2>6, <2>7, PullCases
  <1>13. ASSUME NEW leaf \in leaves, LeafSucceeds(leaf)
         PROVE  LeafInv' /\ EngineInv'
    <2>1. leaf.prompt \in TaskStates
      BY DEF TypeInv, TaskStates, Outcomes
    <2>2. LeafInv'
      BY <1>13, <2>1, SettleFacts, LeafEnds DEF LeafSucceeds
    <2>3. row'.status = row.status
      BY <1>13, RowFacts DEF LeafSucceeds
    <2>4. QED
      BY <1>13, <2>2, <2>3 DEF LeafSucceeds, EngineInv
  <1>14. ASSUME NEW leaf \in leaves, LeafFails(leaf)
         PROVE  LeafInv' /\ EngineInv'
    <2>1. Null \in TaskStates
      BY DEF TaskStates, Outcomes
    <2>2. LeafInv'
      BY <1>14, <2>1, SettleFacts, LeafEnds DEF LeafFails
    <2>3. QED
      BY <1>14, <2>2 DEF LeafFails, EngineInv
  <1>15. ASSUME NEW leaf \in leaves, LeafCancelled(leaf) \/ LeafAborts(leaf)
         PROVE  LeafInv' /\ EngineInv'
    <2>1. LeafInv'
      BY <1>15, ThrowFacts, LeafEnds DEF LeafCancelled, LeafAborts
    <2>2. QED
      BY <1>15, <2>1 DEF LeafCancelled, LeafAborts, EngineInv
  <1>16. ASSUME NEW r, Lose(r)
         PROVE  LeafInv' /\ EngineInv'
    BY <1>16 DEF Lose, LeafInv, EngineInv
  <1>17. CASE \/ \E leaf \in leaves : CrashBetweenWrites(leaf)
              \/ Crash \/ CrashBeforeFinish
    BY <1>16, <1>17 DEF CrashBetweenWrites, Crash, CrashBeforeFinish
  <1>18. CASE Boot
    <2>1. engine = "idle" /\ leaves = {}
      BY <1>18, NoLeaves DEF Boot, EngineInv
    <2>2. QED
      BY <1>18, <2>1 DEF Boot, memory, LeafInv, EngineInv
  <1>19. CASE UNCHANGED vars
    BY <1>4, <1>19 DEF vars, memory
  <1>20. QED
    BY <1>2, <1>3, <1>5, <1>6, <1>7, <1>9, <1>10, <1>11, <1>12, <1>13, <1>14, <1>15,
       <1>17, <1>18, <1>19 DEF Next

-----------------------------------------------------------------------------
(* The cap.                                                                *)

\* The launches that were not lost are the ones the counter knows: the
\* engine's while it works, the row's otherwise.
CapInv ==
    launched - lostSpawns = IF engine = "idle" THEN row.agentsSpawned ELSE agentsSpawned

LEMMA CapStep ==
    ASSUME TypeInv, EngineInv, CapInv, [Next]_vars
    PROVE  CapInv'
  <1> USE DEF CapInv
  <1>1. /\ row.agentsSpawned \in Int /\ agentsSpawned \in Int
        /\ launched \in Int /\ lostSpawns \in Int
    BY DEF TypeInv, Row
  <1>2. ASSUME row.status # "running", Launch(row)
        PROVE  CapInv'
    <2>1. engine = "idle"
      BY <1>2 DEF EngineInv
    <2>2. QED
      BY <1>2, <2>1 DEF Launch, SeedCounters, history
  <1>3. CASE Start \/ Resume
    BY <1>2, <1>3 DEF Start, Resume
  <1>4. CASE UNCHANGED << engine, row, agentsSpawned, launched, lostSpawns >>
    BY <1>4
  <1>5. CASE Abort \/ Release
    BY <1>4, <1>5 DEF Abort, Release, history
  <1>6. CASE CallHost
    BY <1>6 DEF CallHost, history
  <1>7. CASE HostReturns
    BY <1>7 DEF HostReturns, history
  <1>8. ASSUME NEW returned \in BOOLEAN, engine = "script", Finish(returned)
        PROVE  CapInv'
    <2>1. FinalStatus(returned) \in Statuses
      BY DEF FinalStatus, Statuses, TerminalStatuses
    <2>2. row'.agentsSpawned = agentsSpawned
      BY <1>8, <2>1, RowFacts DEF Finish
    <2>3. QED
      BY <1>8, <2>2 DEF Finish, history
  <1>9. CASE ScriptEnds \/ ScriptInterrupted
    BY <1>8, <1>9 DEF ScriptEnds, ScriptInterrupted
  <1>10. ASSUME NEW i \in Tasks, Pull(i)
         PROVE  CapInv'
    <2>1. /\ engine = "pool" /\ engine' = engine /\ lostSpawns' = lostSpawns
          /\ \/ agentsSpawned' = agentsSpawned /\ launched' = launched
             \/ agentsSpawned' = agentsSpawned + 1 /\ launched' = launched + 1
      BY <1>10, PullCases
    <2>2. QED BY <1>1, <2>1
  <1>11. ASSUME NEW leaf \in leaves, \/ LeafSucceeds(leaf) \/ LeafFails(leaf)
                                     \/ LeafCancelled(leaf) \/ LeafAborts(leaf)
         PROVE  CapInv'
    <2>1. engine = "pool"
      BY DEF EngineInv
    <2>2. QED
      BY <1>11, <2>1 DEF LeafSucceeds, LeafFails, LeafCancelled, LeafAborts, history
  <1>12. ASSUME NEW r \in Row, Lose(r), engine = "idle" => r.agentsSpawned = row.agentsSpawned
         PROVE  CapInv'
    <2>1. r.agentsSpawned \in Int
      BY DEF Row
    <2>2. QED
      BY <1>1, <1>12, <2>1 DEF Lose
  <1>13. ASSUME NEW leaf \in leaves, CrashBetweenWrites(leaf)
         PROVE  CapInv'
    <2>1. engine = "pool"
      BY DEF EngineInv
    <2>2. QED
      BY <1>12, <1>13, <2>1, RowFacts DEF CrashBetweenWrites
  <1>14. CASE Crash
    BY <1>12, <1>14, RowFacts DEF Crash
  <1>15. CASE CrashBeforeFinish
    BY <1>12, <1>15, RowFacts DEF CrashBeforeFinish
  <1>16. CASE Boot
    <2>1. row'.agentsSpawned = row.agentsSpawned
      BY <1>16 DEF Boot, MarkRunningAsInterrupted, TypeInv, Row
    <2>2. QED
      BY <1>16, <2>1 DEF Boot, memory, history
  <1>17. CASE UNCHANGED vars
    BY <1>4, <1>17 DEF vars, memory, history
  <1>18. QED
    BY <1>3, <1>5, <1>6, <1>7, <1>9, <1>10, <1>11, <1>13, <1>14, <1>15, <1>16, <1>17
       DEF Next

-----------------------------------------------------------------------------
(* What stopped a call is remembered until the run ends.                   *)

StopInv ==
    /\ engine = "pool" => /\ pool.error = "cap" => capExceeded
                          /\ pool.error = "abort" => aborted
    /\ engine # "idle" => \A k \in DOMAIN answers :
                              /\ answers[k].threw = "cap" => capExceeded
                              /\ answers[k].threw = "abort" => aborted
    /\ CompletedMeansWhole

LEMMA StopStep ==
    ASSUME TypeInv, EngineInv, StopInv, [Next]_vars
    PROVE  StopInv'
  <1>1. ASSUME row.status # "running", Launch(row)
        PROVE  StopInv'
    BY <1>1 DEF Launch, StopInv, CompletedMeansWhole
  <1>2. CASE Start \/ Resume
    BY <1>1, <1>2 DEF Start, Resume
  <1>3. CASE Abort
    BY <1>3 DEF Abort, StopInv, CompletedMeansWhole
  <1>4. CASE CallHost
    BY <1>4 DEF CallHost, StopInv, CompletedMeansWhole
  <1>5. CASE HostReturns
    <2>1. PICK answer : /\ answers' = Append(answers, answer)
                        /\ answer.threw \in {"failed", pool.error}
      BY <1>5 DEF HostReturns
    <2>2. answers \in Seq(Answer)
      BY DEF TypeInv
    <2>3. \A k \in DOMAIN answers' : \/ k \in DOMAIN answers /\ answers'[k] = answers[k]
                                     \/ answers'[k] = answer
      BY <2>1, <2>2
    <2>4. row.status = "running"
      BY <1>5 DEF HostReturns, EngineInv
    <2>5. QED
      BY <1>5, <2>1, <2>3, <2>4 DEF HostReturns, StopInv, CompletedMeansWhole
  <1>6. ASSUME NEW returned \in BOOLEAN, engine = "script", Finish(returned)
        PROVE  StopInv'
    <2>1. FinalStatus(returned) \in Statuses
      BY DEF FinalStatus, Statuses, TerminalStatuses
    <2>2. row'.status = FinalStatus(returned)
      BY <1>6, <2>1, RowFacts DEF Finish
    <2>3. row'.status = "completed" => ~capExceeded /\ ~aborted
      BY <2>2 DEF FinalStatus
    <2>4. answers \in Seq(Answer)
      BY DEF TypeInv
    <2>5. \A k \in DOMAIN answers : answers[k].threw \in {"no", "failed", "cap", "abort", "unasked"}
      <3>1. \A k \in DOMAIN answers : answers[k] \in Answer
        BY <2>4
      <3>2. QED BY <3>1 DEF Answer
    <2>6. QED
      BY <1>6, <2>3, <2>5 DEF Finish, StopInv, CompletedMeansWhole
  <1>7. CASE ScriptEnds \/ ScriptInterrupted
    BY <1>6, <1>7 DEF ScriptEnds, ScriptInterrupted
  <1>8. CASE Release
    BY <1>8 DEF Release, StopInv, CompletedMeansWhole
  <1>9. ASSUME NEW i \in Tasks, Pull(i)
        PROVE  StopInv'
    <2>1. "running" \in TaskStates /\ pool.prompts[i] \in TaskStates
      BY PoolFacts DEF TaskStates, Outcomes
    <2>2. /\ engine = "pool" /\ pool.error = "no"
          /\ UNCHANGED << row, aborted, engine, answers >>
      BY <1>9, PullCases
    <2>3. \/ pool'.error = "no" /\ capExceeded' = capExceeded
          \/ pool'.error = "abort" /\ aborted /\ capExceeded' = capExceeded
          \/ pool'.error = "cap" /\ capExceeded' = TRUE
      BY <1>9, <2>1, <2>2, PullCases, SettleFacts, ThrowFacts
    <2>4. QED
      BY <2>2, <2>3 DEF StopInv, CompletedMeansWhole
  <1>10. ASSUME NEW leaf \in leaves, LeafSucceeds(leaf) \/ LeafFails(leaf)
         PROVE  StopInv'
    <2>1. leaf.prompt \in TaskStates /\ Null \in TaskStates
      BY DEF TypeInv, TaskStates, Outcomes
    <2>2. pool'.error = pool.error
      BY <1>10, <2>1, SettleFacts DEF LeafSucceeds, LeafFails
    <2>3. row'.status = row.status
      BY <1>10, RowFacts DEF LeafSucceeds, LeafFails
    <2>4. UNCHANGED << aborted, engine, answers, capExceeded >>
      BY <1>10 DEF LeafSucceeds, LeafFails
    <2>5. QED
      BY <2>2, <2>3, <2>4 DEF StopInv, CompletedMeansWhole
  <1>11. ASSUME NEW leaf \in leaves, LeafCancelled(leaf) \/ LeafAborts(leaf)
         PROVE  StopInv'
    <2>1. \/ pool'.error = pool.error
          \/ pool'.error = "abort" /\ aborted
          \/ pool'.error = "unasked"
      BY <1>11, ThrowFacts DEF LeafCancelled, LeafAborts
    <2>2. UNCHANGED << row, aborted, engine, answers, capExceeded >>
      BY <1>11 DEF LeafCancelled, LeafAborts
    <2>3. QED
      BY <2>1, <2>2 DEF StopInv, CompletedMeansWhole
  <1>12. ASSUME NEW r, Lose(r)
         PROVE  StopInv'
    BY <1>12 DEF Lose, StopInv, CompletedMeansWhole
  <1>13. CASE \/ \E leaf \in leaves : CrashBetweenWrites(leaf)
              \/ Crash \/ CrashBeforeFinish
    BY <1>12, <1>13 DEF CrashBetweenWrites, Crash, CrashBeforeFinish
  <1>14. CASE Boot
    <2>1. row'.status = "completed" => row.status = "completed"
      BY <1>14 DEF Boot, MarkRunningAsInterrupted, TypeInv, Row
    <2>2. QED
      BY <1>14, <2>1 DEF Boot, memory, StopInv, CompletedMeansWhole
  <1>15. CASE UNCHANGED vars
    BY <1>15 DEF vars, memory, StopInv, CompletedMeansWhole
  <1>16. QED
    BY <1>2, <1>3, <1>4, <1>5, <1>7, <1>8, <1>9, <1>10, <1>11, <1>13, <1>14, <1>15
       DEF Next

-----------------------------------------------------------------------------
(* The journal.                                                            *)

\* What the journal holds for a settled task of the pool.
Recorded(i) ==
    /\ pool.at[i] \in Outcomes =>
          /\ pool.at[i] \in {Null, pool.prompts[i]}
          /\ SeqOf(i) \in DOMAIN journal
          /\ journal[SeqOf(i)].call = pool.prompts[i]
          /\ (journal[SeqOf(i)].status = "completed") = (pool.at[i] # Null)
    /\ pool.at[i] = "threw" => pool.error # "no"

\* Calls are numbered in order, so that the pool writes above every call that
\* has returned.
JournalInv ==
    /\ JournalAgrees
    /\ engine = "pool" => pool.base + Len(pool.prompts) <= nextSeq
    /\ engine # "idle" => \A k \in DOMAIN answers :
          answers[k].base + Len(answers[k].prompts)
              <= IF engine = "pool" THEN pool.base ELSE nextSeq
    /\ \A i \in Tasks : Recorded(i)

\* The part of JournalAgrees about one answer.
Agrees(a) ==
    a.threw \in {"no", "failed"} =>
        \A i \in DOMAIN a.prompts :
            /\ a.values[i] \in {Null, a.prompts[i]}
            /\ a.base + i - 1 \in DOMAIN journal
            /\ journal[a.base + i - 1].call = a.prompts[i]
            /\ (journal[a.base + i - 1].status = "completed") = (a.values[i] # Null)

LEMMA AgreesEach == JournalAgrees <=> \A k \in DOMAIN answers : Agrees(answers[k])
  BY DEF JournalAgrees, Agrees

\* A leaf that ends writes above every answer, at its own task.
LEMMA LeafWrites ==
    ASSUME TypeInv, LeafInv, EngineInv, JournalInv, NEW leaf \in leaves,
           NEW status \in {"completed", "failed"}, NEW to \in {Null, leaf.prompt},
           (status = "completed") = (to # Null),
           journal' = AppendJournalEntry(leaf.seq, leaf.prompt, status),
           Settle(leaf.seq, to), UNCHANGED << engine, answers, nextSeq >>
    PROVE  JournalInv'
  <1>1. PICK j \in Tasks : /\ SeqOf(j) = leaf.seq /\ pool.at[j] = "running"
                           /\ pool.prompts[j] = leaf.prompt
    BY DEF LeafInv
  <1>2. engine = "pool"
    BY DEF EngineInv
  <1>3. to \in TaskStates
    BY DEF TypeInv, TaskStates, Outcomes
  <1>4. /\ DOMAIN journal' = DOMAIN journal \cup {leaf.seq}
        /\ journal'[leaf.seq] = [call |-> leaf.prompt, status |-> status]
        /\ \A s \in DOMAIN journal : s # leaf.seq => journal'[s] = journal[s]
    BY JournalFacts
  <1>5. pool.base <= leaf.seq
    BY <1>1, PoolFacts DEF SeqOf
  <1>6. ASSUME NEW k \in DOMAIN answers
        PROVE  Agrees(answers[k])'
    <2>1. answers[k] \in Answer
      BY DEF TypeInv
    <2>2. answers[k].base \in Nat /\ answers[k].prompts \in Seq(Prompts)
      BY <2>1 DEF Answer
    <2>3. answers[k].base + Len(answers[k].prompts) <= pool.base
      BY <1>2 DEF JournalInv
    <2>4. \A i \in DOMAIN answers[k].prompts : answers[k].base + i - 1 # leaf.seq
      BY <1>5, <2>2, <2>3, PoolFacts
    <2>5. Agrees(answers[k])
      BY AgreesEach DEF JournalInv
    <2>6. QED
      BY <1>4, <2>4, <2>5 DEF Agrees
  <1>7. JournalAgrees'
    BY <1>6, AgreesEach DEF JournalAgrees, Agrees
  <1>8. ASSUME NEW i \in Tasks
        PROVE  Recorded(i)'
    <2>1. CASE i = j
      <3>1. pool'.at[i] = to /\ SeqOf(i)' = leaf.seq /\ pool'.prompts[i] = leaf.prompt
        BY <1>1, <1>3, <2>1, SettleFacts
      <3>2. to # "threw"
        BY WorkflowConstants DEF TypeInv
      <3>3. QED
        BY <1>4, <3>1, <3>2 DEF Recorded
    <2>2. CASE i # j
      <3>1. SeqOf(i) # leaf.seq
        BY <1>1, <2>2, PoolFacts
      <3>2. /\ pool'.at[i] = pool.at[i] /\ pool'.prompts = pool.prompts
            /\ SeqOf(i)' = SeqOf(i) /\ pool'.error = pool.error
        BY <1>3, <3>1, SettleFacts
      <3>3. Recorded(i)
        BY DEF JournalInv
      <3>4. QED
        BY <1>4, <3>1, <3>2, <3>3 DEF Recorded
    <2>3. QED BY <2>1, <2>2
  <1>9. Tasks' = Tasks /\ pool'.base = pool.base /\ pool'.prompts = pool.prompts
    BY <1>3, SettleFacts
  <1>10. QED
    BY <1>7, <1>8, <1>9 DEF JournalInv

\* Neither the journal nor an answer changes, and the pool keeps its calls.
LEMMA PoolChanges ==
    ASSUME TypeInv, JournalInv, UNCHANGED << journal, answers, nextSeq, engine >>,
           pool'.base = pool.base, pool'.prompts = pool.prompts, Tasks' = Tasks,
           \A i \in Tasks : Recorded(i)'
    PROVE  JournalInv'
  <1>1. JournalAgrees'
    BY DEF JournalInv, JournalAgrees
  <1>2. QED
    BY <1>1 DEF JournalInv

LEMMA JournalStep ==
    ASSUME ScriptOK, TypeInv, LeafInv, EngineInv, JournalInv, [Next]_vars
    PROVE  JournalInv'
  <1>1. ASSUME answers' = << >>, pool' = NoPool, engine' # "pool"
        PROVE  JournalInv'
    BY <1>1 DEF JournalInv, JournalAgrees, Tasks, NoPool
  <1>2. CASE Start \/ Resume
    BY <1>1, <1>2 DEF Start, Resume, Launch
  <1>3. CASE UNCHANGED << journal, answers, nextSeq, pool >> /\ engine' \in {"idle", engine}
    <2>1. JournalAgrees'
      BY <1>3 DEF JournalInv, JournalAgrees
    <2>2. \A i \in Tasks' : Recorded(i)'
      BY <1>3 DEF JournalInv, Recorded, Tasks, SeqOf
    <2>3. QED
      BY <1>3, <2>1, <2>2 DEF JournalInv
  <1>4. CASE Abort \/ Release \/ ScriptEnds \/ ScriptInterrupted
    BY <1>3, <1>4 DEF Abort, Release, ScriptEnds, ScriptInterrupted, Finish
  <1>5. CASE CallHost
    <2>1. /\ pool'.base = nextSeq /\ pool'.prompts = Step.prompts
          /\ pool'.at = [i \in DOMAIN Step.prompts |-> "waiting"]
          /\ engine = "script" /\ engine' = "pool"
          /\ nextSeq' = nextSeq + Len(Step.prompts)
          /\ UNCHANGED << journal, answers >>
      BY <1>5 DEF CallHost
    <2>2. Step.prompts \in Seq(Prompts) /\ nextSeq \in Nat
      BY DEF ScriptOK, TypeInv, Step
    <2>3. "waiting" \notin Outcomes /\ "waiting" # "threw"
      BY WorkflowConstants DEF Outcomes
    <2>4. \A i \in Tasks' : pool'.at[i] = "waiting"
      BY <2>1 DEF Tasks
    <2>5. \A i \in Tasks' : Recorded(i)'
      BY <2>3, <2>4 DEF Recorded, Outcomes
    <2>6. JournalAgrees'
      BY <2>1 DEF JournalInv, JournalAgrees
    <2>7. pool'.base + Len(pool'.prompts) <= nextSeq'
      BY <2>1, <2>2
    <2>8. \A k \in DOMAIN answers : answers[k].base + Len(answers[k].prompts) <= pool'.base
      BY <2>1 DEF JournalInv
    <2>9. QED
      BY <2>1, <2>5, <2>6, <2>7, <2>8 DEF JournalInv
  <1>6. CASE HostReturns
    <2> DEFINE threw == IF pool.error = "no" /\ pool.kind = "agent"
                           /\ Null \in {pool.at[i] : i \in Tasks} THEN "failed" ELSE pool.error
               answer == [threw |-> threw, base |-> pool.base, prompts |-> pool.prompts,
                          values |-> pool.at]
    <2>1. /\ answers' = Append(answers, answer) /\ pool' = NoPool
          /\ engine = "pool" /\ engine' = "script" /\ Drained
          /\ UNCHANGED << journal, nextSeq >>
      BY <1>6 DEF HostReturns
    <2>2. threw \in {"no", "failed"} => pool.error = "no"
      BY DEF TypeInv, Pool
    <2>3. ASSUME pool.error = "no", NEW i \in Tasks
          PROVE  pool.at[i] \in Outcomes
      <3>1. pool.at[i] # "waiting" /\ pool.at[i] # "running"
        BY <2>1, <2>3 DEF Drained, Running, Waiting
      <3>2. pool.at[i] # "threw"
        BY <2>3 DEF JournalInv, Recorded
      <3>3. QED
        BY <3>1, <3>2, PoolFacts DEF TaskStates
    <2>4. /\ answer.threw = threw /\ answer.base = pool.base
          /\ answer.prompts = pool.prompts /\ answer.values = pool.at
      OBVIOUS
    <2> HIDE DEF threw, answer
    <2>5. Agrees(answer)
      <3>1. SUFFICES ASSUME threw \in {"no", "failed"}, NEW i \in Tasks
                     PROVE  /\ pool.at[i] \in {Null, pool.prompts[i]}
                            /\ pool.base + i - 1 \in DOMAIN journal
                            /\ journal[pool.base + i - 1].call = pool.prompts[i]
                            /\ (journal[pool.base + i - 1].status = "completed")
                                  = (pool.at[i] # Null)
        BY <2>4, PoolFacts DEF Agrees
      <3>2. Recorded(i) /\ pool.at[i] \in Outcomes
        BY <2>2, <2>3, <3>1 DEF JournalInv
      <3>3. QED
        BY <3>2 DEF Recorded, SeqOf
    <2>6. answers \in Seq(Answer)
      BY DEF TypeInv
    <2>7. \A k \in DOMAIN answers' : \/ k \in DOMAIN answers /\ answers'[k] = answers[k]
                                     \/ answers'[k] = answer
      BY <2>1, <2>6
    <2>8. \A k \in DOMAIN answers : Agrees(answers[k])
      BY AgreesEach DEF JournalInv
    <2>9. JournalAgrees'
      <3>1. \A k \in DOMAIN answers' : Agrees(answers'[k])
        BY <2>5, <2>7, <2>8
      <3>2. QED
        BY <2>1, <3>1 DEF JournalAgrees, Agrees
    <2>10. /\ pool.base + Len(pool.prompts) <= nextSeq
           /\ \A k \in DOMAIN answers : answers[k].base + Len(answers[k].prompts) <= nextSeq
      <3>1. /\ pool.base + Len(pool.prompts) <= nextSeq
            /\ \A k \in DOMAIN answers :
                  answers[k].base + Len(answers[k].prompts) <= pool.base
        BY <2>1 DEF JournalInv
      <3>2. \A k \in DOMAIN answers : answers[k].base + Len(answers[k].prompts) \in Nat
        <4>1. \A k \in DOMAIN answers : answers[k] \in Answer
          BY <2>6
        <4>2. \A k \in DOMAIN answers :
                 answers[k].base \in Nat /\ answers[k].prompts \in Seq(Prompts)
          BY <4>1 DEF Answer
        <4>3. QED BY <4>2
      <3>3. pool.base \in Nat /\ Len(pool.prompts) \in Nat /\ nextSeq \in Nat
        BY PoolFacts DEF TypeInv
      <3>4. QED BY <3>1, <3>2, <3>3
    <2>11. \A k \in DOMAIN answers' : answers'[k].base + Len(answers'[k].prompts) <= nextSeq'
      BY <2>1, <2>4, <2>7, <2>10
    <2>12. Tasks' = {}
      BY <2>1 DEF Tasks, NoPool
    <2>13. QED
      BY <2>1, <2>9, <2>11, <2>12 DEF JournalInv
  <1>7. ASSUME NEW i \in Tasks, Pull(i)
        PROVE  JournalInv'
    <2>1. "running" \in TaskStates /\ pool.prompts[i] \in TaskStates
      BY PoolFacts DEF TaskStates, Outcomes
    <2>2. /\ Tasks' = Tasks /\ pool'.prompts = pool.prompts /\ pool'.base = pool.base
          /\ \A k \in Tasks : SeqOf(k)' = SeqOf(k)
          /\ UNCHANGED << journal, answers, nextSeq, engine >>
      BY <1>7, <2>1, PullCases, SettleFacts, ThrowFacts
    <2>3. \A k \in Tasks : Recorded(k)
      BY DEF JournalInv
    <2>4. "running" \notin Outcomes /\ "threw" \notin Outcomes
      BY WorkflowConstants DEF Outcomes
    <2>5. pool.prompts[i] \in Prompts /\ pool.prompts[i] # Null /\ pool.prompts[i] # "threw"
      BY PoolFacts, WorkflowConstants
    <2>6. CASE Throw(SeqOf(i), "abort") \/ Throw(SeqOf(i), "cap")
      <3>1. pool'.error # "no" /\ \A k \in Tasks : pool'.at[k] \in {"threw", pool.at[k]}
        BY <2>6, ThrowFacts
      <3>2. \A k \in Tasks : Recorded(k)'
        BY <2>2, <2>3, <2>4, <3>1 DEF Recorded, Outcomes
      <3>3. QED BY <2>2, <3>2, PoolChanges
    <2>7. CASE /\ Replayable(SeqOf(i), pool.prompts[i])
               /\ Settle(SeqOf(i), pool.prompts[i])
      <3>1. /\ pool'.error = pool.error /\ pool'.at[i] = pool.prompts[i]
            /\ \A k \in Tasks : k # i => pool'.at[k] = pool.at[k]
        BY <2>1, <2>7, SettleFacts, PoolFacts
      <3>2. /\ SeqOf(i) \in DOMAIN journal
            /\ journal[SeqOf(i)].call = pool.prompts[i]
            /\ journal[SeqOf(i)].status = "completed"
        BY <2>7 DEF Replayable
      <3>3. Recorded(i)'
        BY <2>2, <2>5, <3>1, <3>2 DEF Recorded
      <3>4. \A k \in Tasks : k # i => Recorded(k)'
        BY <2>2, <2>3, <3>1 DEF Recorded, Outcomes
      <3>5. QED BY <2>2, <3>3, <3>4, PoolChanges
    <2>8. CASE Settle(SeqOf(i), "running")
      <3>1. /\ pool'.error = pool.error
            /\ \A k \in Tasks : pool'.at[k] \in {"running", pool.at[k]}
        BY <2>1, <2>8, SettleFacts
      <3>2. \A k \in Tasks : Recorded(k)'
        BY <2>2, <2>3, <2>4, <3>1 DEF Recorded, Outcomes
      <3>3. QED BY <2>2, <3>2, PoolChanges
    <2>9. QED
      BY <1>7, <2>6, <2>7, <2>8, PullCases
  <1>8. ASSUME NEW leaf \in leaves, LeafSucceeds(leaf)
        PROVE  JournalInv'
    <2>1. leaf.prompt # Null
      BY WorkflowConstants DEF TypeInv
    <2>2. QED
      BY <1>8, <2>1, LeafWrites DEF LeafSucceeds
  <1>9. ASSUME NEW leaf \in leaves, LeafFails(leaf)
        PROVE  JournalInv'
    BY <1>9, LeafWrites DEF LeafFails
  <1>10. ASSUME NEW leaf \in leaves, LeafCancelled(leaf) \/ LeafAborts(leaf)
         PROVE  JournalInv'
    <2>1. /\ Tasks' = Tasks /\ pool'.prompts = pool.prompts /\ pool'.base = pool.base
          /\ \A k \in Tasks : SeqOf(k)' = SeqOf(k)
          /\ UNCHANGED << journal, answers, nextSeq, engine >>
          /\ pool'.error # "no"
          /\ \A k \in Tasks : pool'.at[k] \in {"threw", pool.at[k]}
      BY <1>10, ThrowFacts DEF LeafCancelled, LeafAborts
    <2>2. "threw" \notin Outcomes
      BY WorkflowConstants DEF Outcomes
    <2>3. \A k \in Tasks : Recorded(k)
      BY DEF JournalInv
    <2>4. \A k \in Tasks : Recorded(k)'
      BY <2>1, <2>2, <2>3 DEF Recorded, Outcomes
    <2>5. QED BY <2>1, <2>4, PoolChanges
  <1>11. CASE \/ \E leaf \in leaves : CrashBetweenWrites(leaf)
              \/ Crash \/ CrashBeforeFinish
    BY <1>1, <1>11 DEF CrashBetweenWrites, Crash, CrashBeforeFinish, Lose
  <1>12. CASE Boot \/ UNCHANGED vars
    BY <1>3, <1>12 DEF Boot, vars, memory
  <1>13. QED
    BY <1>2, <1>4, <1>5, <1>6, <1>7, <1>8, <1>9, <1>10, <1>11, <1>12 DEF Next

-----------------------------------------------------------------------------
(* Induction over Nat, stated with a set.                                  *)

LEMMA NothingBelow ==
    ASSUME NEW R, \A m, n \in Nat : m < n => << m, n >> \in R,
           NEW T \in SUBSET Nat, NEW n \in T, \A m \in T : ~ (<< m, n >> \in R)
    PROVE  \A m \in T : n <= m
  <1> TAKE m \in T
  <1>1. m \in Nat /\ n \in Nat
    OBVIOUS
  <1>2. ~ (m < n)
    BY <1>1
  <1>3. QED
    BY <1>1, <1>2

LEMMA LeastOf ==
    ASSUME NEW T \in SUBSET Nat, T # {}
    PROVE  \E n \in T : \A m \in T : n <= m
  <1>1. IsWellFoundedOn(OpToRel(<, Nat), Nat)
    BY NatLessThanWellFounded
  <1>2. \E n \in T : \A m \in T : ~ (<< m, n >> \in OpToRel(<, Nat))
    BY <1>1, WFMin
  <1>3. \A m, n \in Nat : m < n => << m, n >> \in OpToRel(<, Nat)
    BY DEF OpToRel
  <1>4. QED
    BY <1>2, <1>3, NothingBelow, Zenon

LEMMA SetInduction ==
    ASSUME NEW S, 0 \in S, \A n \in Nat : n \in S => n + 1 \in S
    PROVE  Nat \subseteq S
  <1> SUFFICES ASSUME Nat \ S # {} PROVE FALSE
    OBVIOUS
  <1>1. PICK n \in Nat \ S : \A m \in Nat \ S : n <= m
    BY LeastOf
  <1>2. n # 0 /\ n - 1 \in Nat
    BY <1>1
  <1>3. n - 1 \in S
    BY <1>1, <1>2
  <1>4. (n - 1) + 1 \in S
    BY <1>2, <1>3
  <1>5. QED
    BY <1>1, <1>4

-----------------------------------------------------------------------------
(* What an execution does that nothing disturbs.                           *)

NextSeqAfter(said) ==
    IF said = << >> THEN 0 ELSE said[Len(said)].base + Len(said[Len(said)].prompts)

CallsHost(said) == Program(said).do \in {"agent", "parallel"}

\* The answer of a call in which every leaf succeeded.
Whole(before) ==
    [threw   |-> "no",
     base    |-> NextSeqAfter(before),
     prompts |-> Program(before).prompts,
     values  |-> Program(before).prompts]

\* What a script has been told when every leaf so far succeeded.
Undisturbed(said) ==
    \A k \in DOMAIN said : /\ CallsHost(SubSeq(said, 1, k - 1))
                           /\ said[k] = Whole(SubSeq(said, 1, k - 1))

\* An undisturbed execution makes the call p at seq.
Calls(seq, p) ==
    \E said \in Seq(Answer) :
        /\ Undisturbed(said) /\ CallsHost(said)
        /\ \E i \in DOMAIN Program(said).prompts :
              /\ p = Program(said).prompts[i]
              /\ seq = NextSeqAfter(said) + i - 1

\* A leaf call is known by its prompt: undisturbed, the script makes none of
\* them twice.
DistinctCalls ==
    \A p \in Prompts : \A s, t \in Nat : Calls(s, p) /\ Calls(t, p) => s = t

LEMMA NextSeqNat ==
    ASSUME NEW said \in Seq(Answer)
    PROVE  NextSeqAfter(said) \in Nat
  <1>1. CASE said = << >>
    BY <1>1 DEF NextSeqAfter
  <1>2. CASE said # << >>
    <2>1. said[Len(said)] \in Answer
      BY <1>2
    <2>2. said[Len(said)].base \in Nat /\ said[Len(said)].prompts \in Seq(Prompts)
      BY <2>1 DEF Answer
    <2>3. QED BY <1>2, <2>2 DEF NextSeqAfter
  <1>3. QED BY <1>1, <1>2

\* An undisturbed transcript is an undisturbed shorter one and what the script
\* did after it.
LEMMA UndisturbedSplits ==
    ASSUME ScriptOK, NEW n \in Nat, NEW b \in Seq(Answer), Undisturbed(b), Len(b) = n + 1
    PROVE  LET c == SubSeq(b, 1, n)
           IN  /\ c \in Seq(Answer) /\ Len(c) = n /\ Undisturbed(c) /\ CallsHost(c)
               /\ b = Append(c, Whole(c))
               /\ NextSeqAfter(b) = NextSeqAfter(c) + Len(Program(c).prompts)
  <1> DEFINE c == SubSeq(b, 1, n)
  <1>1. /\ c \in Seq(Answer) /\ Len(c) = n
        /\ \A k \in 1..n : c[k] = b[k]
    BY SubSeqProperties
  <1>2. \A k \in 1..n : SubSeq(c, 1, k - 1) = SubSeq(b, 1, k - 1)
    BY <1>1, SubSeqProperties
  <1>3. DOMAIN c = 1..n /\ DOMAIN b = 1..(n + 1)
    BY <1>1
  <1>4. b[n + 1] = Whole(c) /\ CallsHost(c)
    BY <1>3 DEF Undisturbed
  <1> HIDE DEF c
  <1>5. Undisturbed(c)
    <2> SUFFICES ASSUME NEW k \in 1..n
                 PROVE  CallsHost(SubSeq(c, 1, k - 1)) /\ c[k] = Whole(SubSeq(c, 1, k - 1))
      BY <1>3 DEF Undisturbed
    <2>1. k \in DOMAIN b
      BY <1>3
    <2>2. QED BY <1>1, <1>2, <2>1 DEF Undisturbed
  <1>6. b = Append(c, Whole(c))
    <2>1. Whole(c) \in Answer
      <3>1. b[n + 1] \in Answer
        BY <1>3
      <3>2. QED BY <1>4, <3>1
    <2>2. /\ Append(c, Whole(c)) \in Seq(Answer) /\ Len(Append(c, Whole(c))) = n + 1
          /\ \A k \in 1..n : Append(c, Whole(c))[k] = c[k]
          /\ Append(c, Whole(c))[n + 1] = Whole(c)
      BY <1>1, <2>1
    <2>3. \A k \in 1..(n + 1) : b[k] = Append(c, Whole(c))[k]
      BY <1>1, <1>4, <2>2
    <2>4. QED BY <2>2, <2>3, SeqEqual
  <1>7. NextSeqAfter(b) = NextSeqAfter(c) + Len(Program(c).prompts)
    <2>1. b # << >> /\ b[Len(b)] = Whole(c)
      BY <1>4
    <2>2. Whole(c).base = NextSeqAfter(c) /\ Whole(c).prompts = Program(c).prompts
      BY DEF Whole
    <2>3. NextSeqAfter(b) = b[Len(b)].base + Len(b[Len(b)].prompts)
      BY <2>1 DEF NextSeqAfter
    <2>4. QED BY <2>1, <2>2, <2>3
  <1>8. QED
    BY <1>1, <1>4, <1>5, <1>6, <1>7 DEF c

\* The script is deterministic: two undisturbed transcripts of one length are
\* the same, and a longer one begins above every call of a shorter one.
Settled(n) ==
    \A a, b \in Seq(Answer) :
        Undisturbed(a) /\ Undisturbed(b) /\ Len(b) = n =>
            /\ Len(a) = n => a = b
            /\ Len(a) < n => NextSeqAfter(a) + Len(Program(a).prompts) <= NextSeqAfter(b)

LEMMA ScriptIsDeterministic == ScriptOK => \A n \in Nat : Settled(n)
  <1> SUFFICES ASSUME ScriptOK PROVE \A n \in Nat : Settled(n)
    OBVIOUS
  <1> DEFINE S == {n \in Nat : Settled(n)}
  <1>1. 0 \in S
    <2>1. Settled(0)
      BY EmptySeq DEF Settled
    <2>2. QED BY <2>1
  <1>2. ASSUME NEW n \in Nat, Settled(n)
        PROVE  Settled(n + 1)
    <2> SUFFICES ASSUME NEW a \in Seq(Answer), NEW b \in Seq(Answer),
                        Undisturbed(a), Undisturbed(b), Len(b) = n + 1
                 PROVE  /\ Len(a) = n + 1 => a = b
                        /\ Len(a) < n + 1 => NextSeqAfter(a) + Len(Program(a).prompts)
                                               <= NextSeqAfter(b)
      BY DEF Settled
    <2> DEFINE c == SubSeq(b, 1, n)
               d == SubSeq(a, 1, n)
    <2>1. /\ c \in Seq(Answer) /\ Len(c) = n /\ Undisturbed(c) /\ b = Append(c, Whole(c))
          /\ NextSeqAfter(b) = NextSeqAfter(c) + Len(Program(c).prompts)
      BY UndisturbedSplits
    <2>2. CASE Len(a) = n + 1
      <3>1. d \in Seq(Answer) /\ Len(d) = n /\ Undisturbed(d) /\ a = Append(d, Whole(d))
        BY <2>2, UndisturbedSplits
      <3> HIDE DEF c, d
      <3>2. d = c
        BY <1>2, <2>1, <3>1 DEF Settled
      <3>3. QED BY <2>1, <2>2, <3>1, <3>2
    <2>3. CASE Len(a) = n
      <3> HIDE DEF c, d
      <3>1. a = c
        BY <1>2, <2>1, <2>3 DEF Settled
      <3>2. NextSeqAfter(b) \in Nat
        BY NextSeqNat
      <3>3. QED BY <2>1, <2>3, <3>1, <3>2
    <2>4. CASE Len(a) < n
      <3> HIDE DEF c, d
      <3>1. NextSeqAfter(a) + Len(Program(a).prompts) <= NextSeqAfter(c)
        BY <1>2, <2>1, <2>4 DEF Settled
      <3>2. /\ NextSeqAfter(a) \in Nat /\ NextSeqAfter(c) \in Nat /\ NextSeqAfter(b) \in Nat
            /\ Len(Program(a).prompts) \in Nat /\ Len(Program(c).prompts) \in Nat
        BY <2>1, NextSeqNat DEF ScriptOK
      <3>3. QED BY <2>1, <2>4, <3>1, <3>2
    <2>5. QED BY <2>2, <2>3, <2>4
  <1>3. \A n \in Nat : n \in S => n + 1 \in S
    BY <1>2
  <1> HIDE DEF S
  <1>4. Nat \subseteq S
    BY <1>1, <1>3, SetInduction
  <1>5. QED
    BY <1>4 DEF S

\* At most one call has a given seq.
LEMMA OneCallPerSeq ==
    ASSUME ScriptOK, NEW s, NEW p, NEW q, Calls(s, p), Calls(s, q)
    PROVE  p = q
  <1>1. PICK a \in Seq(Answer) :
            /\ Undisturbed(a)
            /\ \E i \in DOMAIN Program(a).prompts :
                  p = Program(a).prompts[i] /\ s = NextSeqAfter(a) + i - 1
    BY DEF Calls
  <1>2. PICK i \in DOMAIN Program(a).prompts :
            p = Program(a).prompts[i] /\ s = NextSeqAfter(a) + i - 1
    BY <1>1
  <1>3. PICK b \in Seq(Answer) :
            /\ Undisturbed(b)
            /\ \E j \in DOMAIN Program(b).prompts :
                  q = Program(b).prompts[j] /\ s = NextSeqAfter(b) + j - 1
    BY DEF Calls
  <1>4. PICK j \in DOMAIN Program(b).prompts :
            q = Program(b).prompts[j] /\ s = NextSeqAfter(b) + j - 1
    BY <1>3
  <1>5. /\ NextSeqAfter(a) \in Nat /\ NextSeqAfter(b) \in Nat
        /\ Program(a).prompts \in Seq(Prompts) /\ Program(b).prompts \in Seq(Prompts)
    BY NextSeqNat DEF ScriptOK
  <1>6. /\ i \in Nat /\ 1 <= i /\ i <= Len(Program(a).prompts)
        /\ j \in Nat /\ 1 <= j /\ j <= Len(Program(b).prompts)
    <2>1. /\ DOMAIN Program(a).prompts = 1..Len(Program(a).prompts)
          /\ DOMAIN Program(b).prompts = 1..Len(Program(b).prompts)
          /\ Len(Program(a).prompts) \in Nat /\ Len(Program(b).prompts) \in Nat
      BY <1>5
    <2>2. i \in 1..Len(Program(a).prompts) /\ j \in 1..Len(Program(b).prompts)
      BY <1>2, <1>4, <2>1
    <2>3. QED BY <2>1, <2>2
  <1>7. Len(a) \in Nat /\ Len(b) \in Nat
    OBVIOUS
  <1>8. Settled(Len(a)) /\ Settled(Len(b))
    BY <1>7, ScriptIsDeterministic
  <1>9. CASE Len(a) < Len(b)
    <2>1. NextSeqAfter(a) + Len(Program(a).prompts) <= NextSeqAfter(b)
      BY <1>1, <1>3, <1>8, <1>9 DEF Settled
    <2>2. QED BY <1>2, <1>4, <1>5, <1>6, <2>1
  <1>10. CASE Len(b) < Len(a)
    <2>1. NextSeqAfter(b) + Len(Program(b).prompts) <= NextSeqAfter(a)
      BY <1>1, <1>3, <1>8, <1>10 DEF Settled
    <2>2. QED BY <1>2, <1>4, <1>5, <1>6, <2>1
  <1>11. CASE Len(a) = Len(b)
    <2>1. a = b
      BY <1>1, <1>3, <1>8, <1>11 DEF Settled
    <2>2. i = j
      BY <1>2, <1>4, <1>5, <1>6, <2>1
    <2>3. QED BY <1>2, <1>4, <2>1, <2>2
  <1>12. QED
    BY <1>7, <1>9, <1>10, <1>11

-----------------------------------------------------------------------------
(* Work is not repeated.                                                   *)

HistoryInv ==
    /\ failures \in Nat
    /\ done \in [Prompts -> Nat] /\ cutOff \in [Prompts -> Nat]
    /\ capExceeded => CapReached

\* A call was stopped by the cap or by an abort of the run: from then on this
\* execution launches nothing.
Stopped == \E k \in DOMAIN answers : answers[k].threw \in {"cap", "abort"}

\* Every entry of the journal, and every leaf in flight, is a call the
\* undisturbed script makes, at the seq at which it makes it.
PlaceInv ==
    /\ \A s \in DOMAIN journal : /\ journal[s].status = "completed"
                                 /\ Calls(s, journal[s].call)
    /\ \A leaf \in leaves : Calls(leaf.seq, leaf.prompt)

\* An execution that nothing stopped is where the undisturbed one would be, and
\* no leaf has aborted of its own.
TrackInv ==
    /\ engine = "pool" => pool.error # "unasked"
    /\ engine # "idle" => Stopped \/ Undisturbed(answers)
    /\ engine = "script" => Stopped \/ nextSeq = NextSeqAfter(answers)
    /\ engine = "pool" =>
          \/ Stopped
          \/ /\ CallsHost(answers)
             /\ pool.base = NextSeqAfter(answers)
             /\ pool.prompts = Program(answers).prompts
             /\ nextSeq = pool.base + Len(pool.prompts)

\* Work that was done and not cut off is in the journal, and work in flight is
\* not there yet.
OnceInv ==
    /\ \A leaf \in leaves : done[leaf.prompt] <= cutOff[leaf.prompt]
    /\ \A p \in Prompts :
          /\ done[p] <= 1 + cutOff[p]
          /\ done[p] > cutOff[p] => \E s \in DOMAIN journal : journal[s].call = p

RepeatInv == HistoryInv /\ (failures = 0 => PlaceInv /\ TrackInv /\ OnceInv)

LEMMA RepeatInit == Init => RepeatInv
  <1> SUFFICES ASSUME Init PROVE RepeatInv
    OBVIOUS
  <1>1. HistoryInv
    BY DEF Init, HistoryInv
  <1>2. PlaceInv /\ TrackInv /\ OnceInv
    BY DEF Init, PlaceInv, TrackInv, OnceInv
  <1>3. QED
    BY <1>1, <1>2 DEF RepeatInv

LEMMA HistoryStep ==
    ASSUME TypeInv, HistoryInv, [Next]_vars
    PROVE  HistoryInv'
  <1> USE DEF HistoryInv
  <1>1. agentsSpawned \in Int /\ MaxAgentsPerRun \in Int
    BY WorkflowConstants DEF TypeInv
  <1>2. CASE Start \/ Resume
    BY <1>2 DEF Start, Resume, Launch, history
  <1>3. CASE UNCHANGED << capExceeded, agentsSpawned, history >>
    BY <1>3 DEF history, CapReached
  <1>4. CASE Abort \/ Release \/ ScriptEnds \/ ScriptInterrupted \/ CallHost \/ HostReturns
    BY <1>3, <1>4 DEF Abort, Release, ScriptEnds, ScriptInterrupted, Finish, CallHost,
                      HostReturns
  <1>5. ASSUME NEW i \in Tasks, Pull(i)
        PROVE  HistoryInv'
    <2>1. UNCHANGED << failures, done, cutOff >>
      BY <1>5 DEF Pull
    <2>2. \/ UNCHANGED << capExceeded, agentsSpawned >>
          \/ CapReached /\ UNCHANGED agentsSpawned
          \/ agentsSpawned' = agentsSpawned + 1 /\ UNCHANGED capExceeded
      BY <1>5, PullCases
    <2>3. QED BY <1>1, <2>1, <2>2 DEF CapReached
  <1>6. ASSUME NEW leaf \in leaves, LeafSucceeds(leaf)
        PROVE  HistoryInv'
    <2>1. leaf.prompt \in Prompts
      BY DEF TypeInv
    <2>2. done' \in [Prompts -> Nat]
      BY <1>6, <2>1 DEF LeafSucceeds
    <2>3. QED BY <1>6, <2>2 DEF LeafSucceeds, CapReached
  <1>7. ASSUME NEW leaf \in leaves, LeafFails(leaf)
        PROVE  HistoryInv'
    BY <1>7 DEF LeafFails, CapReached
  <1>8. ASSUME NEW leaf \in leaves, LeafCancelled(leaf) \/ LeafAborts(leaf)
        PROVE  HistoryInv'
    BY <1>3, <1>8 DEF LeafCancelled, LeafAborts, CapReached
  <1>9. ASSUME NEW leaf \in leaves, CrashBetweenWrites(leaf)
        PROVE  HistoryInv'
    <2>1. leaf.prompt \in Prompts
      BY DEF TypeInv
    <2>2. done' \in [Prompts -> Nat] /\ cutOff' \in [Prompts -> Nat]
      BY <1>9, <2>1 DEF CrashBetweenWrites
    <2>3. QED BY <1>9, <2>2 DEF CrashBetweenWrites, Lose
  <1>10. CASE Crash \/ CrashBeforeFinish
    BY <1>10 DEF Crash, CrashBeforeFinish, Lose
  <1>11. CASE Boot \/ UNCHANGED vars
    BY <1>3, <1>11 DEF Boot, vars, memory
  <1>12. QED
    BY <1>2, <1>4, <1>5, <1>6, <1>7, <1>8, <1>9, <1>10, <1>11 DEF Next

\* Where the journal, the leaves and what they did stay as they are.
LEMMA NothingDone ==
    ASSUME PlaceInv, OnceInv, UNCHANGED << journal, done, cutOff >>, leaves' \subseteq leaves
    PROVE  PlaceInv' /\ OnceInv'
  BY DEF PlaceInv, OnceInv

\* A leaf that succeeds writes the entry that has its place.
LEMMA SucceedsOnce ==
    ASSUME ScriptOK, DistinctCalls, TypeInv, HistoryInv, PlaceInv, OnceInv,
           NEW leaf \in leaves, LeafSucceeds(leaf)
    PROVE  PlaceInv' /\ OnceInv'
  <1>1. leaf.seq \in Nat /\ leaf.prompt \in Prompts
    BY DEF TypeInv
  <1>2. /\ DOMAIN journal' = DOMAIN journal \cup {leaf.seq}
        /\ journal'[leaf.seq] = [call |-> leaf.prompt, status |-> "completed"]
        /\ \A s \in DOMAIN journal : s # leaf.seq => journal'[s] = journal[s]
    BY JournalFacts DEF LeafSucceeds
  <1>3. Calls(leaf.seq, leaf.prompt)
    BY DEF PlaceInv
  <1>4. leaves' = leaves \ {leaf} /\ UNCHANGED cutOff
        /\ done' = [done EXCEPT ![leaf.prompt] = @ + 1]
    BY DEF LeafSucceeds
  <1>5. PlaceInv'
    <2>1. \A s \in DOMAIN journal' : /\ journal'[s].status = "completed"
                                     /\ Calls(s, journal'[s].call)
      <3> TAKE s \in DOMAIN journal'
      <3>1. CASE s = leaf.seq
        BY <1>2, <1>3, <3>1
      <3>2. CASE s # leaf.seq
        <4>1. s \in DOMAIN journal /\ journal'[s] = journal[s]
          BY <1>2, <3>2
        <4>2. QED BY <4>1 DEF PlaceInv
      <3>3. QED BY <3>1, <3>2
    <2>2. QED BY <1>4, <2>1 DEF PlaceInv
  <1>6. ASSUME NEW other \in leaves, other # leaf
        PROVE  other.prompt # leaf.prompt
    <2>1. other \in [seq : Nat, prompt : Prompts] /\ leaf \in [seq : Nat, prompt : Prompts]
      BY DEF TypeInv
    <2>2. Calls(other.seq, other.prompt)
      BY DEF PlaceInv
    <2>3. other.prompt = leaf.prompt => other.seq = leaf.seq
      BY <1>3, <2>1, <2>2 DEF DistinctCalls
    <2>4. QED BY <1>6, <2>1, <2>3
  <1>7. done \in [Prompts -> Nat] /\ cutOff \in [Prompts -> Nat]
    BY DEF HistoryInv
  <1>8. \A p \in Prompts : done'[p] = IF p = leaf.prompt THEN done[p] + 1 ELSE done[p]
    BY <1>1, <1>4, <1>7
  <1>9. \A other \in leaves' : done'[other.prompt] <= cutOff'[other.prompt]
    <2> TAKE other \in leaves'
    <2>1. other \in leaves /\ other # leaf /\ other.prompt \in Prompts
      BY <1>4 DEF TypeInv
    <2>2. done'[other.prompt] = done[other.prompt]
      BY <1>6, <1>8, <2>1
    <2>3. QED BY <1>4, <2>1, <2>2 DEF OnceInv
  <1>10. ASSUME NEW p \in Prompts
         PROVE  /\ done'[p] <= 1 + cutOff'[p]
                /\ done'[p] > cutOff'[p] => \E s \in DOMAIN journal' : journal'[s].call = p
    <2>1. CASE p = leaf.prompt
      <3>1. done[p] <= cutOff[p]
        BY <2>1 DEF OnceInv
      <3>2. done'[p] <= 1 + cutOff'[p]
        BY <1>4, <1>7, <1>8, <2>1, <3>1
      <3>3. journal'[leaf.seq].call = p /\ leaf.seq \in DOMAIN journal'
        BY <1>2, <2>1
      <3>4. QED BY <3>2, <3>3
    <2>2. CASE p # leaf.prompt
      <3>1. done'[p] = done[p] /\ cutOff'[p] = cutOff[p]
        BY <1>4, <1>8, <2>2
      <3>2. ASSUME NEW s \in DOMAIN journal, journal[s].call = p
            PROVE  s \in DOMAIN journal' /\ journal'[s].call = p
        <4>1. s # leaf.seq
          <5>1. Calls(s, p)
            BY <3>2 DEF PlaceInv
          <5>2. QED BY <1>3, <2>2, <5>1, OneCallPerSeq
        <4>2. QED BY <1>2, <3>2, <4>1
      <3>3. done[p] > cutOff[p] => \E s \in DOMAIN journal : journal[s].call = p
        BY DEF OnceInv
      <3>4. done[p] <= 1 + cutOff[p]
        BY DEF OnceInv
      <3>5. QED BY <3>1, <3>2, <3>3, <3>4
    <2>3. QED BY <2>1, <2>2
  <1>11. QED
    BY <1>5, <1>9, <1>10 DEF OnceInv

\* A leaf is launched only for work that is not in the journal.
LEMMA LaunchesOnce ==
    ASSUME ScriptOK, DistinctCalls, TypeInv, StopInv, HistoryInv, PlaceInv, TrackInv, OnceInv,
           NEW i \in Tasks, Pull(i)
    PROVE  PlaceInv' /\ OnceInv'
  <1>1. /\ engine = "pool" /\ UNCHANGED << journal, done, cutOff >>
        /\ \/ UNCHANGED leaves
           \/ /\ ~aborted /\ ~Replayable(SeqOf(i), pool.prompts[i]) /\ ~CapReached
              /\ leaves' = leaves \cup {[seq |-> SeqOf(i), prompt |-> pool.prompts[i]]}
    BY PullCases
  <1>2. CASE UNCHANGED leaves
    BY <1>1, <1>2, NothingDone
  <1>3. CASE /\ ~aborted /\ ~Replayable(SeqOf(i), pool.prompts[i]) /\ ~CapReached
             /\ leaves' = leaves \cup {[seq |-> SeqOf(i), prompt |-> pool.prompts[i]]}
    <2> DEFINE p == pool.prompts[i]
               s == SeqOf(i)
    <2>1. ~Stopped
      BY <1>1, <1>3 DEF StopInv, HistoryInv, Stopped
    <2>2. /\ Undisturbed(answers) /\ CallsHost(answers)
          /\ pool.base = NextSeqAfter(answers) /\ pool.prompts = Program(answers).prompts
      BY <1>1, <2>1 DEF TrackInv
    <2>3. /\ i \in DOMAIN pool.prompts /\ p \in Prompts /\ s \in Nat
          /\ s = NextSeqAfter(answers) + i - 1
      BY <2>2, PoolFacts DEF SeqOf
    <2>4. Calls(s, p)
      <3>1. answers \in Seq(Answer)
        BY DEF TypeInv
      <3>2. i \in DOMAIN Program(answers).prompts /\ p = Program(answers).prompts[i]
        BY <2>2, <2>3
      <3> HIDE DEF p, s
      <3>3. QED BY <2>2, <2>3, <3>1, <3>2 DEF Calls
    <2> HIDE DEF p, s
    <2>5. done[p] <= cutOff[p]
      <3>1. ASSUME NEW t \in DOMAIN journal, journal[t].call = p
            PROVE  FALSE
        <4>1. Calls(t, p) /\ journal[t].status = "completed"
          BY <3>1 DEF PlaceInv
        <4>2. t \in Nat
          BY DEF TypeInv
        <4>3. t = s
          BY <2>3, <2>4, <4>1, <4>2 DEF DistinctCalls
        <4>4. Replayable(s, p)
          BY <3>1, <4>1, <4>3 DEF Replayable
        <4>5. QED BY <1>3, <4>4 DEF p, s
      <3>2. ~ (done[p] > cutOff[p])
        BY <2>3, <3>1 DEF OnceInv
      <3>3. done[p] \in Nat /\ cutOff[p] \in Nat
        BY <2>3 DEF HistoryInv
      <3>4. QED BY <3>2, <3>3
    <2>6. \A leaf \in leaves' : leaf \in leaves \/ (leaf.seq = s /\ leaf.prompt = p)
      <3>1. leaves' = leaves \cup {[seq |-> s, prompt |-> p]}
        BY <1>3 DEF p, s
      <3>2. \A leaf \in leaves' : leaf \in leaves \/ leaf = [seq |-> s, prompt |-> p]
        BY <3>1
      <3>3. [seq |-> s, prompt |-> p].seq = s /\ [seq |-> s, prompt |-> p].prompt = p
        OBVIOUS
      <3>4. QED BY <3>2, <3>3
    <2>7. PlaceInv'
      BY <1>1, <2>4, <2>6 DEF PlaceInv
    <2>8. OnceInv'
      BY <1>1, <2>5, <2>6 DEF OnceInv
    <2>9. QED BY <2>7, <2>8
  <1>4. QED
    BY <1>1, <1>2, <1>3

\* A crash forgets the leaves; one that cuts off a leaf's journal entry is
\* counted.
LEMMA CrashedOnce ==
    ASSUME TypeInv, HistoryInv, PlaceInv, OnceInv, NEW leaf \in leaves,
           CrashBetweenWrites(leaf)
    PROVE  PlaceInv' /\ OnceInv'
  <1>1. /\ leaves' = {} /\ UNCHANGED journal
        /\ done' = [done EXCEPT ![leaf.prompt] = @ + 1]
        /\ cutOff' = [cutOff EXCEPT ![leaf.prompt] = @ + 1]
    BY DEF CrashBetweenWrites, Lose
  <1>2. leaf.prompt \in Prompts
    BY DEF TypeInv
  <1>3. done \in [Prompts -> Nat] /\ cutOff \in [Prompts -> Nat]
    BY DEF HistoryInv
  <1>4. \A p \in Prompts :
            \/ done'[p] = done[p] /\ cutOff'[p] = cutOff[p]
            \/ done'[p] = done[p] + 1 /\ cutOff'[p] = cutOff[p] + 1
    BY <1>1, <1>2, <1>3
  <1>5. \A p \in Prompts : done[p] \in Nat /\ cutOff[p] \in Nat
    BY <1>3
  <1>6. \A p \in Prompts : /\ done'[p] <= 1 + cutOff'[p]
                           /\ done'[p] > cutOff'[p] => done[p] > cutOff[p]
    <2> TAKE p \in Prompts
    <2>1. done[p] <= 1 + cutOff[p]
      BY DEF OnceInv
    <2>2. QED BY <1>4, <1>5, <2>1
  <1>7. QED
    BY <1>1, <1>6 DEF PlaceInv, OnceInv

\* A host call that nothing stopped returns what the undisturbed one returns.
LEMMA ReturnTracks ==
    ASSUME ScriptOK, TypeInv, JournalInv, PlaceInv, TrackInv, HostReturns
    PROVE  TrackInv'
  <1> DEFINE leafFailed == pool.kind = "agent" /\ Null \in {pool.at[i] : i \in Tasks}
             threw == IF pool.error = "no" /\ leafFailed THEN "failed" ELSE pool.error
             answer == [threw |-> threw, base |-> pool.base, prompts |-> pool.prompts,
                        values |-> pool.at]
  <1>1. /\ answers' = Append(answers, answer) /\ nextSeq' = nextSeq
        /\ engine = "pool" /\ engine' = "script" /\ Drained
    BY DEF HostReturns
  <1>2. answers \in Seq(Answer) /\ Len(answers) \in Nat
    BY DEF TypeInv
  <1>3. /\ DOMAIN answers' = 1..(Len(answers) + 1) /\ DOMAIN answers = 1..Len(answers)
        /\ Len(answers') = Len(answers) + 1
        /\ answers'[Len(answers) + 1] = answer
        /\ \A k \in 1..Len(answers) : answers'[k] = answers[k]
    BY <1>1, <1>2
  <1>4. CASE Stopped
    <2>1. Stopped'
      BY <1>3, <1>4 DEF Stopped
    <2>2. QED BY <1>1, <2>1 DEF TrackInv
  <1>5. CASE pool.error # "no"
    <2>1. answer.threw \in {"cap", "abort"}
      BY <1>1, <1>5 DEF TypeInv, Pool, TrackInv
    <2>2. Stopped'
      BY <1>3, <2>1 DEF Stopped
    <2>3. QED BY <1>1, <2>2 DEF TrackInv
  <1>6. CASE ~Stopped /\ pool.error = "no"
    <2>1. \A i \in Tasks : pool.at[i] = pool.prompts[i] /\ pool.at[i] # Null
      <3> TAKE i \in Tasks
      <3>1. pool.at[i] # "waiting" /\ pool.at[i] # "running"
        BY <1>1, <1>6 DEF Drained, Running, Waiting
      <3>2. Recorded(i)
        BY DEF JournalInv
      <3>3. pool.at[i] \in Outcomes
        BY <1>6, <3>1, <3>2, PoolFacts DEF Recorded, TaskStates
      <3>4. journal[SeqOf(i)].status = "completed"
        BY <3>2, <3>3 DEF PlaceInv, Recorded
      <3>5. pool.at[i] # Null
        BY <3>2, <3>3, <3>4 DEF Recorded
      <3>6. QED BY <3>2, <3>3, <3>5 DEF Recorded
    <2>2. pool.at = pool.prompts
      <3>1. pool.at \in [Tasks -> TaskStates] /\ pool.prompts \in [Tasks -> Prompts]
        BY PoolFacts
      <3>2. QED BY <2>1, <3>1
    <2>3. threw = "no"
      BY <1>6, <2>1
    <2>4. /\ Undisturbed(answers) /\ CallsHost(answers)
          /\ pool.base = NextSeqAfter(answers) /\ pool.prompts = Program(answers).prompts
          /\ nextSeq = pool.base + Len(pool.prompts)
      BY <1>1, <1>6 DEF TrackInv
    <2>5. answer = Whole(answers)
      BY <2>2, <2>3, <2>4 DEF Whole
    <2> HIDE DEF answer, threw, leafFailed
    <2>6. \A k \in 1..(Len(answers) + 1) : SubSeq(answers', 1, k - 1) = SubSeq(answers, 1, k - 1)
      BY <1>2, <1>3
    <2>7. SubSeq(answers, 1, Len(answers)) = answers
      BY <1>2
    <2>8. Undisturbed(answers')
      <3> SUFFICES ASSUME NEW k \in 1..(Len(answers) + 1)
                   PROVE  /\ CallsHost(SubSeq(answers', 1, k - 1))
                          /\ answers'[k] = Whole(SubSeq(answers', 1, k - 1))
        BY <1>3 DEF Undisturbed
      <3>1. CASE k = Len(answers) + 1
        <4>1. k - 1 = Len(answers)
          BY <1>2, <3>1
        <4>2. SubSeq(answers', 1, k - 1) = answers
          BY <2>6, <2>7, <4>1
        <4>3. QED BY <1>3, <2>4, <2>5, <3>1, <4>2
      <3>2. CASE k # Len(answers) + 1
        <4>1. k \in 1..Len(answers)
          BY <1>2, <3>2
        <4>2. QED BY <1>3, <2>4, <2>6, <4>1 DEF Undisturbed
      <3>3. QED BY <3>1, <3>2
    <2>9. NextSeqAfter(answers') = nextSeq'
      <3>1. answers' # << >> /\ answers'[Len(answers')] = answer
        BY <1>2, <1>3
      <3>2. answer.base = pool.base /\ answer.prompts = pool.prompts
        BY DEF answer
      <3>3. NextSeqAfter(answers') = answers'[Len(answers')].base
                                       + Len(answers'[Len(answers')].prompts)
        BY <3>1 DEF NextSeqAfter
      <3>4. QED BY <1>1, <2>4, <3>1, <3>2, <3>3
    <2>10. QED
      BY <1>1, <2>8, <2>9 DEF TrackInv, Undisturbed, NextSeqAfter
  <1>7. QED
    BY <1>4, <1>5, <1>6

LEMMA TrackStep ==
    ASSUME ScriptOK, TypeInv, JournalInv, PlaceInv, TrackInv, [Next]_vars,
           ~ \E leaf \in leaves : LeafAborts(leaf)
    PROVE  TrackInv'
  <1>1. CASE Start \/ Resume
    BY <1>1 DEF Start, Resume, Launch, FirstSeq, TrackInv, Undisturbed, NextSeqAfter
  <1>2. ASSUME engine' = "idle"
        PROVE  TrackInv'
    BY <1>2 DEF TrackInv
  <1>3. CASE ScriptEnds \/ ScriptInterrupted \/ Crash \/ CrashBeforeFinish
             \/ \E leaf \in leaves : CrashBetweenWrites(leaf)
    BY <1>2, <1>3 DEF ScriptEnds, ScriptInterrupted, Finish, Crash, CrashBeforeFinish,
                      CrashBetweenWrites, Lose
  <1>4. ASSUME UNCHANGED << engine, answers, nextSeq >>,
               pool'.base = pool.base, pool'.prompts = pool.prompts,
               pool'.error \in {pool.error, "cap", "abort"}
        PROVE  TrackInv'
    BY <1>4 DEF TrackInv, Stopped
  <1>5. CASE Abort \/ Release \/ Boot \/ UNCHANGED vars
    BY <1>4, <1>5 DEF Abort, Release, Boot, vars, memory
  <1>6. CASE \E i \in Tasks : Pull(i)
    <2>1. PICK i \in Tasks : Pull(i)
      BY <1>6
    <2>2. "running" \in TaskStates /\ pool.prompts[i] \in TaskStates
      BY PoolFacts DEF TaskStates, Outcomes
    <2>3. /\ UNCHANGED << engine, answers, nextSeq >>
          /\ pool'.base = pool.base /\ pool'.prompts = pool.prompts
          /\ pool'.error \in {pool.error, "cap", "abort"}
      BY <2>1, <2>2, PullCases, SettleFacts, ThrowFacts
    <2>4. QED BY <1>4, <2>3
  <1>7. ASSUME NEW leaf \in leaves, LeafSucceeds(leaf) \/ LeafFails(leaf) \/ LeafCancelled(leaf)
        PROVE  TrackInv'
    <2>1. leaf.prompt \in TaskStates /\ Null \in TaskStates
      BY DEF TypeInv, TaskStates, Outcomes
    <2>2. UNCHANGED << engine, answers, nextSeq >>
      BY <1>7 DEF LeafSucceeds, LeafFails, LeafCancelled
    <2>3. /\ pool'.base = pool.base /\ pool'.prompts = pool.prompts
          /\ pool'.error \in {pool.error, "cap", "abort"}
      BY <1>7, <2>1, SettleFacts, ThrowFacts
         DEF LeafSucceeds, LeafFails, LeafCancelled
    <2>4. QED BY <1>4, <2>2, <2>3
  <1>8. CASE CallHost
    <2>1. /\ pool'.base = nextSeq /\ pool'.prompts = Step.prompts /\ pool'.error = "no"
          /\ engine = "script" /\ engine' = "pool" /\ UNCHANGED answers
          /\ nextSeq' = nextSeq + Len(Step.prompts)
          /\ Step.do \in {"agent", "parallel"}
      BY <1>8 DEF CallHost
    <2>2. QED
      BY <2>1 DEF TrackInv, Stopped, Step, CallsHost
  <1>9. CASE HostReturns
    BY <1>9, ReturnTracks
  <1>10. QED
    BY <1>1, <1>3, <1>5, <1>6, <1>7, <1>8, <1>9 DEF Next

LEMMA RepeatStep ==
    ASSUME ScriptOK, DistinctCalls, TypeInv, StopInv, JournalInv, RepeatInv, [Next]_vars
    PROVE  RepeatInv'
  <1>1. HistoryInv /\ HistoryInv'
    BY HistoryStep DEF RepeatInv
  <1> SUFFICES ASSUME failures' = 0
               PROVE  PlaceInv' /\ TrackInv' /\ OnceInv'
    BY <1>1 DEF RepeatInv
  <1>2. failures = 0 /\ ~ \E leaf \in leaves : LeafFails(leaf) \/ LeafAborts(leaf)
    <2>1. \/ UNCHANGED failures
          \/ \E leaf \in leaves : LeafFails(leaf) \/ LeafAborts(leaf)
      BY DEF Next, vars, history, Start, Resume, Launch, Abort, CallHost, HostReturns,
             ScriptEnds, ScriptInterrupted, Finish, Release, Pull, LeafSucceeds,
             LeafCancelled, CrashBetweenWrites, Crash, CrashBeforeFinish, Lose, Boot
    <2>2. ~ \E leaf \in leaves : LeafFails(leaf) \/ LeafAborts(leaf)
      BY <1>1 DEF HistoryInv, LeafFails, LeafAborts
    <2>3. QED BY <2>1, <2>2
  <1>3. PlaceInv /\ TrackInv /\ OnceInv
    BY <1>2 DEF RepeatInv
  <1>4. TrackInv'
    BY <1>2, <1>3, TrackStep
  <1>5. PlaceInv' /\ OnceInv'
    <2>1. CASE UNCHANGED << journal, done, cutOff >> /\ leaves' \subseteq leaves
      BY <1>3, <2>1, NothingDone
    <2>2. CASE Start \/ Resume \/ Abort \/ Release \/ ScriptEnds \/ ScriptInterrupted
               \/ CallHost \/ HostReturns
      BY <2>1, <2>2 DEF Start, Resume, Launch, Abort, Release, ScriptEnds,
                        ScriptInterrupted, Finish, CallHost, HostReturns, history
    <2>3. CASE \E i \in Tasks : Pull(i)
      BY <1>1, <1>3, <2>3, LaunchesOnce
    <2>4. CASE \E leaf \in leaves : LeafSucceeds(leaf)
      BY <1>1, <1>3, <2>4, SucceedsOnce
    <2>5. CASE \E leaf \in leaves : LeafFails(leaf) \/ LeafAborts(leaf)
      BY <1>2, <2>5
    <2>6. CASE \E leaf \in leaves : LeafCancelled(leaf)
      BY <2>1, <2>6 DEF LeafCancelled, history
    <2>7. CASE \E leaf \in leaves : CrashBetweenWrites(leaf)
      BY <1>1, <1>3, <2>7, CrashedOnce
    <2>8. CASE Crash \/ CrashBeforeFinish
      BY <2>1, <2>8 DEF Crash, CrashBeforeFinish, Lose
    <2>9. CASE Boot \/ UNCHANGED vars
      BY <2>1, <2>9 DEF Boot, vars, memory, history
    <2>10. QED
      BY <2>2, <2>3, <2>4, <2>5, <2>6, <2>7, <2>8, <2>9 DEF Next
  <1>6. QED
    BY <1>4, <1>5

-----------------------------------------------------------------------------
(* The theorems.                                                           *)

\* The inductive invariant.
WorkflowInv == TypeInv /\ LeafInv /\ EngineInv /\ CapInv /\ StopInv /\ JournalInv

LEMMA WorkflowInductive == ScriptOK => (Spec => []WorkflowInv)
  <1> SUFFICES ASSUME ScriptOK PROVE Spec => []WorkflowInv
    OBVIOUS
  <1>1. Init => WorkflowInv
    <2> SUFFICES ASSUME Init PROVE WorkflowInv
      OBVIOUS
    <2>1. LeafInv /\ EngineInv /\ CapInv
      BY DEF Init, LeafInv, EngineInv, CapInv
    <2>2. StopInv /\ JournalInv
      BY DEF Init, StopInv, CompletedMeansWhole, JournalInv, JournalAgrees, Tasks, NoPool
    <2>3. QED
      BY <2>1, <2>2, TypeInit DEF WorkflowInv
  <1>2. WorkflowInv /\ [Next]_vars => WorkflowInv'
    BY TypeStep, LeafStep, CapStep, StopStep, JournalStep DEF WorkflowInv
  <1>3. QED
    BY <1>1, <1>2, PTL DEF Spec

\* Type correctness, with the two facts in it that are more than types: neither
\* the engine's counter nor the row's ever passes maxAgentsPerRun, and the
\* engine works only under a live daemon that holds the run's controller.
THEOREM WorkflowTypeCorrect == ScriptOK => (Spec => []WorkflowTypeOK)
  <1>1. WorkflowInv => WorkflowTypeOK
    <2> SUFFICES ASSUME WorkflowInv PROVE WorkflowTypeOK
      OBVIOUS
    <2>1. TypeInv /\ EngineInv
      BY DEF WorkflowInv
    <2>2. pool \in Pool /\ row \in Row
      BY <2>1 DEF TypeInv
    <2>3. /\ pool.error \in {"no", "cap", "abort", "unasked"}
          /\ row.agentsSpawned \in 0..MaxAgentsPerRun /\ row.status \in Statuses
      BY <2>2 DEF Pool, Row
    <2>4. \A i \in Tasks : pool.at[i] \in TaskStates
      BY <2>1, PoolFacts
    <2>5. QED
      BY <2>1, <2>3, <2>4 DEF TypeInv, EngineInv, WorkflowTypeOK, Statuses
  <1>2. QED
    BY <1>1, WorkflowInductive, PTL

\* However a host call unwinds, and wherever a crash cuts in, a leaf is in
\* flight only under a run row that says running (runWithConcurrency waits for
\* the leaves it has started before it rejects).
THEOREM LeavesStayInside == ScriptOK => (Spec => []NoLeafOutlivesItsRun)
  <1>1. WorkflowInv => NoLeafOutlivesItsRun
    BY DEF WorkflowInv, EngineInv, NoLeafOutlivesItsRun
  <1>2. QED
    BY <1>1, WorkflowInductive, PTL

\* Over all executions of a run, with any number of crashes and resumes, the
\* leaves launched exceed maxAgentsPerRun only by the launches that no flush
\* had written when the daemon died.
THEOREM CapHolds == ScriptOK => (Spec => []CapSpansRestarts)
  <1>1. WorkflowInv => CapSpansRestarts
    <2> SUFFICES ASSUME WorkflowInv PROVE CapSpansRestarts
      OBVIOUS
    <2>1. /\ row.agentsSpawned \in 0..MaxAgentsPerRun
          /\ agentsSpawned \in 0..MaxAgentsPerRun
      BY DEF WorkflowInv, TypeInv, Row
    <2>2. launched - lostSpawns \in 0..MaxAgentsPerRun
      BY <2>1 DEF WorkflowInv, CapInv
    <2>3. QED
      BY <2>2, WorkflowConstants DEF CapSpansRestarts
  <1>2. QED
    BY <1>1, WorkflowInductive, PTL

\* Whatever the script does with the exceptions it catches, a run whose row
\* says completed had no call stopped by the cap or by an abort of the run (the engine's
\* flags, and not the script's return, decide the final status).
THEOREM CompletedIsWhole == ScriptOK => (Spec => []CompletedMeansWhole)
  <1>1. WorkflowInv => CompletedMeansWhole
    BY DEF WorkflowInv, StopInv
  <1>2. QED
    BY <1>1, WorkflowInductive, PTL

\* In every execution of every script, what a host call returned agrees call
\* by call with the journal: seq numbers are never reused within an execution,
\* so a leaf that ends cannot overwrite the entry of a call that has returned,
\* and a resume that branches elsewhere does not take an entry of another call.
THEOREM JournalIsFaithful == ScriptOK => (Spec => []JournalAgrees)
  <1>1. WorkflowInv => JournalAgrees
    BY DEF WorkflowInv, JournalInv
  <1>2. QED
    BY <1>1, WorkflowInductive, PTL

\* For every script that, when nothing disturbs it, makes no leaf call twice:
\* as long as no leaf has failed, a leaf that has done its work is not run
\* again, over any number of crashes, aborts, caps and resumes, except once per
\* crash that fell between its return and its journal entry (runLeafAtSeq
\* replays the journal entry at the seq of the call, and the seqs of a resumed
\* execution are those of the first one).
THEOREM WorkIsDoneOnce == ScriptOK /\ DistinctCalls => (Spec => []WorkIsNotRepeated)
  <1> SUFFICES ASSUME ScriptOK, DistinctCalls PROVE Spec => []WorkIsNotRepeated
    OBVIOUS
  <1>1. Init => RepeatInv
    BY RepeatInit
  <1>2. WorkflowInv /\ RepeatInv /\ [Next]_vars => RepeatInv'
    BY RepeatStep DEF WorkflowInv
  <1>3. RepeatInv => WorkIsNotRepeated
    BY DEF RepeatInv, OnceInv, WorkIsNotRepeated
  <1>4. QED
    BY <1>1, <1>2, <1>3, WorkflowInductive, PTL DEF Spec

=============================================================================
