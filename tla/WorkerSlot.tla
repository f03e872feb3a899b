----------------------------- MODULE WorkerSlot -----------------------------
(***************************************************************************)
(* One background worker per workspace: the PID-file slot of               *)
(* assistant/src/util/worker-process.ts as the memory worker uses it       *)
(* (assistant/src/plugins/defaults/memory/worker.ts).                      *)
(*                                                                         *)
(* Nothing locks the slot.  A launcher that finds no live worker in the    *)
(* PID file spawns one, which names itself in the file some seconds later; *)
(* a worker that is told to stop takes its name out of the file at once    *)
(* and lives on while it reaps its embedding backend.  Two workers may     *)
(* thus be alive together; a periodic identity check evicts the one that   *)
(* the file does not name.                                                 *)
(***************************************************************************)
EXTENDS Integers, FiniteSets

CONSTANTS
  Workers,     \* worker processes
  NoPid,       \* the PID file is missing
  MaxSpawns    \* bound of the model: processes ever spawned

ASSUME WorkerSlotAssumption == NoPid \notin Workers /\ MaxSpawns \in Nat

VARIABLES
  pidFile,   \* the worker the PID file names, or NoPid
  wproc,     \* wproc[w]: "dead", "spawned" (before the PID file is written),
             \* "booting" (before the guard is armed), "looping" or "stopping"
  spawns     \* processes spawned so far

slotVars == <<pidFile, wproc, spawns>>

SlotTypeOK ==
  /\ pidFile \in Workers \cup {NoPid}
  /\ wproc \in [Workers -> {"dead", "spawned", "booting", "looping", "stopping"}]
  /\ spawns \in 0..MaxSpawns

SlotInit ==
  /\ pidFile = NoPid
  /\ wproc = [w \in Workers |-> "dead"]
  /\ spawns = 0

\* probePidFile: a file that names a dead process is as good as missing.
ProbeRunning == pidFile \in Workers /\ wproc[pidFile] # "dead"

UnlinkPidFileIfNames(w) == pidFile' = IF pidFile = w THEN NoPid ELSE pidFile

\* The launcher's decision is spawn: nothing holds the slot.  (To reclaim the
\* worker of a dead daemon is to stop or kill it first; to adopt one is to do
\* nothing.)
SpawnWorkerProcess(w) ==
  /\ ~ProbeRunning
  /\ wproc[w] = "dead"
  /\ spawns < MaxSpawns
  /\ pidFile' = NoPid
  /\ wproc' = [wproc EXCEPT ![w] = "spawned"]
  /\ spawns' = spawns + 1

WritePidFile(w) ==
  /\ wproc[w] = "spawned"
  /\ pidFile' = w
  /\ wproc' = [wproc EXCEPT ![w] = "booting"]
  /\ UNCHANGED spawns

\* The guard's check on arm passes, and the worker enters its loop.
EnterLoop(w) ==
  /\ wproc[w] = "booting"
  /\ pidFile = w
  /\ wproc' = [wproc EXCEPT ![w] = "looping"]
  /\ UNCHANGED <<pidFile, spawns>>

\* Mutant: the guard checks once, when it is armed.
EvictedOnlyOnArm(w) ==
  /\ wproc[w] = "booting"
  /\ pidFile # w
  /\ wproc' = [wproc EXCEPT ![w] = "dead"]
  /\ UNCHANGED <<pidFile, spawns>>

\* The guard, on arm or on its timer, finds that the file does not name this
\* worker: it exits at once.
Evicted(w) ==
  /\ wproc[w] \in {"booting", "looping"}
  /\ pidFile # w
  /\ wproc' = [wproc EXCEPT ![w] = "dead"]
  /\ UNCHANGED <<pidFile, spawns>>

\* SIGTERM, sent to the process the file names: ticks stop and the file goes,
\* but the process lives until its embedding backend is reaped.  Before it
\* loops the handler is not installed, and the signal is a kind of death.
StopWorkerProcess(w) ==
  /\ pidFile = w
  /\ wproc[w] = "looping"
  /\ spawns < MaxSpawns
  /\ wproc' = [wproc EXCEPT ![w] = "stopping"]
  /\ pidFile' = NoPid
  /\ UNCHANGED spawns

ExitAfterReap(w) ==
  /\ wproc[w] = "stopping"
  /\ wproc' = [wproc EXCEPT ![w] = "dead"]
  /\ UNCHANGED <<pidFile, spawns>>

\* SIGKILL leaves the file behind; an uncaught error removes it on the way out.
\* The model lets this happen only while it can still spawn a worker.
Die(w) ==
  /\ wproc[w] # "dead"
  /\ spawns < MaxSpawns
  /\ wproc' = [wproc EXCEPT ![w] = "dead"]
  /\ UNCHANGED pidFile \/ UnlinkPidFileIfNames(w)
  /\ UNCHANGED spawns

Gone(w) == Evicted(w) \/ ExitAfterReap(w) \/ Die(w)
=============================================================================
