---------------------------- MODULE MCScheduler ----------------------------
(* Instances of Scheduler for TLC.                                         *)
EXTENDS Scheduler, TLC

CONSTANTS once, daily, w1, w2

\* A one-shot that wakes a conversation beside a recurring script.
WakeAndScript == (once :> {"wake"}) @@ (daily :> {"script"})

\* A one-shot with its run row written before the work or after it.
BeforeOrAfter == once :> {"execute", "wake"}
=============================================================================
