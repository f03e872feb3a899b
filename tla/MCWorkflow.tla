----------------------------- MODULE MCWorkflow -----------------------------
(***************************************************************************)
(* A script that fans out to three leaves, checks two of their outputs if  *)
(* it got them, and sums up: which calls the second step makes, and at     *)
(* which seq, depends on which leaves of the first one failed.             *)
(***************************************************************************)
EXTENDS Workflow

Check == [a |-> "checkA", b |-> "checkB"]
ScriptPrompts == {"a", "b", "c", "checkA", "checkB", "sum"}

Call(kind, prompts) == [do |-> kind, prompts |-> prompts]
End(how) == [do |-> how, prompts |-> << >>]

\* The fan-out and the summary are in try blocks that swallow everything; the
\* checks are not.  A call that threw handed the script no outputs.
FanOutCheckSum(said) ==
    LET got == IF said[1].threw = "no"
               THEN SelectSeq(said[1].values, LAMBDA v : v \in {"a", "b"})
               ELSE << >>
    IN CASE Len(said) = 0 -> Call("parallel", << "a", "b", "c" >>)
         [] Len(said) = 1
              -> Call("parallel", [i \in DOMAIN got |-> Check[got[i]]])
         [] Len(said) = 2 -> IF said[2].threw = "no" THEN Call("agent", << "sum" >>)
                                                     ELSE End("throw")
         [] OTHER -> End("return")
=============================================================================
