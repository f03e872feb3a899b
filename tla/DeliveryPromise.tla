--------------------------- MODULE DeliveryPromise ---------------------------
(***************************************************************************)
(* What the channel bookkeeping promises the sender of a message, with no  *)
(* word on how turns are run, retried or delivered.  An accepted event is  *)
(* owed an answer.  It is settled once, or the assistant gives up on it    *)
(* and it rests as a dead letter that only an operator puts back.          *)
(* ChannelDelivery implements this specification.                          *)
(***************************************************************************)
CONSTANT Events

VARIABLE promise            \* what each event is owed

Stages == {"absent", "owed", "settled", "dead"}

PromiseTypeOK == promise \in [Events -> Stages]

PromiseInit == promise = [e \in Events |-> "absent"]

Becomes(e, from, to) == /\ promise[e] = from
                        /\ promise' = [promise EXCEPT ![e] = to]

Accept(e) == Becomes(e, "absent", "owed")
Settle(e) == Becomes(e, "owed", "settled")
GiveUp(e) == Becomes(e, "owed", "dead")
Replay(e) == Becomes(e, "dead", "owed")

PromiseNext == \E e \in Events : Accept(e) \/ Settle(e) \/ GiveUp(e) \/ Replay(e)

PromiseSpec == PromiseInit /\ [][PromiseNext]_promise
=============================================================================
