--------------------------- MODULE EventTargeting ---------------------------
(***************************************************************************)
(* Who receives a targeted event                                           *)
(* (assistant/src/runtime/assistant-event-targeting.ts).                   *)
(*                                                                         *)
(* A targeting is a record of rules, each Absent or a value; a subscriber  *)
(* is a record of identity fields, "process" subscribers having none of    *)
(* the client properties.                                                  *)
(***************************************************************************)
CONSTANT Absent

Untargeted ==
  [excludeClientId |-> Absent, targetInterfaceId |-> Absent,
   targetActorPrincipalId |-> Absent, targetClientId |-> Absent,
   targetCapability |-> Absent]

ProcessSubscriber ==
  [type |-> "process", clientId |-> Absent, interfaceId |-> Absent,
   capabilities |-> {}, actorPrincipalId |-> Absent]

MatchesTargeting(targeting, subscriber) ==
  LET isClient == subscriber.type = "client"
      Admits(rule, value) == rule = Absent \/ (isClient /\ value = rule)
  IN  /\ targeting.excludeClientId # Absent =>
           ~(isClient /\ subscriber.clientId = targeting.excludeClientId)
      /\ Admits(targeting.targetInterfaceId, subscriber.interfaceId)
      /\ Admits(targeting.targetActorPrincipalId, subscriber.actorPrincipalId)
      /\ Admits(targeting.targetClientId, subscriber.clientId)
      /\ \/ targeting.targetCapability = Absent
         \/ isClient /\ targeting.targetCapability \in subscriber.capabilities
=============================================================================
