------------------------------ MODULE MCSseHub ------------------------------
(***************************************************************************)
(* SseHub for TLC: mac is a desktop client with one host capability that   *)
(* its interface gives it (so that replay and live delivery see the same   *)
(* identity).                                                              *)
(***************************************************************************)
EXTENDS SseHub, TLC

CONSTANTS mac, plugin, plugin2, cA, cB, absent, hostBash

MCIdentity ==
  [k \in {mac} |-> [type |-> "client", clientId |-> k, interfaceId |-> k,
                    capabilities |-> {hostBash}, actorPrincipalId |-> absent]]

MCHeaderCapabilities == [k \in {mac} |-> {}]

ToEveryone == {Untargeted}

\* A request to whoever has host_bash, and a sync_changed that mac caused itself.
ToSome == { [Untargeted EXCEPT !.targetCapability = hostBash],
            [Untargeted EXCEPT !.excludeClientId = mac] }

Unscoped == {absent}
MaybeScoped == {absent, cA}
=============================================================================
