------------------------------- MODULE SseHub -------------------------------
(***************************************************************************)
(* The event hub and the SSE route over the stream state:                  *)
(* assistant/src/runtime/assistant-event-hub.ts (subscribe, publish,       *)
(* broadcastMessage), assistant/src/runtime/routes/events-routes.ts (one   *)
(* connection: replay, live callback, backpressure, heartbeat, abort) and  *)
(* assistant/src/ipc/routes/events-ipc-routes.ts (an event forwarded by a  *)
(* worker process).                                                        *)
(*                                                                         *)
(* broadcastMessage stamps an event at once and queues its publish on one  *)
(* promise chain; the IPC route stamps and publishes directly.  A publish  *)
(* walks a snapshot of the subscribers and awaits each callback.  An SSE   *)
(* callback returns at once, but a plugin's callback may return a promise  *)
(* that settles much later: the publish is then parked.  What comes from   *)
(* the network or a timer (a connection, an abort, a read, a heartbeat, a  *)
(* forwarded event) is a macrotask: it runs only when no publish can make  *)
(* progress, that is, each one is finished or parked.                      *)
(***************************************************************************)
EXTENDS StreamState, EventTargeting, Sequences, FiniteSetsExt, Functions

CONSTANTS
  Clients,             \* clients with a clientId (web, macOS, extension)
  Plugins,             \* in-process subscribers of plugins
  Scopes,              \* conversation filters a connection may ask for;
                       \* Absent is the unfiltered stream
  Identity,            \* Identity[k]: the identity replaySubscriberFor gives k
  HeaderCapabilities,  \* HeaderCapabilities[k]: what the x-vellum-cu-* headers
                       \* of k add to its live subscription
  MaxSubscribers,      \* cap of the hub
  HighWaterMark,       \* CountQueuingStrategy of the response stream
  Forwarding           \* worker processes forward events over IPC

ASSUME HubAssumption ==
  /\ MaxSubscribers \in Nat \ {0}
  /\ HighWaterMark \in Nat \ {0}
  /\ Forwarding \in BOOLEAN
  /\ Clients \cap Plugins = {}
  /\ \A k \in Clients : DOMAIN Identity[k] = DOMAIN ProcessSubscriber

VARIABLES
  subs,      \* the subscriber set in insertion order (clients and plugins)
  conns,     \* conns[k]: the SSE response of client k, or NoConn
  chain,     \* events whose publish waits on _hubChain
  running,   \* publishes in progress, in microtask order
  cursor     \* cursor[k]: highest seq the client has applied; 0 for none

hubVars == <<subs, conns, chain, running, cursor>>
vars == <<streamVars, hubVars>>

NoCursor == -1
NoConn == [open |-> FALSE]
Heartbeat == 0

\* scope: the conversation filter; from: the lastSeenSeq presented; base: the
\* seq after which this connection owes its client every event; frames: the
\* seqs enqueued so far; queue: what the client has not read yet.
Conn == [open : {TRUE}, scope : Scopes, from : Nat \cup {NoCursor}, base : Nat,
         highWaterReplaySeq : Nat \cup {-1}, frames : Seq(Nat), queue : Seq(Nat)]

Publish == [entry : Entry, lane : {"chain", "ipc"}, todo : Seq(Clients \cup Plugins),
            parked : BOOLEAN, sync : BOOLEAN]

\* Types, and that `subs` is a set: the hub holds a subscriber once.
HubTypeOK ==
  /\ StreamTypeOK
  /\ subs \in Seq(Clients \cup Plugins)
  /\ \A i, j \in DOMAIN subs : subs[i] = subs[j] => i = j
  /\ conns \in [Clients -> Conn \cup {NoConn}]
  /\ chain \in Seq(Entry)
  /\ running \in Seq(Publish)
  /\ cursor \in [Clients -> Nat]

Active(s) == s \in Range(subs)

\* The numbers of a finite set in ascending order.
Ascending(S) ==
  [n \in 1..Cardinality(S) |-> CHOOSE x \in S : Cardinality({y \in S : y <= x}) = n]

\* What a sequence has at the positions in K.
KeepAt(s, K) == [n \in 1..Cardinality(K) |-> s[Ascending(K)[n]]]

----------------------------------------------------------------------------
(* Who gets what: live fanout against replay.                               *)

LiveIdentity(s) ==
  IF s \in Plugins THEN ProcessSubscriber
  ELSE [Identity[s] EXCEPT !.capabilities = @ \cup HeaderCapabilities[s]]

ScopeOf(s) == IF s \in Plugins THEN Absent ELSE conns[s].scope

\* The checks of publish(): targeting, then the conversation filter, which an
\* event that names a client ignores.
LiveMatches(e, s) ==
  /\ MatchesTargeting(e.targeting, LiveIdentity(s))
  /\ \/ e.targeting.targetClientId # Absent
     \/ ScopeOf(s) \in {Absent, e.conv}

\* Mutant: replay forgets the targeting of the event.
ReplayUntargeted(e, k, scope) == scope \in {Absent, e.conv}

\* The filter of getReplayWindow, with the identity the route rebuilds.
ReplayMatches(e, k, scope) ==
  /\ scope \in {Absent, e.conv}
  /\ MatchesTargeting(e.targeting, Identity[k])

----------------------------------------------------------------------------
(* Publishing.                                                              *)

\* No publish can take a step on its own: only then does a macrotask run.
Quiescent ==
  /\ \A i \in DOMAIN running : running[i].parked
  /\ chain # <<>> => \E i \in DOMAIN running : running[i].lane = "chain"

\* Some publish is between two awaits: no other code runs.
Synchronous == \E i \in DOMAIN running : running[i].sync

\* The publish whose turn it is: the one in the middle of its synchronous part,
\* else the first in microtask order that is not parked.
Current(i) ==
  /\ i \in DOMAIN running
  /\ ~running[i].parked
  /\ \/ running[i].sync
     \/ ~Synchronous /\ \A j \in 1..(i - 1) : running[j].parked

\* A publish is over when every subscriber of its snapshot is done.
Unsettled(pubs) ==
  KeepAt(pubs, {i \in DOMAIN pubs : pubs[i].parked \/ pubs[i].todo # <<>>})

\* publish() takes its snapshot and runs on until its first await.
StartPublish(e, lane) ==
  running' = Unsettled(<<[entry |-> e, lane |-> lane, todo |-> subs,
                          parked |-> FALSE, sync |-> TRUE]>> \o running)

StampedEntry(conv, t) == [seq |-> counter'.nextSeq - 1, conv |-> conv, targeting |-> t]

BroadcastMessage(conv, t) ==
  /\ ~Synchronous
  /\ StampAndBuffer(conv, t)
  /\ chain' = Append(chain, StampedEntry(conv, t))
  /\ UNCHANGED <<subs, conns, running, cursor>>

\* handleEventsPublish: stamp, then publish without joining the chain.
HandleEventsPublish(conv, t) ==
  /\ Forwarding
  /\ Quiescent
  /\ StampAndBuffer(conv, t)
  /\ StartPublish(StampedEntry(conv, t), "ipc")
  /\ UNCHANGED <<subs, conns, chain, cursor>>

ChainPublish ==
  /\ ~Synchronous
  /\ chain # <<>>
  /\ \A i \in DOMAIN running : running[i].lane # "chain"
  /\ StartPublish(Head(chain), "chain")
  /\ chain' = Tail(chain)
  /\ UNCHANGED <<streamVars, subs, conns, cursor>>

Without(s, gone) == KeepAt(s, {i \in DOMAIN s : s[i] \notin gone})

\* A disposed entry is skipped by every publish that still has it ahead.
SkipDisposed(pubs, gone) ==
  Unsettled([i \in DOMAIN pubs |-> [pubs[i] EXCEPT !.todo = Without(@, gone)]])

\* The next subscriber of the publish is done without an await ...
Skip(i) == [running EXCEPT ![i].todo = Tail(@), ![i].sync = TRUE]

\* The publishes beside the i-th.
Others(i) == KeepAt(running, DOMAIN running \ {i})

\* ... or its callback is awaited: the rest is a later microtask, or waits for
\* the callback's promise.
Await(i, parked) ==
  Append(Others(i),
         [running[i] EXCEPT !.todo = Tail(@), !.sync = FALSE, !.parked = parked])

\* The SSE callback: drop what replay already delivered, shed a reader that
\* does not keep up, otherwise enqueue.
\* Mutant: the last replayed event is delivered again.
AlreadyReplayedStrict(c, seq) == c.highWaterReplaySeq >= 0 /\ seq < c.highWaterReplaySeq

AlreadyReplayed(c, seq) == c.highWaterReplaySeq >= 0 /\ seq <= c.highWaterReplaySeq

BackPressured(c) == Len(c.queue) >= HighWaterMark

Enqueue(c, seq) == [c EXCEPT !.frames = Append(@, seq), !.queue = Append(@, seq)]

\* Mutant: backpressure drops the event and keeps the connection.
CallSseDropping(i, k, seq) ==
  /\ conns' = IF AlreadyReplayed(conns[k], seq) \/ BackPressured(conns[k]) THEN conns
              ELSE [conns EXCEPT ![k] = Enqueue(@, seq)]
  /\ running' = Unsettled(Await(i, FALSE))
  /\ UNCHANGED subs

CallSse(i, k, seq) ==
  \/ /\ AlreadyReplayed(conns[k], seq)
     /\ running' = Unsettled(Await(i, FALSE))
     /\ UNCHANGED <<subs, conns>>
  \/ /\ ~AlreadyReplayed(conns[k], seq)
     /\ BackPressured(conns[k])
     /\ subs' = Without(subs, {k})
     /\ running' = SkipDisposed(Await(i, FALSE), {k})
     /\ UNCHANGED conns
  \/ /\ ~AlreadyReplayed(conns[k], seq)
     /\ ~BackPressured(conns[k])
     /\ conns' = [conns EXCEPT ![k] = Enqueue(@, seq)]
     /\ running' = Unsettled(Await(i, FALSE))
     /\ UNCHANGED subs

\* One turn of the loop of publish().
Deliver(i) ==
  LET e == running[i].entry
      s == Head(running[i].todo)
  IN /\ Current(i)
     /\ \/ /\ ~LiveMatches(e, s)
           /\ running' = Unsettled(Skip(i))
           /\ UNCHANGED <<subs, conns>>
        \/ /\ LiveMatches(e, s)
           /\ s \in Plugins
           /\ running' = Await(i, TRUE)
           /\ UNCHANGED <<subs, conns>>
        \/ /\ LiveMatches(e, s)
           /\ s \in Clients
           /\ CallSse(i, s, e.seq)
     /\ UNCHANGED <<streamVars, chain, cursor>>

\* Mutant: a settled callback resumes the publish only if it was the last one.
ResumesOnlyAtEnd(i) ==
  /\ ~Synchronous
  /\ running[i].parked
  /\ running[i].todo = <<>>
  /\ running' = Others(i)
  /\ UNCHANGED <<streamVars, subs, conns, chain, cursor>>

\* A plugin's promise settles (a rejection is collected, so it counts too).
CallbackSettles(i) ==
  /\ ~Synchronous
  /\ running[i].parked
  /\ running' = Unsettled(Append(Others(i), [running[i] EXCEPT !.parked = FALSE]))
  /\ UNCHANGED <<streamVars, subs, conns, chain, cursor>>

----------------------------------------------------------------------------
(* Subscribing.                                                             *)

\* Entries removed when s subscribes: the stale one of the same client and,
\* at the cap, the oldest of the others.
Displaced(s) ==
  LET others == Without(subs, {s})
  IN  {s} \cup IF Len(others) >= MaxSubscribers THEN {Head(others)} ELSE {}

Subscribe(s) ==
  /\ subs' = Append(Without(subs, Displaced(s)), s)
  /\ running' = SkipDisposed(running, Displaced(s))

PluginSubscribe(p) ==
  /\ proc = "serving"
  /\ Quiescent
  /\ ~Active(p)
  /\ Subscribe(p)
  /\ UNCHANGED <<streamVars, conns, chain, cursor>>

\* The response stream of a new connection with no cursor, or whose cursor the
\* ring no longer covers, starts live; otherwise with the replay window.
LiveConn(scope, from) ==
  [open |-> TRUE, scope |-> scope, from |-> from, base |-> counter.nextSeq - 1,
   highWaterReplaySeq |-> -1, frames |-> <<>>, queue |-> <<Heartbeat>>]

ReplayConn(k, scope, from, entries) ==
  LET replayed == Seqs({e \in ReplayWindow(entries, from) : ReplayMatches(e, k, scope)})
      frames == Ascending(replayed)
  IN  [open |-> TRUE, scope |-> scope, from |-> from,
       base |-> IF entries = {} THEN counter.nextSeq - 1 ELSE from,
       highWaterReplaySeq |-> IF replayed = {} THEN -1 ELSE Max(replayed),
       frames |-> frames, queue |-> Append(frames, Heartbeat)]

\* handleSubscribeAssistantEvents: subscribe, then start() drains the replay
\* synchronously and sends the first heartbeat.
SubscribeAssistantEvents(k, scope) ==
  /\ proc = "serving"
  /\ Quiescent
  /\ Subscribe(k)
  /\ \/ /\ cursor[k] = 0
        /\ conns' = [conns EXCEPT ![k] = LiveConn(scope, NoCursor)]
        /\ UNCHANGED ring
     \/ /\ ring' \in Evict(ring)
        /\ conns' = [conns EXCEPT ![k] =
             IF CoversCursor(ring', cursor[k], counter.firstStampedSeq)
             THEN ReplayConn(k, scope, cursor[k], ring')
             ELSE LiveConn(scope, cursor[k])]
  /\ UNCHANGED <<proc, counter, disk, convSeq, issued, past, chain, cursor>>

----------------------------------------------------------------------------
(* The life of a connection.                                                *)

Dispose(k) ==
  /\ subs' = Without(subs, {k})
  /\ running' = SkipDisposed(running, {k})

\* The heartbeat timer: sheds a reader that does not keep up.
HeartbeatTimer(k) ==
  /\ Quiescent
  /\ Active(k)
  /\ \/ /\ BackPressured(conns[k])
        /\ Dispose(k)
        /\ UNCHANGED conns
     \/ /\ ~BackPressured(conns[k])
        /\ conns' = [conns EXCEPT ![k].queue = Append(@, Heartbeat)]
        /\ UNCHANGED <<subs, running>>
  /\ UNCHANGED <<streamVars, chain, cursor>>

\* The client reads one frame and applies it.  A stream closed by the daemon
\* (shed, evicted) can still be read to its end.
ClientReads(k) ==
  /\ Quiescent
  /\ conns[k].open
  /\ conns[k].queue # <<>>
  /\ conns' = [conns EXCEPT ![k].queue = Tail(@)]
  /\ cursor' = [cursor EXCEPT ![k] = Max({@, Head(conns[k].queue)})]
  /\ UNCHANGED <<streamVars, subs, chain, running>>

\* The abort signal, or cancel() of the response: what was queued is lost.
AbortConnection(k) ==
  /\ Quiescent
  /\ conns[k].open
  /\ Dispose(k)
  /\ conns' = [conns EXCEPT ![k] = NoConn]
  /\ UNCHANGED <<streamVars, chain, cursor>>

\* `clients disconnect`: the entry goes, the stream is closed, not aborted.
DisposeClient(k) ==
  /\ Quiescent
  /\ Active(k)
  /\ Dispose(k)
  /\ UNCHANGED <<streamVars, conns, chain, cursor>>

DaemonCrash ==
  /\ Crash
  /\ subs' = <<>>
  /\ conns' = [k \in Clients |-> NoConn]
  /\ chain' = <<>>
  /\ running' = <<>>
  /\ UNCHANGED cursor

HubInit ==
  /\ StreamInit
  /\ subs = <<>>
  /\ conns = [k \in Clients |-> NoConn]
  /\ chain = <<>>
  /\ running = <<>>
  /\ cursor = [k \in Clients |-> 0]

DaemonBoot == (StartProcess \/ FloorSeqAbove) /\ UNCHANGED hubVars

PublishStep == ChainPublish \/ \E i \in DOMAIN running : Deliver(i)

HubNext ==
  \/ DaemonBoot
  \/ DaemonCrash
  \/ \E conv \in Conversations, t \in Targetings :
       BroadcastMessage(conv, t) \/ HandleEventsPublish(conv, t)
  \/ PublishStep
  \/ \E i \in DOMAIN running : CallbackSettles(i)
  \/ \E p \in Plugins : PluginSubscribe(p)
  \/ \E k \in Clients :
       \/ \E scope \in Scopes : SubscribeAssistantEvents(k, scope)
       \/ HeartbeatTimer(k)
       \/ ClientReads(k)
       \/ AbortConnection(k)
       \/ DisposeClient(k)

HubSpec == HubInit /\ [][HubNext]_vars

\* The event loop runs microtasks to completion, and plugin callbacks settle:
\* nothing in publish() guards against one that never does.
HubFairSpec ==
  HubSpec /\ WF_vars(PublishStep) /\ WF_vars(\E i \in DOMAIN running : CallbackSettles(i))

----------------------------------------------------------------------------
(* Properties.                                                              *)

\* On one connection a client sees the events in strictly increasing seq
\* order, so no event twice: the chain "serializes publishes so subscribers
\* always observe events in send order", and the high-water mark of the
\* replay drops the live copy of a replayed event.  It holds of what goes
\* through the chain; an event that handleEventsPublish forwards past it can
\* overtake a broadcast that is still on its way.
FramesInOrder ==
  \A k \in Clients : conns[k].open =>
    \A i, j \in DOMAIN conns[k].frames :
      i < j => conns[k].frames[i] < conns[k].frames[j]

\* A connection never carries an event at or below the cursor its client
\* presented: the client would take it for a daemon whose counter moved back.
FramesAboveCursor ==
  \A k \in Clients : conns[k].open =>
    \A i \in DOMAIN conns[k].frames : conns[k].frames[i] > conns[k].from

Pending(e, k) ==
  \/ e \in Range(chain)
  \/ \E i \in DOMAIN running : running[i].entry = e /\ k \in Range(running[i].todo)

\* Nothing falls between replay and live delivery: on a live connection, every
\* event the client is owed (stamped after it connected, or after the cursor it
\* presented when the ring covered it) is enqueued or still on its way.
NoEventLost ==
  \A k \in Clients : Active(k) =>
    \A e \in issued :
      e.seq > conns[k].base /\ LiveMatches(e, k) =>
        e.seq \in Range(conns[k].frames) \/ Pending(e, k)

\* Targeted events stay in their delivery set, on replay as well as live.
DeliveredOnlyToAudience ==
  \A k \in Clients : conns[k].open =>
    \A e \in issued : e.seq \in Range(conns[k].frames) => LiveMatches(e, k)

\* Every broadcast is eventually published to all its subscribers: neither a
\* disposed subscriber nor a slow one leaves an event stuck on the chain.
PublishesFinish == []<>(chain = <<>> /\ running = <<>>)
=============================================================================
