------------------------------ MODULE Topology ------------------------------
(***************************************************************************)
(* The cutover of the broker between the legacy queue ("v1") and the       *)
(* hardened one ("v2"), upgrade and rollback: outbox-topology moves the    *)
(* backlog one confirmed copy at a time and then swaps the bindings, and   *)
(* may fail between any two of its steps and be run again.  Publishers of  *)
(* this release refuse to connect without the cutover marker; consumers    *)
(* bind "v2" whenever they connect.                                        *)
(*                                                                         *)
(* As the runbook asks, the operator pauses the publishers before the      *)
(* command: none runs until a rollback has deleted the marker.  A queue is *)
(* the set of the events in it: consumers deduplicate by event.            *)
(***************************************************************************)
EXTENDS FiniteSets

CONSTANTS Events, NoEvent

ASSUME EventAssumption == NoEvent \notin Events

VARIABLES
  queue,      \* the events in "v1" and in "v2"
  bound,      \* queues bound to the exchange, and dead-letter queues to theirs
  marker,     \* the cutover marker exists
  active,     \* the queue of the last completed migration, "" in between
  migration,  \* direction, next step and the event in hand
  publisher,  \* of this release: "off", "checked" or "open"
  consumer,   \* connected, and the event in hand
  routed, consumed,
  handedBack  \* by a consumer, to a queue that is not the active one

topologyVars == <<queue, bound, marker, active, migration, publisher, consumer, routed, consumed, handedBack>>

Queues == {"v1", "v2"}
DLQ(q) == IF q = "v1" THEN "v1.dlq" ELSE "v2.dlq"

Source      == IF migration.direction = "upgrade" THEN "v1" ELSE "v2"
Destination == IF migration.direction = "upgrade" THEN "v2" ELSE "v1"

Resting == [direction |-> "", pc |-> "none", held |-> NoEvent]
Running == migration.pc # "none"

\* The legacy topology with some backlog.
TopologyInit ==
  /\ queue \in [Queues -> SUBSET Events] /\ queue["v2"] = {}
  /\ bound = {"v1", DLQ("v1")}
  /\ marker = FALSE /\ active = "v1"
  /\ migration = Resting
  /\ publisher = "off"
  /\ consumer = [connected |-> FALSE, held |-> NoEvent]
  /\ routed = queue["v1"] /\ consumed = {} /\ handedBack = {}

-----------------------------------------------------------------------------
(* outbox-topology *)

Step(from, to) == migration.pc = from /\ migration' = [migration EXCEPT !.pc = to]

Start ==
  /\ ~Running
  /\ publisher' = "off"
  /\ \E d \in {"upgrade", "rollback"} :
       migration' = [Resting EXCEPT !.direction = d,
                                    !.pc = IF d = "rollback" THEN "marker" ELSE "preflight"]
  /\ UNCHANGED <<queue, bound, marker, active, consumer, routed, consumed, handedBack>>

\* A rollback first stops the publishers.
DeleteMarker ==
  /\ Step("marker", "preflight")
  /\ marker' = FALSE
  /\ UNCHANGED <<queue, bound, active, publisher, consumer, routed, consumed, handedBack>>

\* Both topologies are there; an upgrade declares the new queue unbound.
Preflight ==
  /\ Step("preflight", "get")
  /\ bound' = IF migration.direction = "upgrade" THEN bound \cup {DLQ("v2")} ELSE bound
  /\ active' = IF active = Destination THEN active ELSE ""
  /\ UNCHANGED <<queue, marker, publisher, consumer, routed, consumed, handedBack>>

Get ==
  /\ migration.pc = "get"
  /\ \E e \in queue[Source] :
       /\ queue' = [queue EXCEPT ![Source] = @ \ {e}]
       /\ migration' = [migration EXCEPT !.pc = "copy", !.held = e]
  /\ UNCHANGED <<bound, marker, active, publisher, consumer, routed, consumed, handedBack>>

\* The broker has the copy; its confirmation may still be lost.  It goes through the default
\* exchange to a queue that Preflight has found and nobody deletes, so it is not returned.
Copy ==
  /\ Step("copy", "ack")
  /\ queue' = [queue EXCEPT ![Destination] = @ \cup {migration.held}]
  /\ UNCHANGED <<bound, marker, active, publisher, consumer, routed, consumed, handedBack>>

Ack ==
  /\ migration.pc = "ack"
  /\ migration' = [migration EXCEPT !.pc = "get", !.held = NoEvent]
  /\ UNCHANGED <<queue, bound, marker, active, publisher, consumer, routed, consumed, handedBack>>

Drained ==
  /\ queue[Source] = {} /\ Step("get", "bind")
  /\ UNCHANGED <<queue, bound, marker, active, publisher, consumer, routed, consumed, handedBack>>

Rebind(from, to, bindings) ==
  /\ Step(from, to) /\ bound' = bindings
  /\ UNCHANGED <<queue, marker, active, publisher, consumer, routed, consumed, handedBack>>

Bind      == Rebind("bind", "unbind", bound \cup {Destination})
Unbind    == Rebind("unbind", "bindDLQ", bound \ {Source})
BindDLQ   == Rebind("bindDLQ", "unbindDLQ", bound \cup {DLQ(Destination)})
UnbindDLQ == Rebind("unbindDLQ", "finish", bound \ {DLQ(Source)})

Complete ==
  /\ migration.pc = "finish" /\ migration' = Resting
  /\ marker' = (marker \/ migration.direction = "upgrade")
  /\ active' = Destination
  /\ UNCHANGED <<queue, bound, publisher, consumer, routed, consumed, handedBack>>

\* An error or a crash; an event in hand goes back to its queue, whether it was copied or not.
Fail ==
  /\ Running /\ migration' = Resting
  /\ queue' = [queue EXCEPT ![Source] = @ \cup ({migration.held} \ {NoEvent})]
  /\ UNCHANGED <<bound, marker, active, publisher, consumer, routed, consumed, handedBack>>

-----------------------------------------------------------------------------
(* Publishers and consumers *)

\* Mutant of RequireTopologyCutover: a publisher connects without the marker.
ConnectAnyway ==
  /\ publisher = "off" /\ migration.pc # "marker"
  /\ publisher' = "checked"
  /\ UNCHANGED <<queue, bound, marker, active, migration, consumer, routed, consumed, handedBack>>

RequireTopologyCutover ==
  /\ publisher = "off" /\ migration.pc # "marker"
  /\ marker
  /\ publisher' = "checked"
  /\ UNCHANGED <<queue, bound, marker, active, migration, consumer, routed, consumed, handedBack>>

DeclareTopology ==
  /\ publisher = "checked" /\ publisher' = "open"
  /\ bound' = bound \cup {"v2", DLQ("v2")}
  /\ UNCHANGED <<queue, marker, active, migration, consumer, routed, consumed, handedBack>>

Disconnect ==
  /\ publisher # "off" /\ publisher' = "off"
  /\ UNCHANGED <<queue, bound, marker, active, migration, consumer, routed, consumed, handedBack>>

\* Publishers of an older release do not know the marker: they are started only where "v2" is
\* not in service.
LegacyPublishes == ~Running /\ active # "v2"

Publish ==
  /\ publisher = "open" \/ LegacyPublishes
  /\ \E e \in Events \ routed :
       /\ bound \cap Queues # {}
       /\ queue' = [q \in Queues |-> IF q \in bound THEN queue[q] \cup {e} ELSE queue[q]]
       /\ routed' = routed \cup {e}
  /\ UNCHANGED <<bound, marker, active, migration, publisher, consumer, consumed, handedBack>>

ConnectConsumer ==
  /\ ~consumer.connected
  /\ consumer' = [consumer EXCEPT !.connected = TRUE]
  /\ bound' = bound \cup {"v2", DLQ("v2")}
  /\ UNCHANGED <<queue, marker, active, migration, publisher, routed, consumed, handedBack>>

Deliver ==
  /\ consumer.connected /\ consumer.held = NoEvent
  /\ \E e \in queue["v2"] :
       /\ queue' = [queue EXCEPT !["v2"] = @ \ {e}]
       /\ consumer' = [consumer EXCEPT !.held = e]
  /\ UNCHANGED <<bound, marker, active, migration, publisher, routed, consumed, handedBack>>

Consume ==
  /\ consumer.held # NoEvent
  /\ consumed' = consumed \cup {consumer.held}
  /\ consumer' = [consumer EXCEPT !.held = NoEvent]
  /\ UNCHANGED <<queue, bound, marker, active, migration, publisher, routed, handedBack>>

ConsumerDies ==
  /\ consumer.connected
  /\ consumer' = [connected |-> FALSE, held |-> NoEvent]
  /\ queue' = [queue EXCEPT !["v2"] = @ \cup ({consumer.held} \ {NoEvent})]
  /\ handedBack' =
       IF Running \/ active # "v2" THEN handedBack \cup ({consumer.held} \ {NoEvent}) ELSE handedBack
  /\ UNCHANGED <<bound, marker, active, migration, publisher, routed, consumed>>

TopologyNext ==
  \/ Start \/ DeleteMarker \/ Preflight \/ Get \/ Copy \/ Ack \/ Drained
  \/ Bind \/ Unbind \/ BindDLQ \/ UnbindDLQ \/ Complete \/ Fail
  \/ RequireTopologyCutover \/ DeclareTopology \/ Disconnect \/ Publish
  \/ ConnectConsumer \/ Deliver \/ Consume \/ ConsumerDies

TopologySpec == TopologyInit /\ [][TopologyNext]_topologyVars

-----------------------------------------------------------------------------
(* Correctness *)

InFlight == {migration.held, consumer.held} \ {NoEvent}

\* The runbook's promise for the cutover, that it may duplicate an event but not lose it, with
\* failures and retries in both directions: every event the exchange routed is consumed, in
\* hand or queued; an event or a dead letter always finds a queue; and after a completed
\* migration nothing is left behind in the other queue only, except what a consumer that held
\* it across the move handed back.
NothingStranded ==
  /\ routed \subseteq consumed \cup InFlight \cup queue["v1"] \cup queue["v2"]
  /\ bound \cap Queues # {} /\ bound \cap {DLQ(q) : q \in Queues} # {}
  /\ ~Running /\ active \in Queues =>
       routed \subseteq consumed \cup InFlight \cup queue[active] \cup handedBack
=============================================================================
