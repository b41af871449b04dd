------------------------------ MODULE EventBus ------------------------------
(***************************************************************************)
(* The event bus of each server: a tokio broadcast channel, the WebSocket  *)
(* and SSE forwarders that read it, and the NATS bridge, which publishes   *)
(* what a server broadcasts and broadcasts what other servers publish.     *)
(*                                                                         *)
(* A broadcast channel keeps its last Capacity messages.  Each receiver    *)
(* has a position of its own; one that is further behind than Capacity     *)
(* gets an error (Lagged) once and continues at the oldest message kept.   *)
(***************************************************************************)
EXTENDS Naturals, Sequences, FiniteSets

CONSTANTS
    Servers,   \* the instances of the backend that are modelled in full
    Peers,     \* other instances, of which only the publications matter
    Sockets,   \* WebSocket and SSE connections
    Events,    \* the events that handlers may send
    Capacity,  \* of a broadcast channel
    MaxSent    \* bound: messages on one bus between two restarts

ASSUME EventBusAssumption ==
    /\ Capacity \in Nat \ {0} /\ MaxSent \in Nat
    /\ Servers \cap Peers = {}
    /\ Sockets \cap {"dispatcher", "outbound"} = {}

VARIABLES
    bus,      \* what was broadcast on each server since it started
    on,       \* the receivers of each bus that are still being read
    at,       \* how many messages each receiver has taken or skipped
    open,     \* the connections of each server
    bridge,   \* how far each server's NATS bridge has come
    wire,     \* published messages on their way to each subscription
    emitted   \* the events that handlers have sent

busVars == <<bus, on, at, open, bridge, wire, emitted>>

Receivers == {"dispatcher", "outbound"} \cup Sockets
Message == [origin : Servers \cup Peers, event : Events]

Pending(s, r) == r \in on[s] /\ at[s][r] < Len(bus[s])
Lagged(s, r) == Len(bus[s]) - at[s][r] > Capacity

\* recv(): the next message, or the error and a jump to the oldest one kept.
Take(s, r) == at' = [at EXCEPT ![s][r] = @ + 1]
Skip(s, r) == at' = [at EXCEPT ![s][r] = Len(bus[s]) - Capacity]
Oldest(s, r) == bus[s][at[s][r] + 1]

Subscribe(s, r) ==
    /\ on' = [on EXCEPT ![s] = @ \cup {r}]
    /\ at' = [at EXCEPT ![s][r] = Len(bus[s])]

Stop(s, r) == on' = [on EXCEPT ![s] = @ \ {r}]

Broadcast(s, e) ==
    /\ Len(bus[s]) < MaxSent
    /\ bus' = [bus EXCEPT ![s] = Append(@, e)]

-----------------------------------------------------------------------------
\* A handler sends an event on the bus of its server.
Emit(s, e) ==
    /\ e \notin emitted
    /\ emitted' = emitted \cup {e}
    /\ Broadcast(s, e)
    /\ UNCHANGED <<on, at, open, bridge, wire>>

-----------------------------------------------------------------------------
(* WebSocket and SSE forwarders *)

SocketOpen(s, x) ==
    /\ \A t \in Servers : x \notin open[t]
    /\ open' = [open EXCEPT ![s] = @ \cup {x}]
    /\ Subscribe(s, x)
    /\ UNCHANGED <<bus, bridge, wire, emitted>>

SocketSend(s, x) ==
    /\ Pending(s, x)
    /\ ~Lagged(s, x)
    /\ Take(s, x)
    /\ UNCHANGED <<bus, on, open, bridge, wire, emitted>>

\* Mutant: the forwarder ends when it lags, as the other receivers do.
SocketLagStops(s, x) ==
    /\ Pending(s, x)
    /\ Lagged(s, x)
    /\ Stop(s, x)
    /\ UNCHANGED <<bus, at, open, bridge, wire, emitted>>

\* A slow client loses the gap and keeps its forwarder.
SocketLag(s, x) ==
    /\ Pending(s, x)
    /\ Lagged(s, x)
    /\ Skip(s, x)
    /\ UNCHANGED <<bus, on, open, bridge, wire, emitted>>

\* The client closes the connection, or sending to it fails.
SocketClose(s, x) ==
    /\ x \in open[s]
    /\ open' = [open EXCEPT ![s] = @ \ {x}]
    /\ Stop(s, x)
    /\ UNCHANGED <<bus, at, bridge, wire, emitted>>

-----------------------------------------------------------------------------
(* spawn_nats_bridge *)

\* The outbound task subscribes to the bus first ...
BridgeOutbound(s) ==
    /\ bridge[s] = "off"
    /\ bridge' = [bridge EXCEPT ![s] = "outbound"]
    /\ Subscribe(s, "outbound")
    /\ UNCHANGED <<bus, open, wire, emitted>>

\* ... and the inbound loop to the subject; either may fail for good.
BridgeInbound(s) ==
    /\ bridge[s] = "outbound"
    /\ bridge' = [bridge EXCEPT ![s] = "linked"]
    /\ UNCHANGED <<bus, on, at, open, wire, emitted>>

\* NATS delivers a message at most once to each subscription, the publisher's
\* own included.
Distribute(m) ==
    wire' = [t \in Servers |-> IF bridge[t] = "linked" THEN Append(wire[t], m)
                                                      ELSE wire[t]]

\* Every broadcast is published, with this server as its origin, whether a
\* handler or the inbound loop sent it.
Publish(s) ==
    /\ Pending(s, "outbound")
    /\ ~Lagged(s, "outbound")
    /\ Take(s, "outbound")
    /\ Distribute([origin |-> s, event |-> Oldest(s, "outbound")])
    /\ UNCHANGED <<bus, on, open, bridge, emitted>>

\* A peer publishes an event of its own or one that it received (bound: when
\* nothing else is on its way).
PeerPublish(p, e) ==
    /\ \A s \in Servers : wire[s] = <<>>
    /\ Distribute([origin |-> p, event |-> e])
    /\ UNCHANGED <<bus, on, at, open, bridge, emitted>>

\* `while let Ok(msg) = rx.recv().await` ends when the receiver has lagged.
OutboundStops(s) ==
    /\ Pending(s, "outbound")
    /\ Lagged(s, "outbound")
    /\ Stop(s, "outbound")
    /\ UNCHANGED <<bus, at, open, bridge, wire, emitted>>

\* The inbound loop drops what this server published itself.
Inbound(s) ==
    /\ wire[s] # <<>>
    /\ wire' = [wire EXCEPT ![s] = Tail(@)]
    /\ LET m == Head(wire[s]) IN
       IF m.origin = s THEN UNCHANGED bus ELSE Broadcast(s, m.event)
    /\ UNCHANGED <<on, at, open, bridge, emitted>>

\* NATS gives no guarantee of delivery.
Lose(s) ==
    /\ wire[s] # <<>>
    /\ wire' = [wire EXCEPT ![s] = Tail(@)]
    /\ UNCHANGED <<bus, on, at, open, bridge, emitted>>

\* Mutant: the receivers' positions survive the channel.
RestartKeepingPositions(s) ==
    /\ bus' = [bus EXCEPT ![s] = <<>>]
    /\ on' = [on EXCEPT ![s] = {"dispatcher"}]
    /\ open' = [open EXCEPT ![s] = {}]
    /\ bridge' = [bridge EXCEPT ![s] = "off"]
    /\ wire' = [wire EXCEPT ![s] = <<>>]
    /\ UNCHANGED <<at, emitted>>

\* A server stops and starts again: main() subscribes the webhook dispatcher
\* before it serves anything.
Restart(s) ==
    /\ bus' = [bus EXCEPT ![s] = <<>>]
    /\ on' = [on EXCEPT ![s] = {"dispatcher"}]
    /\ at' = [at EXCEPT ![s] = [r \in Receivers |-> 0]]
    /\ open' = [open EXCEPT ![s] = {}]
    /\ bridge' = [bridge EXCEPT ![s] = "off"]
    /\ wire' = [wire EXCEPT ![s] = <<>>]
    /\ UNCHANGED emitted

-----------------------------------------------------------------------------
BusInit ==
    /\ bus = [s \in Servers |-> <<>>]
    /\ on = [s \in Servers |-> {"dispatcher"}]
    /\ at = [s \in Servers |-> [r \in Receivers |-> 0]]
    /\ open = [s \in Servers |-> {}]
    /\ bridge = [s \in Servers |-> "off"]
    /\ wire = [s \in Servers |-> <<>>]
    /\ emitted = {}

Forward(s, x) == SocketSend(s, x) \/ SocketLag(s, x)

Bridge(s) ==
    \/ BridgeOutbound(s) \/ BridgeInbound(s)
    \/ Publish(s) \/ OutboundStops(s) \/ Inbound(s) \/ Lose(s)

BusStep(s) ==
    \/ \E e \in Events : Emit(s, e)
    \/ \E x \in Sockets : SocketOpen(s, x) \/ Forward(s, x) \/ SocketClose(s, x)
    \/ Bridge(s)

PeerStep == \E p \in Peers, e \in Events : PeerPublish(p, e)

BusNext == (\E s \in Servers : BusStep(s) \/ Restart(s)) \/ PeerStep

BusSpec == BusInit /\ [][BusNext]_busVars

\* A forwarder runs as long as its connection is open.
BusFairness == \A s \in Servers, x \in Sockets : WF_busVars(Forward(s, x))

-----------------------------------------------------------------------------
(* Properties *)

\* The state keeps its shape, and no receiver is ahead of its bus.
BusTypeOK ==
    /\ bus \in [Servers -> Seq(Events)]
    /\ on \in [Servers -> SUBSET Receivers]
    /\ at \in [Servers -> [Receivers -> Nat]]
    /\ \A s \in Servers, r \in Receivers : at[s][r] <= Len(bus[s])
    /\ open \in [Servers -> SUBSET Sockets]
    /\ bridge \in [Servers -> {"off", "outbound", "linked"}]
    /\ wire \in [Servers -> Seq(Message)]
    /\ emitted \subseteq Events

\* The inbound loop is there to "drop our own echoes": an event is broadcast
\* once on each bus.
EventsOnce ==
    \A s \in Servers : \A i, j \in 1..Len(bus[s]) :
      i # j => bus[s][i] # bus[s][j]

\* A connection that stays open is served: it gets past every message that is
\* broadcast, lagging or not ("so a slow client doesn't silently lose its
\* forwarder").
OpenSocketIsServed ==
    \A s \in Servers, x \in Sockets, i \in 1..MaxSent :
      (x \in open[s] /\ Len(bus[s]) >= i) ~> (x \notin open[s] \/ at[s][x] >= i)
==============================================================================
