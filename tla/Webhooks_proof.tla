---------------------------- MODULE Webhooks_proof ----------------------------
(* Proofs about Webhooks and the bus below it, for any number of servers,  *)
(* connections and hooks.                                                  *)
EXTENDS Webhooks, SequenceTheorems, TLAPS

-----------------------------------------------------------------------------
(* Type correctness *)

\* The bus's types, with the bound on its length that the positions rest on.
BusInv ==
    /\ BusTypeOK
    /\ \A s \in Servers : Len(bus[s]) <= MaxSent

\* Every step of the bus keeps its shape: no receiver gets ahead of it, not
\* even one that skips a gap or starts over with its server.
LEMMA BusTypes ==
    ASSUME BusInv, BusNext \/ UNCHANGED busVars
    PROVE  BusInv'
<1> USE DEF BusInv, BusTypeOK
<1>1. /\ Capacity \in Nat \ {0} /\ MaxSent \in Nat
      /\ \A s \in Servers : Len(bus[s]) \in Nat
      /\ Sockets \subseteq Receivers /\ "outbound" \in Receivers
      /\ "dispatcher" \in Receivers
  BY EventBusAssumption, LenProperties DEF Receivers
<1>2. ASSUME NEW s \in Servers, NEW e \in Events, Broadcast(s, e)
      PROVE  /\ bus' \in [Servers -> Seq(Events)]
             /\ \A t \in Servers : Len(bus[t]) <= Len(bus'[t])
             /\ \A t \in Servers : Len(bus'[t]) <= MaxSent
  <2>1. /\ Append(bus[s], e) \in Seq(Events)
        /\ Len(Append(bus[s], e)) = Len(bus[s]) + 1
    BY AppendProperties
  <2>2. /\ bus'[s] = Append(bus[s], e)
        /\ \A t \in Servers \ {s} : bus'[t] = bus[t]
        /\ Len(bus[s]) < MaxSent
    BY <1>2 DEF Broadcast
  <2>3. bus' \in [Servers -> Seq(Events)]
    BY <1>2, <2>1 DEF Broadcast
  <2>4. ASSUME NEW t \in Servers
        PROVE  Len(bus[t]) <= Len(bus'[t]) /\ Len(bus'[t]) <= MaxSent
    <3>1. CASE t = s
      BY <1>1, <2>1, <2>2, <3>1
    <3>2. CASE t # s
      BY <1>1, <2>2, <3>2
    <3> QED
      BY <3>1, <3>2
  <2> QED
    BY <2>3, <2>4
<1>3. ASSUME NEW s \in Servers, NEW r \in Receivers, NEW n \in Nat,
             n <= Len(bus[s]), at' = [at EXCEPT ![s][r] = n]
      PROVE  /\ at' \in [Servers -> [Receivers -> Nat]]
             /\ \A t \in Servers, x \in Receivers : at'[t][x] <= Len(bus[t])
  <2>1. at' \in [Servers -> [Receivers -> Nat]]
    BY <1>3
  <2>2. ASSUME NEW t \in Servers, NEW x \in Receivers
        PROVE  at'[t][x] <= Len(bus[t])
    BY <1>3
  <2> QED
    BY <2>1, <2>2
<1>4. ASSUME NEW s \in Servers, NEW e \in Events, Emit(s, e) PROVE BusInv'
  <2>1. Broadcast(s, e) /\ UNCHANGED <<on, at, open, bridge, wire>>
        /\ emitted' \subseteq Events
    BY <1>4 DEF Emit
  <2>2. /\ bus' \in [Servers -> Seq(Events)]
        /\ \A t \in Servers : Len(bus[t]) <= Len(bus'[t])
        /\ \A t \in Servers : Len(bus'[t]) <= MaxSent
    BY <1>2, <2>1
  <2>3. \A t \in Servers : Len(bus'[t]) \in Nat
    BY <2>2, LenProperties
  <2>4. \A t \in Servers, r \in Receivers : at'[t][r] <= Len(bus'[t])
    BY <1>1, <2>1, <2>2, <2>3
  <2> QED
    BY <2>1, <2>2, <2>4
<1>5. ASSUME NEW s \in Servers, NEW x \in Sockets, SocketOpen(s, x) PROVE BusInv'
  <2>1. /\ at' = [at EXCEPT ![s][x] = Len(bus[s])]
        /\ UNCHANGED <<bus, bridge, wire, emitted>>
        /\ on' = [on EXCEPT ![s] = @ \cup {x}]
        /\ open' = [open EXCEPT ![s] = @ \cup {x}]
    BY <1>5 DEF SocketOpen, Subscribe
  <2>2. /\ at' \in [Servers -> [Receivers -> Nat]]
        /\ \A t \in Servers, r \in Receivers : at'[t][r] <= Len(bus[t])
    BY <1>1, <1>3, <2>1
  <2> QED
    BY <1>1, <2>1, <2>2
<1>6. ASSUME NEW s \in Servers, NEW r \in Receivers, Pending(s, r),
             ~Lagged(s, r), Take(s, r)
      PROVE  /\ at' \in [Servers -> [Receivers -> Nat]]
             /\ \A t \in Servers, x \in Receivers : at'[t][x] <= Len(bus[t])
  <2>1. at[s][r] + 1 \in Nat /\ at[s][r] + 1 <= Len(bus[s])
    BY <1>1, <1>6 DEF Pending
  <2>2. at' = [at EXCEPT ![s][r] = at[s][r] + 1]
    BY <1>6 DEF Take
  <2> QED
    BY <1>3, <2>1, <2>2
<1>7. ASSUME NEW s \in Servers, NEW x \in Sockets, Forward(s, x) PROVE BusInv'
  <2>1. UNCHANGED <<bus, on, open, bridge, wire, emitted>>
    BY <1>7 DEF Forward, SocketSend, SocketLag
  <2>2. CASE SocketSend(s, x)
    BY <1>1, <1>6, <2>1, <2>2 DEF SocketSend
  <2>3. CASE SocketLag(s, x)
    <3>1. /\ Len(bus[s]) - Capacity \in Nat
          /\ Len(bus[s]) - Capacity <= Len(bus[s])
      BY <1>1, <2>3 DEF SocketLag, Lagged
    <3>2. at' = [at EXCEPT ![s][x] = Len(bus[s]) - Capacity]
      BY <2>3 DEF SocketLag, Skip
    <3>3. /\ at' \in [Servers -> [Receivers -> Nat]]
          /\ \A t \in Servers, r \in Receivers : at'[t][r] <= Len(bus[t])
      BY <1>1, <1>3, <3>1, <3>2
    <3> QED
      BY <2>1, <3>3
  <2> QED
    BY <1>7, <2>2, <2>3 DEF Forward
<1>8. ASSUME NEW s \in Servers, NEW x \in Sockets, SocketClose(s, x) PROVE BusInv'
  BY <1>8 DEF SocketClose, Stop
<1>9. ASSUME NEW m \in Message, Distribute(m)
      PROVE  wire' \in [Servers -> Seq(Message)]
  <2>1. \A t \in Servers : Append(wire[t], m) \in Seq(Message)
    BY <1>9, AppendProperties
  <2> QED
    BY <1>9, <2>1 DEF Distribute
<1>10. ASSUME NEW s \in Servers, Publish(s) PROVE BusInv'
  <2>1. Oldest(s, "outbound") \in Events
    BY <1>1, <1>10, ElementOfSeq DEF Publish, Pending, Oldest
  <2>2. [origin |-> s, event |-> Oldest(s, "outbound")] \in Message
    BY <2>1 DEF Message
  <2>3. wire' \in [Servers -> Seq(Message)]
    BY <1>9, <1>10, <2>2 DEF Publish
  <2>4. /\ at' \in [Servers -> [Receivers -> Nat]]
        /\ \A t \in Servers, x \in Receivers : at'[t][x] <= Len(bus[t])
    BY <1>1, <1>6, <1>10 DEF Publish
  <2> QED
    BY <1>10, <2>3, <2>4 DEF Publish
<1>11. ASSUME NEW s \in Servers, BridgeOutbound(s) PROVE BusInv'
  <2>1. at' = [at EXCEPT ![s]["outbound"] = Len(bus[s])]
    BY <1>11 DEF BridgeOutbound, Subscribe
  <2>2. /\ at' \in [Servers -> [Receivers -> Nat]]
        /\ \A t \in Servers, r \in Receivers : at'[t][r] <= Len(bus[t])
    BY <1>1, <1>3, <2>1
  <2> QED
    BY <1>1, <1>11, <2>2 DEF BridgeOutbound, Subscribe
<1>12. ASSUME NEW s \in Servers, BridgeInbound(s) \/ OutboundStops(s) PROVE BusInv'
  BY <1>12 DEF BridgeInbound, OutboundStops, Stop
<1>13. ASSUME NEW s \in Servers, Inbound(s) PROVE BusInv'
  <2>1. Head(wire[s]) \in Message /\ Tail(wire[s]) \in Seq(Message)
    BY <1>13, HeadTailProperties DEF Inbound
  <2>2. wire' \in [Servers -> Seq(Message)]
    BY <1>13, <2>1 DEF Inbound
  <2>3. UNCHANGED <<on, at, open, bridge, emitted>>
    BY <1>13 DEF Inbound
  <2>4. CASE Head(wire[s]).origin = s
    <3>1. bus' = bus
      BY <1>13, <2>4 DEF Inbound
    <3> QED
      BY <2>2, <2>3, <3>1
  <2>5. CASE Head(wire[s]).origin # s
    <3>1. Broadcast(s, Head(wire[s]).event)
      BY <1>13, <2>5 DEF Inbound
    <3>2. Head(wire[s]).event \in Events
      BY <2>1 DEF Message
    <3>3. /\ bus' \in [Servers -> Seq(Events)]
          /\ \A t \in Servers : Len(bus[t]) <= Len(bus'[t])
          /\ \A t \in Servers : Len(bus'[t]) <= MaxSent
      BY <1>2, <3>1, <3>2
    <3>4. \A t \in Servers : Len(bus'[t]) \in Nat
      BY <3>3, LenProperties
    <3>5. \A t \in Servers, r \in Receivers : at'[t][r] <= Len(bus'[t])
      BY <1>1, <2>3, <3>3, <3>4
    <3> QED
      BY <2>2, <2>3, <3>3, <3>5
  <2> QED
    BY <2>4, <2>5
<1>14. ASSUME NEW s \in Servers, Lose(s) PROVE BusInv'
  <2>1. Tail(wire[s]) \in Seq(Message)
    BY <1>14, HeadTailProperties DEF Lose
  <2> QED
    BY <1>14, <2>1 DEF Lose
<1>15. ASSUME NEW s \in Servers, Restart(s) PROVE BusInv'
  <2>1. /\ <<>> \in Seq(Events) /\ <<>> \in Seq(Message)
        /\ Len(bus'[s]) = 0
    BY <1>15, EmptySeq DEF Restart
  <2>2. /\ \A t \in Servers \ {s} : bus'[t] = bus[t] /\ at'[t] = at[t]
        /\ at'[s] = [r \in Receivers |-> 0]
    BY <1>15 DEF Restart
  <2>3. ASSUME NEW t \in Servers, NEW r \in Receivers
        PROVE  at'[t][r] <= Len(bus'[t])
    <3>1. CASE t = s
      BY <2>1, <2>2, <3>1
    <3>2. CASE t # s
      BY <2>2, <3>2
    <3> QED
      BY <3>1, <3>2
  <2>4. at' \in [Servers -> [Receivers -> Nat]]
    BY <1>15 DEF Restart
  <2> QED
    BY <1>1, <1>15, <2>1, <2>2, <2>3, <2>4 DEF Restart
<1>16. CASE PeerStep
  <2>1. PICK p \in Peers, e \in Events : PeerPublish(p, e)
    BY <1>16 DEF PeerStep
  <2>2. wire' \in [Servers -> Seq(Message)]
    BY <1>9, <2>1 DEF PeerPublish, Message
  <2> QED
    BY <2>1, <2>2 DEF PeerPublish
<1>17. CASE UNCHANGED busVars
  BY <1>17 DEF busVars
<1> QED
  BY <1>4, <1>5, <1>7, <1>8, <1>10, <1>11, <1>12, <1>13, <1>14, <1>15, <1>16,
     <1>17 DEF BusNext, BusStep, Bridge

\* A dispatcher that holds an event has taken it from the bus.
LookInv == BusInv /\ TypeOK

\* The rows of the hooks, the dispatchers and the deliveries keep their shape
\* beside the bus.
LEMMA TypesKept == Spec => []LookInv
<1> USE DEF LookInv
<1>1. Init => LookInv
  <2> SUFFICES ASSUME Init PROVE LookInv
    OBVIOUS
  <2>1. <<>> \in Seq(Events) /\ <<>> \in Seq(Message) /\ Len(<<>>) = 0
    BY EmptySeq
  <2>2. BusInv
    BY <2>1, EventBusAssumption DEF Init, BusInit, BusInv, BusTypeOK, Receivers
  <2>3. /\ hooks \in [Hooks -> Row] /\ looking \in [Servers -> 0..MaxSent]
        /\ tasks = {}
    <3>1. [Fresh EXCEPT !.is = "new"] \in Row
      BY DEF Row, Fresh
    <3>2. 0 \in 0..MaxSent
      BY EventBusAssumption
    <3> QED
      BY <3>1, <3>2 DEF Init
  <2> QED
    BY <2>2, <2>3 DEF BusInv, TypeOK
<1>2. LookInv /\ [Next]_vars => LookInv'
  <2> SUFFICES ASSUME LookInv, [Next]_vars PROVE LookInv'
    OBVIOUS
  <2> USE DEF TypeOK
  <2>1. /\ MaxSent \in Nat /\ Attempts \in Nat \ {0} /\ DisableAt \in Nat \ {0}
        /\ "dispatcher" \in Receivers
        /\ \A s \in Servers : Len(bus[s]) \in Nat
    BY EventBusAssumption, WebhooksAssumption, LenProperties
    DEF Receivers, BusTypeOK
  <2>2. ASSUME BusNext \/ UNCHANGED busVars, UNCHANGED hookVars PROVE LookInv'
    BY <2>2, BusTypes DEF hookVars, BusInv
  <2>3. ASSUME NEW h \in Hooks,
               CreateWebhook(h) \/ RevokeWebhook(h) \/ EnableWebhook(h)
        PROVE  LookInv'
    <3>1. UNCHANGED <<busVars, looking, tasks>>
      BY <2>3 DEF CreateWebhook, RevokeWebhook, EnableWebhook
    <3>2. hooks' \in [Hooks -> Row]
      <4>1. Fresh \in Row
        BY DEF Fresh, Row
      <4>2. [hooks[h] EXCEPT !.is = "revoked"] \in Row
        BY DEF Row
      <4>3. CASE RevokeWebhook(h)
        BY <4>2, <4>3 DEF RevokeWebhook
      <4> QED
        BY <2>3, <4>1, <4>3 DEF CreateWebhook, EnableWebhook
    <3> QED
      BY <3>1, <3>2, BusTypes DEF BusInv
  <2>4. ASSUME NEW s \in Servers, DispatcherRecv(s) PROVE LookInv'
    <3>1. UNCHANGED <<bus, open, bridge, wire, emitted, hooks, tasks>>
      BY <2>4 DEF DispatcherRecv
    <3>2. CASE Lagged(s, "dispatcher")
      BY <2>4, <3>1, <3>2 DEF DispatcherRecv, Stop, BusInv, BusTypeOK
    <3>3. CASE ~Lagged(s, "dispatcher")
      <4>1. /\ at' = [at EXCEPT ![s]["dispatcher"] = @ + 1]
            /\ on' = on
            /\ at[s]["dispatcher"] + 1 <= Len(bus[s])
            /\ at[s]["dispatcher"] + 1 \in 1..MaxSent
        BY <2>1, <2>4, <3>3
        DEF DispatcherRecv, Take, Pending, BusInv, BusTypeOK
      <4>2. at' \in [Servers -> [Receivers -> Nat]]
        BY <2>1, <4>1 DEF BusInv, BusTypeOK
      <4>3. \A t \in Servers, r \in Receivers : at'[t][r] <= Len(bus[t])
        BY <2>1, <4>1 DEF BusInv, BusTypeOK
      <4>4. looking' \in [Servers -> 0..MaxSent]
        BY <2>1, <2>4, <3>3, <4>1 DEF DispatcherRecv
      <4> QED
        BY <3>1, <4>1, <4>2, <4>3, <4>4 DEF BusInv, BusTypeOK
    <3> QED
      BY <3>2, <3>3
  <2>5. ASSUME NEW s \in Servers, Lookup(s) PROVE LookInv'
    <3>1. UNCHANGED <<busVars, hooks>>
          /\ looking' = [looking EXCEPT ![s] = 0] /\ looking[s] \in 1..MaxSent
      BY <2>5 DEF Lookup
    <3>2. \A h \in Hooks : Delivery(s, h) \in TaskSet
      BY <2>1, <3>1 DEF Delivery, TaskSet, Row
    <3>3. tasks' \subseteq TaskSet
      BY <2>5, <3>2 DEF Lookup, Enabled, Live
    <3> QED
      BY <2>1, <3>1, <3>3, BusTypes DEF BusInv
  <2>6. ASSUME NEW t \in tasks, Post(t) PROVE LookInv'
    <3>1. UNCHANGED <<busVars, hooks, looking>>
      BY <2>6 DEF Post
    <3>2. /\ [t EXCEPT !.result = "ok"] \in TaskSet
          /\ [t EXCEPT !.result = "failed"] \in TaskSet
          /\ t.attempt < Attempts => [t EXCEPT !.attempt = @ + 1] \in TaskSet
      BY <2>1 DEF TaskSet
    <3>3. tasks' \subseteq TaskSet
      BY <2>6, <3>2 DEF Post, Replace
    <3> QED
      BY <3>1, <3>3, BusTypes DEF BusInv
  <2>7. ASSUME NEW t \in tasks, Record(t) PROVE LookInv'
    <3>1. UNCHANGED <<busVars, looking>> /\ tasks' \subseteq TaskSet
      BY <2>7 DEF Record
    <3>2. ASSUME NEW h \in Hooks PROVE Counted(hooks[h], t) \in Row
      <4> DEFINE count == IF t.result = "ok" THEN 0 ELSE t.count + 1
                 stays == hooks[h].enabled /\ count < DisableAt
      <4>1. count \in Nat
        BY DEF TaskSet
      <4>2. stays \in BOOLEAN
        BY DEF Row
      <4>3. Counted(hooks[h], t) =
              [hooks[h] EXCEPT !.failures = count, !.enabled = stays]
        BY DEF Counted
      <4> HIDE DEF count, stays
      <4>4. [hooks[h] EXCEPT !.failures = count, !.enabled = stays] \in Row
        BY <4>1, <4>2 DEF Row
      <4> QED
        BY <4>3, <4>4
    <3>3. hooks' \in [Hooks -> Row]
      BY <2>7, <3>2 DEF Record
    <3> QED
      BY <3>1, <3>3, BusTypes DEF BusInv
  <2>8. ASSUME NEW s \in Servers, RestartServer(s) PROVE LookInv'
    <3>1. BusInv'
      BY <2>8, BusTypes DEF RestartServer, BusNext
    <3> QED
      BY <2>1, <2>8, <3>1 DEF RestartServer, BusInv
  <2>9. CASE UNCHANGED vars
    BY <2>2, <2>9 DEF vars
  <2> QED
    BY <2>2, <2>3, <2>4, <2>5, <2>6, <2>7, <2>8, <2>9
    DEF Next, Deliver, BusNext
<1> QED
  BY <1>1, <1>2, PTL DEF Spec

\* The state keeps its shape, and no receiver is ever ahead of its bus, for
\* any number of servers, connections, messages and hooks.
THEOREM TypeCorrect == Spec => []TypeOK
<1>1. LookInv => TypeOK
  BY DEF LookInv
<1> QED
  BY <1>1, TypesKept, PTL

-----------------------------------------------------------------------------
(* A hook at its limit is disabled *)

\* Deliveries carry counts of hooks that were below their limit.
CountInv ==
    /\ \A h \in Hooks :
         /\ hooks[h].failures <= DisableAt
         /\ hooks[h].enabled => hooks[h].failures < DisableAt
    /\ \A t \in tasks : t.count < DisableAt

\* Whatever deliveries are under way for it, and whatever counts they store
\* over one another and over its owner's, a hook at its limit is disabled.
THEOREM LimitDisables == Spec => []EnabledBelowLimit
<1>1. Init => CountInv
  BY WebhooksAssumption DEF Init, CountInv, Fresh
<1>2. TypeOK /\ CountInv /\ [Next]_vars => CountInv'
  <2> SUFFICES ASSUME TypeOK, CountInv, [Next]_vars PROVE CountInv'
    OBVIOUS
  <2> USE DEF CountInv
  <2>1. DisableAt \in Nat \ {0}
    BY WebhooksAssumption
  <2>2. ASSUME UNCHANGED <<hooks, tasks>> PROVE CountInv'
    BY <2>2
  <2>3. ASSUME NEW h \in Hooks,
               CreateWebhook(h) \/ RevokeWebhook(h) \/ EnableWebhook(h)
        PROVE  CountInv'
    BY <2>1, <2>3
    DEF CreateWebhook, RevokeWebhook, EnableWebhook, Fresh, TypeOK, Row
  <2>4. ASSUME NEW s \in Servers, Lookup(s) PROVE CountInv'
    BY <2>4 DEF Lookup, Delivery, Enabled, Live
  <2>5. ASSUME NEW t \in tasks, Post(t) PROVE CountInv'
    <3>1. hooks' = hooks
      BY <2>5 DEF Post
    <3>2. \A u \in tasks' : u \in tasks \/ u.count = t.count
      BY <2>5 DEF Post, Replace, TypeOK, TaskSet
    <3> QED
      BY <3>1, <3>2
  <2>6. ASSUME NEW t \in tasks, Record(t) PROVE CountInv'
    <3>1. tasks' \subseteq tasks
      BY <2>6 DEF Record
    <3>2. t.count \in Nat
      BY DEF TypeOK, TaskSet
    <3>3. ASSUME NEW h \in Hooks
          PROVE  /\ hooks'[h].failures <= DisableAt
                 /\ hooks'[h].enabled => hooks'[h].failures < DisableAt
      <4>1. hooks'[h] = hooks[h] \/ hooks'[h] = Counted(hooks[h], t)
        BY <2>6 DEF Record
      <4>2. CASE hooks'[h] = Counted(hooks[h], t)
        <5> DEFINE count == IF t.result = "ok" THEN 0 ELSE t.count + 1
        <5>1. hooks[h] \in Row
          BY DEF TypeOK
        <5>2. /\ Counted(hooks[h], t).failures = count
              /\ Counted(hooks[h], t).enabled
                   = (hooks[h].enabled /\ count < DisableAt)
          BY <5>1 DEF Counted, Row
        <5>3. count \in Nat /\ count <= DisableAt
          BY <2>1, <3>2
        <5> HIDE DEF count
        <5> QED
          BY <4>2, <5>2, <5>3
      <4> QED
        BY <4>1, <4>2
    <3> QED
      BY <3>1, <3>3
  <2>7. ASSUME NEW s \in Servers, RestartServer(s) PROVE CountInv'
    BY <2>7 DEF RestartServer
  <2>8. ASSUME NEW s \in Servers, DispatcherRecv(s) PROVE CountInv'
    BY <2>2, <2>8 DEF DispatcherRecv
  <2> QED
    BY <2>2, <2>3, <2>4, <2>5, <2>6, <2>7, <2>8
    DEF Next, Deliver, vars, hookVars
<1>3. CountInv => EnabledBelowLimit
  BY DEF CountInv, EnabledBelowLimit, Live
<1> QED
  BY <1>1, <1>2, <1>3, TypeCorrect, PTL DEF Spec
===============================================================================
