------------------------------ MODULE Webhooks ------------------------------
(***************************************************************************)
(* Webhooks beside the event bus: the rows of webhooks in Postgres, the    *)
(* requests that change them, the dispatcher task of each server, and the  *)
(* delivery tasks that it spawns for the file events of the hooks' owner.  *)
(* A delivery works on the row that the dispatcher read: its retries, and  *)
(* the failure count it stores in the end, ignore what happened since.     *)
(*                                                                         *)
(* The log of attempts (webhook_deliveries, POST /webhooks/{id}/test) is   *)
(* left out: nothing reads it back but its listing.                        *)
(***************************************************************************)
EXTENDS EventBus

CONSTANTS
    Hooks,       \* the ids of the owner's webhooks
    FileEvents,  \* the owner's file events; the dispatcher skips the others
    Attempts,    \* attempts of one delivery
    DisableAt    \* consecutive failures that disable a hook

ASSUME WebhooksAssumption ==
    /\ FileEvents \subseteq Events
    /\ Attempts \in Nat \ {0} /\ DisableAt \in Nat \ {0}

VARIABLES
    hooks,    \* the row of each id: not created yet, live or revoked
    looking,  \* the position of the event a dispatcher has taken, or 0
    tasks     \* the running deliveries

hookVars == <<hooks, looking, tasks>>
vars == <<busVars, hookVars>>

Row == [is : {"new", "live", "revoked"}, enabled : BOOLEAN, failures : Nat]
Live == {h \in Hooks : hooks[h].is = "live"}
Enabled == {h \in Live : hooks[h].enabled}

Fresh == [is |-> "live", enabled |-> TRUE, failures |-> 0]

-----------------------------------------------------------------------------
(* Requests *)

CreateWebhook(h) ==
    /\ hooks[h].is = "new"
    /\ hooks' = [hooks EXCEPT ![h] = Fresh]
    /\ UNCHANGED <<busVars, looking, tasks>>

RevokeWebhook(h) ==
    /\ h \in Live
    /\ hooks' = [hooks EXCEPT ![h].is = "revoked"]
    /\ UNCHANGED <<busVars, looking, tasks>>

\* Mutant: the failure count is left as it was.
EnableWebhookOnly(h) ==
    /\ h \in Live
    /\ hooks' = [hooks EXCEPT ![h].enabled = TRUE]
    /\ UNCHANGED <<busVars, looking, tasks>>

EnableWebhook(h) ==
    /\ h \in Live
    /\ hooks' = [hooks EXCEPT ![h] = Fresh]
    /\ UNCHANGED <<busVars, looking, tasks>>

-----------------------------------------------------------------------------
(* spawn_dispatcher *)

\* Take the next event.  A dispatcher that has lagged ends.
DispatcherRecv(s) ==
    /\ Pending(s, "dispatcher")
    /\ looking[s] = 0
    /\ IF Lagged(s, "dispatcher")
       THEN Stop(s, "dispatcher") /\ UNCHANGED <<at, looking>>
       ELSE /\ Take(s, "dispatcher")
            /\ looking' = [looking EXCEPT ![s] =
                 IF Oldest(s, "dispatcher") \in FileEvents
                 THEN at[s]["dispatcher"] + 1 ELSE 0]
            /\ UNCHANGED on
    /\ UNCHANGED <<bus, open, bridge, wire, emitted, hooks, tasks>>

Delivery(s, h) ==
    [server |-> s, pos |-> looking[s], hook |-> h, count |-> hooks[h].failures,
     attempt |-> 1, result |-> "none"]

\* Read the owner's enabled hooks and spawn a delivery for each; when the
\* query fails the event is skipped.
Lookup(s) ==
    /\ looking[s] # 0
    /\ looking' = [looking EXCEPT ![s] = 0]
    /\ \/ tasks' = tasks \cup {Delivery(s, h) : h \in Enabled}
       \/ UNCHANGED tasks
    /\ UNCHANGED <<busVars, hooks>>

Replace(t, u) == tasks' = (tasks \ {t}) \cup {u}

\* Mutant: the count of attempts starts over instead of ending the delivery.
PostForever(t) ==
    /\ t.result = "none"
    /\ \/ Replace(t, [t EXCEPT !.result = "ok"])
       \/ Replace(t, [t EXCEPT !.attempt = (@ % Attempts) + 1])
    /\ UNCHANGED <<busVars, hooks, looking>>

\* One attempt.  After a success, or the last failure, the outcome is known.
Post(t) ==
    /\ t.result = "none"
    /\ \/ Replace(t, [t EXCEPT !.result = "ok"])
       \/ IF t.attempt < Attempts
          THEN Replace(t, [t EXCEPT !.attempt = @ + 1])
          ELSE Replace(t, [t EXCEPT !.result = "failed"])
    /\ UNCHANGED <<busVars, hooks, looking>>

\* The count is that of the row the dispatcher read; `enabled` is written only
\* to disable.  An UPDATE of a revoked hook fails.
Counted(row, t) ==
    LET count == IF t.result = "ok" THEN 0 ELSE t.count + 1 IN
    [row EXCEPT !.failures = count, !.enabled = @ /\ count < DisableAt]

Record(t) ==
    /\ t.result # "none"
    /\ tasks' = tasks \ {t}
    /\ \/ hooks' = [h \in Hooks |->
                      IF h = t.hook /\ h \in Live THEN Counted(hooks[h], t)
                                                  ELSE hooks[h]]
       \/ UNCHANGED hooks
    /\ UNCHANGED <<busVars, looking>>

\* A stopped server loses its deliveries.
RestartServer(s) ==
    /\ Restart(s)
    /\ looking' = [looking EXCEPT ![s] = 0]
    /\ tasks' = {t \in tasks : t.server # s}
    /\ UNCHANGED hooks

-----------------------------------------------------------------------------
Init ==
    /\ BusInit
    /\ hooks = [h \in Hooks |-> [Fresh EXCEPT !.is = "new"]]
    /\ looking = [s \in Servers |-> 0]
    /\ tasks = {}

Deliver(t) == Post(t) \/ Record(t)

Next ==
    \/ \E s \in Servers :
         \/ BusStep(s) /\ UNCHANGED hookVars
         \/ DispatcherRecv(s) \/ Lookup(s) \/ RestartServer(s)
    \/ PeerStep /\ UNCHANGED hookVars
    \/ \E h \in Hooks : CreateWebhook(h) \/ RevokeWebhook(h) \/ EnableWebhook(h)
    \/ \E t \in tasks : Deliver(t)

Spec == Init /\ [][Next]_vars

\* Forwarders run; an attempt ends within the client's 10 seconds, and the
\* back-off between attempts is a timer.
Fairness ==
    /\ \A s \in Servers, x \in Sockets :
         WF_vars(Forward(s, x) /\ UNCHANGED hookVars)
    /\ \A h \in Hooks : WF_vars(\E t \in tasks : t.hook = h /\ Deliver(t))

FairSpec == Spec /\ Fairness

-----------------------------------------------------------------------------
(* Properties *)

TaskSet ==
    [server : Servers, pos : 1..MaxSent, hook : Hooks, count : Nat,
     attempt : 1..Attempts, result : {"none", "ok", "failed"}]

\* The state keeps its shape, the bus's included.
TypeOK ==
    /\ BusTypeOK
    /\ hooks \in [Hooks -> Row]
    /\ looking \in [Servers -> 0..MaxSent]
    /\ tasks \subseteq TaskSet

\* A hook that has reached the limit of consecutive failures is disabled, and
\* no count is beyond the limit, whatever deliveries store stale counts and
\* whenever the owner enables it again.
EnabledBelowLimit ==
    \A h \in Live :
      /\ hooks[h].failures <= DisableAt
      /\ hooks[h].enabled => hooks[h].failures < DisableAt

\* Once a hook is revoked or disabled, the deliveries that still run for it
\* come to an end: it is left alone, unless its owner enables it again.
OffHookGoesQuiet ==
    \A h \in Hooks :
      h \notin Enabled ~> (h \in Enabled \/ \A t \in tasks : t.hook # h)
==============================================================================
