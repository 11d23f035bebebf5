----------------------------- MODULE RobotLink -----------------------------
(***************************************************************************)
(* The link of one robot to the MQTT broker, and the retained status that  *)
(* the rest of the fleet sees of it.  Four parties take steps:             *)
(*   - the agent on its asyncio loop: RobotCloudAgent.connect, restart and *)
(*     disconnect over PahoMQTTClient, and the watchdog;                   *)
(*   - paho's network thread: handshake, reconnection, callbacks, which    *)
(*     reach the loop through call_soon_threadsafe;                        *)
(*   - the broker: one session per client id, with a last will;            *)
(*   - the world: dropped connections, lost acknowledgements, a process    *)
(*     that dies.                                                          *)
(* paho (1.6.1) and the broker (mosquitto) are modelled from how the code  *)
(* uses them.  Statuses are QoS 1 messages: paho keeps one until it is     *)
(* acknowledged, also across reconnections.                                *)
(***************************************************************************)
EXTENDS Naturals, Sequences

CONSTANTS
    Topics,        \* what the agent subscribes to: cmd, camera/offer
    UnhealthyAfter,\* watchdog checks in a row that must find the link down
    MaxCrashes, MaxDrops, MaxRestarts   \* bounds

ASSUME BoundsAssumption ==
    /\ UnhealthyAfter \in Nat \ {0}
    /\ {MaxCrashes, MaxDrops, MaxRestarts} \subseteq Nat

VARIABLES
    agent,      \* where the agent is
    connected,  \* the asyncio event _connected
    events,     \* set/clear callbacks not run by the loop yet
    topics,     \* the keys of _subscriptions
    down,       \* checks in a row that found the link down (_disconnected_since)
    thread,     \* paho's network thread runs
    sock,       \* the connection as paho knows it
    resub,      \* on_connect has yet to replay the subscriptions
    will,       \* the will set on the client
    outq,       \* statuses not acknowledged yet
    session,    \* the broker's session: none, live, or dangling
    lastWill,   \* the will that came with it
    subs,       \* its subscriptions
    retained,   \* the retained message on robots/{id}/status
    auto,       \* history: paho has reconnected since connect() last returned
    missed,     \* history: connect() subscribed in the window described below
    spent       \* crashes, drops and restarts so far

loopVars == <<agent, connected, events, topics, down>>
pahoVars == <<thread, sock, resub, will, outq>>
brokerVars == <<session, lastWill, subs, retained>>
historyVars == <<auto, missed>>
vars == <<loopVars, pahoVars, brokerVars, historyVars, spent>>

Bound == [crash |-> MaxCrashes, drop |-> MaxDrops, restart |-> MaxRestarts]
Spend(kind) ==
    /\ spent[kind] < Bound[kind]
    /\ spent' = [spent EXCEPT ![kind] = @ + 1]

Init ==
    /\ agent = "off" /\ connected = FALSE /\ events = <<>> /\ topics = {} /\ down = 0
    /\ thread = FALSE /\ sock = "none" /\ resub = FALSE /\ will = "none" /\ outq = <<>>
    /\ session = "none" /\ lastWill = "none" /\ subs = {} /\ retained = "none"
    /\ auto = FALSE /\ missed = FALSE
    /\ spent = [kind \in {"crash", "drop", "restart"} |-> 0]

\* The broker has the client's CONNECT and no reason to think it is gone.
Linked == sock \in {"accepted", "up"}
Publish(status) == outq' = Append(outq, status)
-----------------------------------------------------------------------------
(* The agent *)

\* Mutant: no will.
BeginConnectNoWill == agent' = "dialing" /\ UNCHANGED will

\* RobotCloudAgent.connect sets the will, then has MQTTClient dial.
BeginConnect == agent' = "dialing" /\ will' = "offline"

Boot ==
    /\ agent = "off"
    /\ BeginConnect
    /\ UNCHANGED <<connected, events, topics, down, thread, sock, resub, outq,
                   brokerVars, historyVars, spent>>

\* Mutant: loop_start is forgotten.
DialNoLoop ==
    /\ agent = "dialing"
    /\ agent' = "awaiting"
    /\ sock' = "syn" /\ missed' = FALSE
    /\ UNCHANGED <<connected, events, topics, down, thread, resub, will, outq,
                   brokerVars, auto, spent>>

\* client.connect sends CONNECT once the broker can be reached; loop_start.
Dial ==
    /\ agent = "dialing"
    /\ agent' = "awaiting"
    /\ sock' = "syn" /\ thread' = TRUE /\ missed' = FALSE
    /\ UNCHANGED <<connected, events, topics, down, resub, will, outq, brokerVars,
                   auto, spent>>

\* Mutant: connect() does not report for duty.
FinishConnectSilent ==
    /\ agent = "awaiting"
    /\ agent' = "running" /\ down' = 0
    /\ auto' = FALSE /\ missed' = (~connected /\ sock = "up" /\ ~resub)
    /\ topics' = Topics
    /\ subs' = IF connected /\ Linked THEN subs \cup Topics ELSE subs
    /\ UNCHANGED <<connected, events, thread, sock, resub, will, outq, session,
                   lastWill, retained, spent>>

\* connect() has seen the CONNACK, or has waited long enough for it: subscribe
\* (at once only if connected) and publish "online".  No await in between.
\* missed: it stopped waiting just when paho's thread had handled the CONNACK,
\* replaying a table that was still empty, and the flag was still to be set.
\* The two subscribe() calls are one step: a replay that falls between them loses
\* the second topic by the same window, and no other.
FinishConnect ==
    /\ agent = "awaiting"
    /\ agent' = "running" /\ down' = 0
    /\ auto' = FALSE /\ missed' = (~connected /\ sock = "up" /\ ~resub)
    /\ topics' = Topics
    /\ subs' = IF connected /\ Linked THEN subs \cup Topics ELSE subs
    /\ Publish("online")
    /\ UNCHANGED <<connected, events, thread, sock, resub, will, session, lastWill,
                   retained, spent>>

\* A callback of paho's thread reaches the loop.
RunEvent ==
    /\ events # <<>>
    /\ connected' = Head(events) /\ events' = Tail(events)
    /\ UNCHANGED <<agent, topics, down, pahoVars, brokerVars, historyVars, spent>>

WatchdogCheck ==
    /\ agent = "running"
    /\ connected \/ down < UnhealthyAfter
    /\ down' = IF connected THEN 0 ELSE down + 1
    /\ UNCHANGED <<agent, connected, events, topics, pahoVars, brokerVars, historyVars, spent>>

\* loop_stop joins paho's thread, which finishes its callback first.
LoopStop == ~resub /\ thread' = FALSE

\* The watchdog gives the link up and starts restart().
Restart ==
    /\ agent = "running" /\ ~connected /\ down = UnhealthyAfter
    /\ Spend("restart")
    /\ LoopStop
    /\ agent' = "restarting"
    /\ UNCHANGED <<connected, events, topics, down, sock, resub, will, outq,
                   brokerVars, historyVars>>

\* Mutant: shutdown() does not say so, trusting the will.
StopSilent ==
    /\ agent = "running" /\ sock # "syn"
    /\ LoopStop
    /\ agent' = "stopping"
    /\ UNCHANGED <<connected, events, topics, down, sock, resub, will, outq, session,
                   lastWill, subs, retained, historyVars, spent>>

\* disconnect() publishes "offline"; the thread writes what it has before it
\* ends.  (In "syn" the broker gets it after CONNECT: the same as after Accept.)
Stop ==
    /\ agent = "running" /\ sock # "syn"
    /\ Publish("offline")
    /\ LoopStop
    /\ agent' = "stopping"
    /\ retained' = IF Linked THEN "offline" ELSE retained
    /\ UNCHANGED <<connected, events, topics, down, sock, resub, will, session,
                   lastWill, subs, historyVars, spent>>

\* Mutant: disconnect() does not clear the flag.
SayGoodbyeUncleared ==
    /\ sock' = "none"
    /\ IF Linked THEN session' = "none" /\ subs' = {} ELSE UNCHANGED <<session, subs>>
    /\ UNCHANGED <<connected, events, thread, resub, lastWill, retained, historyVars, spent>>

\* A clean DISCONNECT ends the session without its will.
SayGoodbye ==
    /\ sock' = "none"
    /\ connected' = FALSE /\ events' = <<>>
    /\ IF Linked THEN session' = "none" /\ subs' = {} ELSE UNCHANGED <<session, subs>>
    /\ UNCHANGED <<thread, resub, lastWill, retained, historyVars, spent>>

\* Mutant: the restart dials again without disconnecting.
RedialUnclosed ==
    /\ agent = "restarting"
    /\ BeginConnect
    /\ UNCHANGED <<connected, events, topics, down, thread, sock, resub, outq, brokerVars,
                   historyVars, spent>>

Redial ==
    /\ agent = "restarting"
    /\ SayGoodbye
    /\ BeginConnect
    /\ UNCHANGED <<topics, down, outq>>

\* The process ends, and with it whatever the client held.
Exit ==
    /\ agent = "stopping"
    /\ SayGoodbye
    /\ agent' = "off" /\ will' = "none"
    /\ outq' = <<>> /\ topics' = {} /\ down' = 0
-----------------------------------------------------------------------------
(* paho's network thread *)

Reconnect ==
    /\ thread /\ sock = "none"
    /\ sock' = "syn" /\ auto' = TRUE /\ missed' = FALSE
    /\ UNCHANGED <<loopVars, thread, resub, will, outq, brokerVars, spent>>

\* _handle_connect: first the flag, then the subscriptions.
OnConnect ==
    /\ thread /\ sock = "accepted"
    /\ sock' = "up" /\ resub' = TRUE
    /\ events' = Append(events, TRUE)
    /\ UNCHANGED <<agent, connected, topics, down, thread, will, outq, brokerVars,
                   historyVars, spent>>

\* Mutant: subscriptions are made once, by connect().
ResubscribeNothing ==
    /\ thread /\ resub
    /\ resub' = FALSE
    /\ UNCHANGED <<loopVars, thread, sock, will, outq, brokerVars, historyVars, spent>>

\* The table is replayed in one step: that the loop adds a topic under the
\* iteration, which raises in paho's thread, is left out.
Resubscribe ==
    /\ thread /\ resub
    /\ resub' = FALSE
    /\ subs' = IF sock = "up" THEN subs \cup topics ELSE subs
    /\ UNCHANGED <<loopVars, thread, sock, will, outq, session, lastWill, retained,
                   historyVars, spent>>

\* _handle_disconnect.
OnDisconnect ==
    /\ thread /\ sock = "broken" /\ ~resub
    /\ sock' = "none"
    /\ events' = Append(events, FALSE)
    /\ UNCHANGED <<agent, connected, topics, down, thread, resub, will, outq,
                   brokerVars, historyVars, spent>>
-----------------------------------------------------------------------------
(* The broker *)

\* CONNECT starts a clean session; the will of a session that is taken over
\* is published first.
Accept ==
    /\ sock = "syn"
    /\ sock' = "accepted"
    /\ retained' = IF session # "none" /\ lastWill # "none" THEN lastWill ELSE retained
    /\ session' = "live" /\ lastWill' = will /\ subs' = {}
    /\ UNCHANGED <<loopVars, thread, resub, will, outq, historyVars, spent>>

Deliver ==
    /\ thread /\ Linked /\ outq # <<>>
    /\ retained' = Head(outq) /\ outq' = Tail(outq)
    /\ UNCHANGED <<loopVars, thread, sock, resub, will, session, lastWill, subs,
                   historyVars, spent>>

\* The keepalive of a session whose connection is gone runs out.
KeepaliveExpires ==
    /\ session = "dangling"
    /\ session' = "none" /\ subs' = {}
    /\ retained' = IF lastWill # "none" THEN lastWill ELSE retained
    /\ UNCHANGED <<loopVars, pahoVars, lastWill, historyVars, spent>>
-----------------------------------------------------------------------------
(* The world *)

Dangle == session' = IF session = "live" THEN "dangling" ELSE session

Drop ==
    /\ sock \in {"syn", "accepted", "up"}
    /\ Spend("drop")
    /\ sock' = "broken" /\ Dangle
    /\ UNCHANGED <<loopVars, thread, resub, will, outq, lastWill, subs, retained, historyVars>>

\* The connection breaks after a status got through and before its PUBACK did:
\* it will be sent again.
DropPuback ==
    /\ thread /\ Linked /\ outq # <<>>
    /\ Spend("drop")
    /\ retained' = Head(outq)
    /\ sock' = "broken" /\ Dangle
    /\ UNCHANGED <<loopVars, thread, resub, will, outq, lastWill, subs, historyVars>>

Crash ==
    /\ agent # "off"
    /\ Spend("crash")
    /\ agent' = "off" /\ connected' = FALSE /\ events' = <<>> /\ topics' = {} /\ down' = 0
    /\ thread' = FALSE /\ sock' = "none" /\ resub' = FALSE /\ will' = "none"
    /\ outq' = <<>> /\ Dangle
    /\ UNCHANGED <<lastWill, subs, retained, historyVars>>
-----------------------------------------------------------------------------
Agent ==
    \/ Boot \/ Dial \/ FinishConnect \/ RunEvent \/ WatchdogCheck
    \/ Restart \/ Redial \/ Stop \/ Exit
Paho == Reconnect \/ OnConnect \/ Resubscribe \/ OnDisconnect
Broker == Accept \/ Deliver \/ KeepaliveExpires
World == Drop \/ DropPuback \/ Crash

Next == Agent \/ Paho \/ Broker \/ World

Spec == Init /\ [][Next]_vars

\* The loop and paho's thread run, the broker can be reached and does its work.
FairSpec ==
    /\ Spec
    /\ WF_vars(Dial) /\ WF_vars(FinishConnect) /\ WF_vars(RunEvent)
    /\ WF_vars(Redial) /\ WF_vars(Exit)
    /\ WF_vars(Paho)
    /\ WF_vars(Accept) /\ WF_vars(Deliver) /\ WF_vars(KeepaliveExpires)
-----------------------------------------------------------------------------
(* Properties *)

\* Types; and the broker's session is live exactly while it has a connection
\* that is not broken.
TypeOK ==
    /\ agent \in {"off", "dialing", "awaiting", "running", "restarting", "stopping"}
    /\ connected \in BOOLEAN /\ events \in Seq(BOOLEAN)
    /\ topics \in {{}, Topics} /\ down \in 0..UnhealthyAfter
    /\ thread \in BOOLEAN /\ resub \in BOOLEAN
    /\ sock \in {"none", "syn", "accepted", "up", "broken"}
    /\ will \in {"none", "offline"} /\ outq \in Seq({"online", "offline"})
    /\ session \in {"none", "live", "dangling"} /\ lastWill \in {"none", "offline"}
    /\ subs \subseteq Topics
    /\ retained \in {"none", "online", "offline"}
    /\ auto \in BOOLEAN /\ missed \in BOOLEAN
    /\ spent \in [{"crash", "drop", "restart"} -> Nat]
    /\ \A kind \in DOMAIN spent : spent[kind] <= Bound[kind]
    /\ session = "live" <=> Linked

\* Commands reach a robot that is up: whatever dropped, restarted or raced, an
\* agent whose link is up has its subscriptions (mqtt_client.py:9-11), the one
\* window of FinishConnect excepted.
SubscribedWhenUp ==
    agent = "running" /\ sock = "up" /\ ~resub /\ ~missed => subs = Topics

\* A connect() that returned is not forgotten: until paho reconnects by itself,
\* an agent with its link up and nothing left to send is seen as online.
SeenOnline ==
    agent = "running" /\ sock = "up" /\ outq = <<>> /\ ~auto => retained = "online"

\* is_connected, which subscribe() and the watchdog act on (mqtt_client.py:84,
\* watchdog.py:36), is late by the callbacks the loop has yet to run and by
\* nothing else: none was lost, and none outlived a disconnect().
FlagTellsTheTruth ==
    events = <<>> => /\ sock = "up" => connected
                     /\ connected => sock \in {"up", "broken"}

\* A session that ends, by a clean stop or by its keepalive, leaves the robot
\* seen as offline; restart() alone says goodbye without saying so
\* (agent.py:120-131).
EndedSessionIsOffline ==
    [][session # "none" /\ session' = "none" =>
           retained' # "online" \/ agent = "restarting"]_vars

\* A robot that dies with a session at the broker is seen as offline in the
\* end, unless it comes back (docs/03-mqtt-layer.md:59).
DeadIsOffline ==
    agent = "off" /\ session # "none" ~> agent # "off" \/ retained = "offline"

\* A running agent gets its link back, with its subscriptions.
LinkRecovers ==
    agent = "running" ~> agent # "running" \/ (connected /\ sock = "up" /\ (subs = Topics \/ missed))

\* "Either way, robots/{id}/status always reflects reality": a robot that stays
\* connected is, in the end, seen as online (docs/03-mqtt-layer.md:59).
StatusReflectsReality ==
    <>[](agent = "running" /\ sock = "up") => <>[](retained = "online")
=============================================================================
