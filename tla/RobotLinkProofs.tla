-------------------------- MODULE RobotLinkProofs --------------------------
(***************************************************************************)
(* The safety of the robot's link, for any topics, any patience of the     *)
(* watchdog and any number of crashes, drops and restarts.                 *)
(***************************************************************************)
EXTENDS RobotLink, TLAPS

\* A client that may connect has its will set, and so has every session; an
\* agent that is about to dial has neither a connection nor a thread.
WillIsSet ==
    /\ agent \in {"off", "dialing"} => sock = "none" /\ ~thread
    /\ agent # "off" => will = "offline"
    /\ session # "none" => lastWill = "offline"

\* What is subscribed at the broker is in the table; on a link whose replay is
\* over it is the whole table.
SubscriptionsKept ==
    /\ agent = "running" => topics = Topics
    /\ Linked => subs \subseteq topics
    /\ sock = "up" /\ ~resub /\ ~missed => subs = topics

\* The status that connect() published is the retained one or is the last of
\* those that still have to be delivered.
OnlineUnderWay ==
    agent = "running" /\ (sock = "syn" \/ Linked) /\ ~auto =>
        \/ outq # <<>> /\ outq[Len(outq)] = "online"
        \/ outq = <<>> /\ Linked /\ retained = "online"

\* After loop_stop nothing moves any more on the client's side: what stop()
\* published stands.
GoodbyeStands ==
    /\ agent \in {"restarting", "stopping"} => ~thread
    /\ agent = "stopping" => sock # "syn"
    /\ agent = "stopping" /\ Linked => retained = "offline"

Inv == TypeOK /\ WillIsSet /\ SubscriptionsKept /\ OnlineUnderWay /\ GoodbyeStands
-----------------------------------------------------------------------------
\* Queues of statuses and of callbacks.
LEMMA Appended ==
  ASSUME NEW S, NEW q \in Seq(S), NEW s \in S
  PROVE  /\ Append(q, s) \in Seq(S) /\ Append(q, s) # <<>>
         /\ Append(q, s)[Len(Append(q, s))] = s
<1>1. Append(q, s) \in Seq(S) /\ Len(Append(q, s)) = Len(q) + 1 /\ Len(q) \in Nat
  OBVIOUS
<1>2. Append(q, s)[Len(q) + 1] = s
  OBVIOUS
<1>3. Append(q, s) # <<>>
  BY <1>1
<1> QED
  BY <1>1, <1>2, <1>3

LEMMA Taken ==
  ASSUME NEW S, NEW q \in Seq(S), q # <<>>
  PROVE  /\ Head(q) \in S /\ Tail(q) \in Seq(S)
         /\ Tail(q) # <<>> => Tail(q)[Len(Tail(q))] = q[Len(q)]
         /\ Tail(q) = <<>> => Head(q) = q[Len(q)]
<1>1. Len(q) \in Nat \ {0} /\ Tail(q) \in Seq(S) /\ Len(Tail(q)) = Len(q) - 1
  OBVIOUS
<1>2. Head(q) = q[1] /\ q[1] \in S
  BY <1>1
<1>3. CASE Tail(q) # <<>>
  <2>1. Len(Tail(q)) \in Nat \ {0}
    BY <1>1, <1>3
  <2>2. Tail(q)[Len(Tail(q))] = q[Len(Tail(q)) + 1]
    BY <2>1, <1>1
  <2> QED
    BY <2>2, <1>1, <1>2, <1>3
<1>4. CASE Tail(q) = <<>>
  <2>1. Len(Tail(q)) = Len(<<>>)
    BY ONLY <1>4
  <2>2. Len(q) = 1
    BY <2>1, <1>1
  <2> QED
    BY <2>2, <1>1, <1>2, <1>4
<1> QED
  BY <1>3, <1>4

LEMMA InitInv == Init => Inv
<1> SUFFICES ASSUME Init PROVE Inv
  OBVIOUS
<1> USE DEF Init
<1>1. spent \in [{"crash", "drop", "restart"} -> Nat]
      /\ \A kind \in DOMAIN spent : spent[kind] <= Bound[kind]
  BY BoundsAssumption DEF Bound
<1>2. events \in Seq(BOOLEAN) /\ outq \in Seq({"online", "offline"})
  OBVIOUS
<1>3. down \in 0..UnhealthyAfter
  BY BoundsAssumption
<1>5. TypeOK
  BY <1>1, <1>2, <1>3 DEF TypeOK, Linked
<1>4. WillIsSet /\ SubscriptionsKept /\ OnlineUnderWay /\ GoodbyeStands
  BY DEF WillIsSet, SubscriptionsKept, OnlineUnderWay, GoodbyeStands, Linked
<1> QED
  BY <1>4, <1>5 DEF Inv

\* Every action of the agent keeps the invariant.
LEMMA AgentKeepsInv == ASSUME Inv, Agent PROVE Inv'
<1> USE BoundsAssumption
    DEF Inv, TypeOK, WillIsSet, SubscriptionsKept, OnlineUnderWay, GoodbyeStands, Linked,
        loopVars, pahoVars, brokerVars, historyVars
<1>1. CASE Boot
  BY <1>1 DEF Boot, BeginConnect
<1>2. CASE Dial
  <2>1. TypeOK'
    BY <1>2 DEF Dial
  <2>2. WillIsSet' /\ GoodbyeStands'
    BY <1>2 DEF Dial
  <2>3. SubscriptionsKept'
    BY <1>2 DEF Dial
  <2>4. OnlineUnderWay'
    BY <1>2 DEF Dial
  <2> QED
    BY <2>1, <2>2, <2>3, <2>4
<1>3. CASE FinishConnect
  <2>1. TypeOK'
    <3>1. /\ agent' \in {"off", "dialing", "awaiting", "running", "restarting", "stopping"}
          /\ connected' \in BOOLEAN /\ thread' \in BOOLEAN /\ resub' \in BOOLEAN
          /\ auto' \in BOOLEAN /\ missed' \in BOOLEAN
      BY <1>3, Appended DEF FinishConnect, Publish
    <3>2. /\ topics' \in {{}, Topics} /\ down' \in 0..UnhealthyAfter
          /\ subs' \subseteq Topics
      BY <1>3, Appended DEF FinishConnect, Publish
    <3>3. events' \in Seq(BOOLEAN) /\ outq' \in Seq({"online", "offline"})
      BY <1>3, Appended DEF FinishConnect, Publish
    <3>4. /\ spent' \in [{"crash", "drop", "restart"} -> Nat]
          /\ \A kind \in DOMAIN spent' : spent'[kind] <= Bound[kind]
      BY <1>3, Appended DEF FinishConnect, Publish
    <3>5. /\ sock' \in {"none", "syn", "accepted", "up", "broken"}
          /\ will' \in {"none", "offline"} /\ session' \in {"none", "live", "dangling"}
          /\ lastWill' \in {"none", "offline"} /\ retained' \in {"none", "online", "offline"}
          /\ session' = "live" <=> Linked'
      BY <1>3, Appended DEF FinishConnect, Publish
    <3> QED
      BY <3>1, <3>2, <3>3, <3>4, <3>5
  <2>2. WillIsSet' /\ GoodbyeStands'
    BY <1>3 DEF FinishConnect, Publish
  <2>3. SubscriptionsKept'
    BY <1>3 DEF FinishConnect, Publish
  <2>4. OnlineUnderWay'
    BY <1>3, Appended DEF FinishConnect, Publish
  <2> QED
    BY <2>1, <2>2, <2>3, <2>4
<1>4. CASE RunEvent
  BY <1>4, Taken DEF RunEvent
<1>5. CASE WatchdogCheck
  BY <1>5 DEF WatchdogCheck
<1>6. CASE Restart
  <2>1. TypeOK'
    <3>1. /\ agent' \in {"off", "dialing", "awaiting", "running", "restarting", "stopping"}
          /\ connected' \in BOOLEAN /\ thread' \in BOOLEAN /\ resub' \in BOOLEAN
          /\ auto' \in BOOLEAN /\ missed' \in BOOLEAN
      BY <1>6 DEF Restart, LoopStop, Spend, Bound
    <3>2. /\ topics' \in {{}, Topics} /\ down' \in 0..UnhealthyAfter
          /\ subs' \subseteq Topics
      BY <1>6 DEF Restart, LoopStop, Spend, Bound
    <3>3. events' \in Seq(BOOLEAN) /\ outq' \in Seq({"online", "offline"})
      BY <1>6 DEF Restart, LoopStop, Spend, Bound
    <3>4. /\ spent' \in [{"crash", "drop", "restart"} -> Nat]
          /\ \A kind \in DOMAIN spent' : spent'[kind] <= Bound[kind]
      BY <1>6 DEF Restart, LoopStop, Spend, Bound
    <3>5. /\ sock' \in {"none", "syn", "accepted", "up", "broken"}
          /\ will' \in {"none", "offline"} /\ session' \in {"none", "live", "dangling"}
          /\ lastWill' \in {"none", "offline"} /\ retained' \in {"none", "online", "offline"}
          /\ session' = "live" <=> Linked'
      BY <1>6 DEF Restart, LoopStop, Spend, Bound
    <3> QED
      BY <3>1, <3>2, <3>3, <3>4, <3>5
  <2>2. WillIsSet' /\ GoodbyeStands'
    BY <1>6 DEF Restart, LoopStop, Spend, Bound
  <2>3. SubscriptionsKept'
    BY <1>6 DEF Restart, LoopStop, Spend, Bound
  <2>4. OnlineUnderWay'
    BY <1>6 DEF Restart, LoopStop, Spend, Bound
  <2> QED
    BY <2>1, <2>2, <2>3, <2>4
<1>7. CASE Redial
  <2>1. TypeOK'
    <3>1. /\ agent' \in {"off", "dialing", "awaiting", "running", "restarting", "stopping"}
          /\ connected' \in BOOLEAN /\ thread' \in BOOLEAN /\ resub' \in BOOLEAN
          /\ auto' \in BOOLEAN /\ missed' \in BOOLEAN
      BY <1>7 DEF Redial, SayGoodbye, BeginConnect
    <3>2. /\ topics' \in {{}, Topics} /\ down' \in 0..UnhealthyAfter
          /\ subs' \subseteq Topics
      BY <1>7 DEF Redial, SayGoodbye, BeginConnect
    <3>3. events' \in Seq(BOOLEAN) /\ outq' \in Seq({"online", "offline"})
      BY <1>7 DEF Redial, SayGoodbye, BeginConnect
    <3>4. /\ spent' \in [{"crash", "drop", "restart"} -> Nat]
          /\ \A kind \in DOMAIN spent' : spent'[kind] <= Bound[kind]
      BY <1>7 DEF Redial, SayGoodbye, BeginConnect
    <3>5. /\ sock' \in {"none", "syn", "accepted", "up", "broken"}
          /\ will' \in {"none", "offline"} /\ session' \in {"none", "live", "dangling"}
          /\ lastWill' \in {"none", "offline"} /\ retained' \in {"none", "online", "offline"}
          /\ session' = "live" <=> Linked'
      BY <1>7 DEF Redial, SayGoodbye, BeginConnect
    <3> QED
      BY <3>1, <3>2, <3>3, <3>4, <3>5
  <2>2. WillIsSet' /\ GoodbyeStands'
    BY <1>7 DEF Redial, SayGoodbye, BeginConnect
  <2>3. SubscriptionsKept'
    BY <1>7 DEF Redial, SayGoodbye, BeginConnect
  <2>4. OnlineUnderWay'
    BY <1>7 DEF Redial, SayGoodbye, BeginConnect
  <2> QED
    BY <2>1, <2>2, <2>3, <2>4
<1>8. CASE Stop
  BY <1>8, Appended DEF Stop, Publish, LoopStop
<1>9. CASE Exit
  <2>1. TypeOK'
    <3>1. /\ agent' \in {"off", "dialing", "awaiting", "running", "restarting", "stopping"}
          /\ connected' \in BOOLEAN /\ thread' \in BOOLEAN /\ resub' \in BOOLEAN
          /\ auto' \in BOOLEAN /\ missed' \in BOOLEAN
      BY <1>9 DEF Exit, SayGoodbye
    <3>2. /\ topics' \in {{}, Topics} /\ down' \in 0..UnhealthyAfter
          /\ subs' \subseteq Topics
      BY <1>9 DEF Exit, SayGoodbye
    <3>3. events' \in Seq(BOOLEAN) /\ outq' \in Seq({"online", "offline"})
      BY <1>9 DEF Exit, SayGoodbye
    <3>4. /\ spent' \in [{"crash", "drop", "restart"} -> Nat]
          /\ \A kind \in DOMAIN spent' : spent'[kind] <= Bound[kind]
      BY <1>9 DEF Exit, SayGoodbye
    <3>5. /\ sock' \in {"none", "syn", "accepted", "up", "broken"}
          /\ will' \in {"none", "offline"} /\ session' \in {"none", "live", "dangling"}
          /\ lastWill' \in {"none", "offline"} /\ retained' \in {"none", "online", "offline"}
          /\ session' = "live" <=> Linked'
      BY <1>9 DEF Exit, SayGoodbye
    <3> QED
      BY <3>1, <3>2, <3>3, <3>4, <3>5
  <2>2. WillIsSet' /\ GoodbyeStands'
    BY <1>9 DEF Exit, SayGoodbye
  <2>3. SubscriptionsKept'
    BY <1>9 DEF Exit, SayGoodbye
  <2>4. OnlineUnderWay'
    BY <1>9 DEF Exit, SayGoodbye
  <2> QED
    BY <2>1, <2>2, <2>3, <2>4
<1> QED
  BY <1>1, <1>2, <1>3, <1>4, <1>5, <1>6, <1>7, <1>8, <1>9 DEF Agent

LEMMA PahoKeepsInv == ASSUME Inv, Paho PROVE Inv'
<1> USE BoundsAssumption
    DEF Inv, TypeOK, WillIsSet, SubscriptionsKept, OnlineUnderWay, GoodbyeStands, Linked,
        loopVars, pahoVars, brokerVars, historyVars
<1>1. CASE Reconnect
  <2>1. TypeOK'
    BY <1>1 DEF Reconnect
  <2>2. WillIsSet' /\ GoodbyeStands'
    BY <1>1 DEF Reconnect
  <2>3. SubscriptionsKept'
    BY <1>1 DEF Reconnect
  <2>4. OnlineUnderWay'
    BY <1>1 DEF Reconnect
  <2> QED
    BY <2>1, <2>2, <2>3, <2>4
<1>2. CASE OnConnect
  BY <1>2, Appended DEF OnConnect
<1>3. CASE Resubscribe
  <2>1. TypeOK'
    BY <1>3 DEF Resubscribe
  <2>2. WillIsSet' /\ GoodbyeStands'
    BY <1>3 DEF Resubscribe
  <2>3. SubscriptionsKept'
    BY <1>3 DEF Resubscribe
  <2>4. OnlineUnderWay'
    BY <1>3 DEF Resubscribe
  <2> QED
    BY <2>1, <2>2, <2>3, <2>4
<1>4. CASE OnDisconnect
  BY <1>4, Appended DEF OnDisconnect
<1> QED
  BY <1>1, <1>2, <1>3, <1>4 DEF Paho

LEMMA BrokerKeepsInv == ASSUME Inv, Broker PROVE Inv'
<1> USE BoundsAssumption
    DEF Inv, TypeOK, WillIsSet, SubscriptionsKept, OnlineUnderWay, GoodbyeStands, Linked,
        loopVars, pahoVars, brokerVars, historyVars
<1>1. CASE Accept
  BY <1>1 DEF Accept
<1>2. CASE Deliver
  BY <1>2, Taken DEF Deliver
<1>3. CASE KeepaliveExpires
  BY <1>3 DEF KeepaliveExpires
<1> QED
  BY <1>1, <1>2, <1>3 DEF Broker

LEMMA WorldKeepsInv == ASSUME Inv, World PROVE Inv'
<1> USE BoundsAssumption
    DEF Inv, TypeOK, WillIsSet, SubscriptionsKept, OnlineUnderWay, GoodbyeStands, Linked,
        loopVars, pahoVars, brokerVars, historyVars
<1>1. CASE Drop
  BY <1>1 DEF Drop, Spend, Dangle, Bound
<1>2. CASE DropPuback
  BY <1>2, Taken DEF DropPuback, Spend, Dangle, Bound
<1>3. CASE Crash
  <2>1. TypeOK'
    <3>1. /\ agent' \in {"off", "dialing", "awaiting", "running", "restarting", "stopping"}
          /\ connected' \in BOOLEAN /\ thread' \in BOOLEAN /\ resub' \in BOOLEAN
          /\ auto' \in BOOLEAN /\ missed' \in BOOLEAN
      BY <1>3 DEF Crash, Spend, Dangle, Bound
    <3>2. /\ topics' \in {{}, Topics} /\ down' \in 0..UnhealthyAfter
          /\ subs' \subseteq Topics
      BY <1>3 DEF Crash, Spend, Dangle, Bound
    <3>3. events' \in Seq(BOOLEAN) /\ outq' \in Seq({"online", "offline"})
      BY <1>3 DEF Crash, Spend, Dangle, Bound
    <3>4. /\ spent' \in [{"crash", "drop", "restart"} -> Nat]
          /\ \A kind \in DOMAIN spent' : spent'[kind] <= Bound[kind]
      BY <1>3 DEF Crash, Spend, Dangle, Bound
    <3>5. /\ sock' \in {"none", "syn", "accepted", "up", "broken"}
          /\ will' \in {"none", "offline"} /\ session' \in {"none", "live", "dangling"}
          /\ lastWill' \in {"none", "offline"} /\ retained' \in {"none", "online", "offline"}
          /\ session' = "live" <=> Linked'
      BY <1>3 DEF Crash, Spend, Dangle, Bound
    <3> QED
      BY <3>1, <3>2, <3>3, <3>4, <3>5
  <2>2. WillIsSet' /\ GoodbyeStands'
    BY <1>3 DEF Crash, Spend, Dangle, Bound
  <2>3. SubscriptionsKept'
    BY <1>3 DEF Crash, Spend, Dangle, Bound
  <2>4. OnlineUnderWay'
    BY <1>3 DEF Crash, Spend, Dangle, Bound
  <2> QED
    BY <2>1, <2>2, <2>3, <2>4
<1> QED
  BY <1>1, <1>2, <1>3 DEF World

LEMMA NextKeepsInv == Inv /\ [Next]_vars => Inv'
<1>1. ASSUME Inv, UNCHANGED vars PROVE Inv'
  BY <1>1 DEF vars, loopVars, pahoVars, brokerVars, historyVars, Inv, TypeOK, WillIsSet,
              SubscriptionsKept, OnlineUnderWay, GoodbyeStands, Linked
<1> QED
  BY <1>1, AgentKeepsInv, PahoKeepsInv, BrokerKeepsInv, WorldKeepsInv DEF Next

LEMMA InvAlways == Spec => []Inv
  BY InitInv, NextKeepsInv, PTL DEF Spec
-----------------------------------------------------------------------------
\* What the flag is once the loop has run the callbacks that wait: the last of
\* them decides.
Settling == IF events = <<>> THEN connected ELSE events[Len(events)]
FlagFollows ==
    /\ sock = "up" => Settling
    /\ Settling => sock \in {"up", "broken"}

LEMMA StepKeepsFlag == ASSUME Inv, FlagFollows, [Next]_vars PROVE FlagFollows'
<1>0. /\ connected \in BOOLEAN /\ events \in Seq(BOOLEAN)
      /\ agent \in {"off", "dialing"} => sock = "none"
  BY DEF Inv, TypeOK, WillIsSet
<1> USE DEF FlagFollows, Settling, loopVars, pahoVars
<1>1. CASE RunEvent
  BY <1>0, <1>1, Taken DEF RunEvent
<1>2. CASE OnConnect
  <2>1. events' # <<>> /\ events'[Len(events')] = TRUE /\ sock' = "up"
    BY <1>0, <1>2, Appended DEF OnConnect
  <2> QED
    BY <2>1
<1>3. CASE OnDisconnect
  <2>1. events' # <<>> /\ events'[Len(events')] = FALSE /\ sock' = "none"
    BY <1>0, <1>3, Appended DEF OnDisconnect
  <2> QED
    BY <2>1
<1>4. CASE Redial \/ Exit
  BY <1>4 DEF Redial, Exit, SayGoodbye
<1>5. CASE Crash
  BY <1>5 DEF Crash
<1>6. CASE Dial \/ Reconnect \/ Accept
  BY <1>0, <1>6 DEF Dial, Reconnect, Accept
<1>7. CASE Drop \/ DropPuback
  BY <1>7 DEF Drop, DropPuback
<1>8. CASE Boot \/ FinishConnect \/ WatchdogCheck \/ Restart \/ Stop
  BY <1>8 DEF Boot, FinishConnect, WatchdogCheck, Restart, Stop
<1>9. CASE Resubscribe \/ Deliver \/ KeepaliveExpires \/ UNCHANGED vars
  BY <1>9 DEF Resubscribe, Deliver, KeepaliveExpires, vars
<1> QED
  BY <1>1, <1>2, <1>3, <1>4, <1>5, <1>6, <1>7, <1>8, <1>9
     DEF Next, Agent, Paho, Broker, World
-----------------------------------------------------------------------------
\* Every reachable state of the link is well typed, and the broker's session is
\* live exactly while its connection is.
THEOREM TypeCorrectness == Spec => []TypeOK
<1>1. Inv => TypeOK
  BY DEF Inv
<1> QED
  BY <1>1, InvAlways, PTL

\* A robot that is up hears its commands, the one window of FinishConnect
\* excepted (mqtt_client.py:82-101).
THEOREM CommandsAreHeard == Spec => []SubscribedWhenUp
<1>1. Inv => SubscribedWhenUp
  BY DEF Inv, SubscriptionsKept, SubscribedWhenUp
<1> QED
  BY <1>1, InvAlways, PTL

\* What connect() announced is what the fleet sees (agent.py:112-118).
THEOREM ConnectedIsSeenOnline == Spec => []SeenOnline
<1>1. Inv => SeenOnline
  BY DEF Inv, OnlineUnderWay, SeenOnline, Linked
<1> QED
  BY <1>1, InvAlways, PTL

\* Once the loop has caught up, is_connected says what the connection is
\* (mqtt_client.py:74-106).
THEOREM FlagIsTrue == Spec => []FlagTellsTheTruth
<1>1. Init => FlagFollows
  BY DEF Init, FlagFollows, Settling
<1>2. Inv /\ FlagFollows /\ [Next]_vars => FlagFollows'
  BY StepKeepsFlag
<1>3. FlagFollows => FlagTellsTheTruth
  BY DEF FlagFollows, Settling, FlagTellsTheTruth
<1> QED
  BY <1>1, <1>2, <1>3, InvAlways, PTL DEF Spec

\* No session but one that restart() ends leaves "online" behind
\* (agent.py:120-134).
THEOREM NoSessionLeavesOnline == Spec => EndedSessionIsOffline
<1> DEFINE Leaves == session # "none" /\ session' = "none" =>
                        retained' # "online" \/ agent = "restarting"
<1>1. ASSUME Inv, [Next]_vars PROVE Leaves
  <2> SUFFICES ASSUME session # "none", session' = "none", agent # "restarting"
               PROVE  retained' # "online"
    OBVIOUS
  <2>1. Exit \/ KeepaliveExpires
    BY <1>1 DEF vars, loopVars, pahoVars, brokerVars, historyVars, Next, Agent, Paho,
         Broker, World, Boot, Dial, FinishConnect, RunEvent, WatchdogCheck, Restart,
         Redial, Stop, Reconnect, OnConnect, Resubscribe, OnDisconnect, Accept,
         Deliver, Drop, DropPuback, Crash, Dangle
  <2>2. CASE Exit
    <3>1. Linked /\ agent = "stopping" /\ UNCHANGED retained
      BY <2>2 DEF Exit, SayGoodbye
    <3> QED
      BY <3>1, <1>1 DEF Inv, GoodbyeStands
  <2>3. CASE KeepaliveExpires
    BY <2>3, <1>1 DEF KeepaliveExpires, Inv, WillIsSet
  <2> QED
    BY <2>1, <2>2, <2>3
<1>2. Spec => [][Leaves]_vars
  BY <1>1, InvAlways, PTL DEF Spec
<1> QED
  BY <1>2 DEF EndedSessionIsOffline
-----------------------------------------------------------------------------
(* What the liveness properties rest on: that something happens in the end  *)
(* is left to TLC, that there is always somebody to do it is proved.        *)

\* An agent that waits for its link, or believes in it, has paho's thread at
\* work and has given it what it needs: the will to connect with and the table
\* to subscribe again from.  No crash, drop or restart leaves it waiting for a
\* thread that was stopped (mqtt_client.py:54-101, agent.py:112-134).
THEOREM TheLinkIsTended ==
  Spec => [](agent \in {"awaiting", "running"} =>
                thread /\ will = "offline" /\ (agent = "running" => topics = Topics))
<1> DEFINE Tended == agent \in {"awaiting", "running"} => thread
<1>1. Init => Tended
  BY DEF Init
<1>2. ASSUME Inv, Tended, [Next]_vars PROVE Tended'
  <2>1. CASE Boot \/ Dial \/ Restart \/ Stop \/ Redial \/ Exit \/ Crash
    BY <2>1 DEF Boot, BeginConnect, Dial, Restart, Stop, Redial, Exit, Crash
  <2>2. CASE FinishConnect
    BY <1>2, <2>2 DEF FinishConnect
  <2>3. CASE UNCHANGED <<agent, thread>>
    BY <1>2, <2>3
  <2> QED
    BY <1>2, <2>1, <2>2, <2>3 DEF Next, Agent, Paho, Broker, World, RunEvent, WatchdogCheck,
         Reconnect, OnConnect, Resubscribe, OnDisconnect, Accept, Deliver, KeepaliveExpires,
         Drop, DropPuback, vars, loopVars, pahoVars
<1>3. Inv /\ Tended => (agent \in {"awaiting", "running"} =>
         thread /\ will = "offline" /\ (agent = "running" => topics = Topics))
  BY DEF Inv, WillIsSet, SubscriptionsKept
<1> QED
  BY <1>1, <1>2, <1>3, InvAlways, PTL DEF Spec

\* A robot that died while the broker held a session for it is not forgotten: the
\* session is one whose keepalive runs out, and its will says "offline"
\* (agent.py:112-118, docs/03-mqtt-layer.md:59).
THEOREM TheDeadHaveAWill ==
  Spec => [](agent = "off" /\ session # "none" => session = "dangling" /\ lastWill = "offline")
<1>1. Inv => (agent = "off" /\ session # "none" => session = "dangling" /\ lastWill = "offline")
  BY DEF Inv, TypeOK, WillIsSet, Linked
<1> QED
  BY <1>1, InvAlways, PTL
=============================================================================
