----------------------------- MODULE CameraPath -----------------------------
(***************************************************************************)
(* The signalling path of the video, end to end: the backend's relay       *)
(* (WebRTCRelay), MQTT, and the robot agent's thread per offer.  What a    *)
(* thread does with its offer is VideoStreamer's promise (Negotiation).    *)
(* Offers and answers travel with QoS 1: they can be delayed and delivered *)
(* twice; an offer for a robot that is offline is lost, since the robot's  *)
(* MQTT session is clean.  The robot may take longer over an offer than    *)
(* the relay waits.                                                        *)
(***************************************************************************)
CONSTANTS
    Requests,   \* request ids, one per offer posted
    Threads,    \* offer threads the robot starts: bounds the deliveries
    None, Idle, Working, Failed, NoAnswer, Cancelled

ASSUME OutcomeAssumption ==
    /\ {Idle, Working, Failed} \cap Requests = {}
    /\ Idle # Working /\ Failed \notin {Idle, Working}
ASSUME FutureAssumption ==
    {NoAnswer, Cancelled} \cap Requests = {} /\ NoAnswer # Cancelled

VARIABLES
    rpc, pending, future, inbox,
    offer, outcome, crossed,
    toRobot,    \* offers in flight: request ids, standing for their offers
    toBackend,  \* answers in flight
    replied     \* threads that have published their answer

\* An offer and its answer are named by the request they belong to.
Relay == INSTANCE WebRTCRelay WITH Answers <- Requests
Robot == INSTANCE Negotiation WITH Offers <- Requests

relayVars == <<rpc, pending, future, inbox>>
robotVars == <<offer, outcome, crossed>>
wire == <<toRobot, toBackend, replied>>
vars == <<relayVars, robotVars, wire>>
-----------------------------------------------------------------------------
Init ==
    /\ Relay!Init /\ Robot!Init
    /\ toRobot = {} /\ toBackend = {} /\ replied = {}

\* A viewer posts an offer; publish_camera_offer sends it.
PostOffer(q) ==
    /\ Relay!RelayOffer(q)
    /\ toRobot' = toRobot \cup {q}
    /\ UNCHANGED <<robotVars, toBackend, replied>>

\* The agent's MQTT callback starts a thread; the broker may deliver again.
DeliverOffer(q, t) ==
    /\ q \in toRobot
    /\ Robot!Start(t, q)
    /\ toRobot' \in {toRobot, toRobot \ {q}}
    /\ UNCHANGED <<relayVars, toBackend, replied>>

LoseOffer(q) ==
    /\ q \in toRobot
    /\ toRobot' = toRobot \ {q}
    /\ UNCHANGED <<relayVars, robotVars, toBackend, replied>>

\* Mutant: the thread answers under the id of the last offer that came in.
ReplyToLatest(t) ==
    /\ outcome[t] \notin {Idle, Working} /\ t \notin replied
    /\ replied' = replied \cup {t}
    /\ \E u \in Threads :
          /\ outcome[u] # Idle
          /\ toBackend' = IF outcome[t] \notin Requests THEN toBackend
                             ELSE toBackend \cup {[id |-> offer[u], sdp |-> outcome[t]]}
    /\ UNCHANGED <<relayVars, robotVars, toRobot>>

\* _handle_camera_offer_blocking: publish the answer, or nothing on failure.
Reply(t) ==
    /\ outcome[t] \notin {Idle, Working} /\ t \notin replied
    /\ replied' = replied \cup {t}
    /\ toBackend' = IF outcome[t] \notin Requests THEN toBackend
                       ELSE toBackend \cup {[id |-> offer[t], sdp |-> outcome[t]]}
    /\ UNCHANGED <<relayVars, robotVars, toRobot>>

\* MQTTService._handle_message and _dispatch; the broker may deliver again.
DeliverAnswer(m) ==
    /\ m \in toBackend
    /\ Relay!Dispatch(m)
    /\ toBackend' \in {toBackend, toBackend \ {m}}
    /\ UNCHANGED <<robotVars, toRobot, replied>>

Backend ==
    /\ \/ \E q \in Requests : Relay!Run(q)
       \/ \E m \in inbox : Relay!HandleAnswer(m)
       \/ Relay!Crash
    /\ UNCHANGED <<robotVars, wire>>

OnRobot == (\E t \in Threads : Robot!Finish(t)) /\ UNCHANGED <<relayVars, wire>>

Next ==
    \/ \E q \in Requests :
          PostOffer(q) \/ LoseOffer(q) \/ \E t \in Threads : DeliverOffer(q, t)
    \/ \E t \in Threads : Reply(t)
    \/ \E m \in toBackend : DeliverAnswer(m)
    \/ Backend
    \/ OnRobot

Spec == Init /\ [][Next]_vars

\* The event loop runs its timers and tasks.  Nothing is assumed of the robot
\* or the broker.
FairSpec ==
    Spec /\ \A q \in Requests : WF_vars(Relay!Run(q) /\ UNCHANGED <<robotVars, wire>>)
-----------------------------------------------------------------------------
TypeOK ==
    /\ Relay!TypeOK
    /\ offer \in [Threads -> Requests \cup {None}]
    /\ outcome \in [Threads -> Requests \cup {Idle, Working, Failed}]
    /\ crossed \subseteq Threads
    /\ toRobot \subseteq Requests
    /\ toBackend \subseteq [id : Requests, sdp : Requests]
    /\ replied \subseteq Threads

AcceptedAnswerIsDelivered == Relay!AcceptedAnswerIsDelivered
PendingIsWaiting == Relay!PendingIsWaiting

\* A viewer gets the answer to its own offer, or an error: never one made for
\* another viewer, or by a negotiation the robot gave up - unless the robot
\* handled its offer together with another, be it one that was delivered twice.
ViewerGetsItsAnswer ==
    \A q \in Requests :
        rpc[q] = "answered" => future[q] = q \/ \E t \in crossed : offer[t] = q

\* Every offer a viewer posts is answered, refused or cut off, whatever the
\* robot and the broker do.
RequestsEnd ==
    \A q \in Requests : rpc[q] = "waiting" ~> rpc[q] \in Relay!Ended
=============================================================================
