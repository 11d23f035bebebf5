----------------------------- MODULE VideoPath -----------------------------
(***************************************************************************)
(* The video's signalling with the real robot at its end: the backend's    *)
(* relay and the broker of CameraPath, and VideoStreamer's threads, jobs   *)
(* and frames where CameraPath has only the promise Negotiation.  An offer *)
(* is named by the request it belongs to: Offers are the request ids.      *)
(*                                                                         *)
(* The streamer and the relay share nothing but messages.  The relay's     *)
(* timer and the streamer's timeouts run on clocks of their own, so a      *)
(* thread may still be at work for a viewer that was told 504.             *)
(***************************************************************************)
EXTENDS VideoStreamer

VARIABLES
    rpc, pending, future, inbox,    \* the backend (WebRTCRelay)
    toRobot, toBackend, replied     \* MQTT, and who has published an answer

relay == <<rpc, pending, future, inbox>>
wire == <<toRobot, toBackend, replied>>
pathVars == <<vars, relay, wire>>

\* A future has no result yet, or is cancelled.
NoAnswer == Pending
Cancelled == Failed

\* CameraPath, with the streamer's threads for the robot's.
Path == INSTANCE CameraPath WITH
    Requests <- Offers, Idle <- "idle", Working <- Pending,
    outcome <- [t \in Threads |-> CASE pc[t] = "idle" -> "idle"
                                     [] pc[t] = "done" -> result[t]
                                     [] OTHER -> Pending]
-----------------------------------------------------------------------------
PathInit ==
    /\ Init
    /\ rpc = [q \in Offers |-> "idle"] /\ pending = {} /\ inbox = {}
    /\ future = [q \in Offers |-> NoAnswer]
    /\ toRobot = {} /\ toBackend = {} /\ replied = {}

\* _on_camera_offer: a thread of the streamer for every offer delivered.
DeliverOffer(q, t) ==
    /\ q \in toRobot
    /\ StartOffer(t, q)
    /\ toRobot' \in {toRobot, toRobot \ {q}}
    /\ UNCHANGED <<relay, toBackend, replied>>

\* The threads, the main loop and the camera.
OnRobot == Work /\ UNCHANGED <<relay, wire>>

\* The thread publishes the answer that handle_offer returned, or nothing if it
\* raised.
Reply(t) ==
    /\ pc[t] = "done" /\ t \notin replied
    /\ replied' = replied \cup {t}
    /\ toBackend' = IF result[t] = Failed THEN toBackend
                       ELSE toBackend \cup {[id |-> offer[t], sdp |-> result[t]]}
    /\ UNCHANGED <<vars, relay, toRobot>>

\* Viewers, broker and backend, which do not see the streamer.
OffRobot ==
    /\ UNCHANGED vars
    /\ \/ \E q \in Offers : Path!PostOffer(q) \/ Path!LoseOffer(q)
       \/ \E m \in toBackend : Path!DeliverAnswer(m)
       \/ Path!Backend

PathNext ==
    \/ \E q \in Offers, t \in Threads : DeliverOffer(q, t)
    \/ \E t \in Threads : Reply(t)
    \/ OnRobot
    \/ OffRobot

PathSpec == PathInit /\ [][PathNext]_pathVars
-----------------------------------------------------------------------------
(* Properties *)

\* The signalling path keeps its promises with the streamer in the place of
\* its specification: CameraPath is implemented, step by step.
ImplementsCameraPath == Path!Spec

\* What a viewer was answered is what the robot has set up: a request that was
\* answered has a thread whose webrtcbin still has that offer for its remote
\* and the answer to it for its local description, whatever other offers have
\* left in the main loop's queue since - or its offer was handled together with
\* another.
AnsweredIsNegotiated ==
    \A q \in Offers : rpc[q] = "answered" =>
        \E t \in Threads :
            /\ offer[t] = q
            /\ t \in crossed \/ (future[q] = q /\ remote[t] = q /\ localDesc[t] = q)
=============================================================================
