-------------------------- MODULE VideoPathProofs --------------------------
(***************************************************************************)
(* What the signalling path of the video promises with the real streamer   *)
(* at its end.  The streamer sees of the path only that threads are        *)
(* started, so whatever was proved of it alone holds here; and the path    *)
(* sees of the streamer only what Negotiation says of it, so CameraPath is *)
(* implemented.  Both together say what neither says alone: a viewer that  *)
(* was answered is connected to what the robot has set up.                 *)
(***************************************************************************)
EXTENDS VideoPath, VideoStreamerProofs

LEMMA StreamerStep == [PathNext]_pathVars => [Next]_vars
<1>1. ASSUME NEW q \in Offers, NEW t \in Threads, DeliverOffer(q, t) PROVE Next
  BY <1>1 DEF DeliverOffer, Next
<1> QED
  BY <1>1 DEF PathNext, OnRobot, OffRobot, Reply, Next, pathVars

\* The relay and the broker leave the streamer as it is: every behaviour of the
\* path is one of VideoStreamer, and all that was proved of it holds.
THEOREM PathRunsTheStreamer == PathSpec => Spec
<1>1. PathInit => Init
  BY DEF PathInit
<1> QED
  BY <1>1, StreamerStep, PTL DEF PathSpec, Spec
-----------------------------------------------------------------------------
(* CameraPath is implemented; its assumptions hold of the values it is given. *)

LEMMA FutureValues == {NoAnswer, Cancelled} \cap Offers = {} /\ NoAnswer # Cancelled
  BY OutcomeAssumption DEF NoAnswer, Cancelled, Pending, Failed

LEMMA OutcomeValues ==
  /\ {"idle", Pending, Failed} \cap Offers = {}
  /\ "idle" # Pending /\ Failed \notin {"idle", Pending}
  BY OutcomeAssumption DEF Pending, Failed

LEMMA SeenByPath == UNCHANGED <<offer, crossed, Seen>> => UNCHANGED Path!robotVars
  BY DEF Path!robotVars, Seen

LEMMA StreamerUnseen == UNCHANGED vars => UNCHANGED Path!robotVars
<1>1. UNCHANGED vars => UNCHANGED <<offer, crossed, pc, result>>
  BY DEF vars, talk, asked
<1> QED
  BY <1>1 DEF Path!robotVars

LEMMA DeliverOfferRefines ==
  ASSUME Inv, NEW q \in Offers, NEW t \in Threads, DeliverOffer(q, t)
  PROVE  Path!DeliverOffer(q, t)
<1>1. Promise!Start(t, q)
  BY StartRefines DEF DeliverOffer
<1>2. Path!Robot!Start(t, q)
  BY <1>1 DEF Promise!Start, Path!Robot!Start
<1> QED
  BY <1>2 DEF DeliverOffer, Path!DeliverOffer, Path!relayVars, relay

LEMMA OnRobotRefines ==
  ASSUME Inv, OnRobot
  PROVE  Path!OnRobot \/ UNCHANGED Path!vars
<1>1. UNCHANGED <<Path!relayVars, Path!wire>>
  BY DEF OnRobot, relay, wire, Path!relayVars, Path!wire
<1>2. ASSUME NEW t \in Threads, Promise!Finish(t) PROVE Path!Robot!Finish(t)
  BY <1>2 DEF Promise!Finish, Promise!Results, Path!Robot!Finish, Path!Robot!Results
<1> QED
  BY <1>1, <1>2, WorkRefines, SeenByPath DEF OnRobot, Path!OnRobot, Path!vars

LEMMA ReplyRefines ==
  ASSUME Inv, NEW t \in Threads, Reply(t)
  PROVE  Path!Reply(t)
<1>1. /\ pc[t] = "done" /\ t \notin replied
      /\ result[t] \in Offers \cup {Pending, Failed} /\ result[t] # Pending
  BY DEF Reply, Inv, TypeOK, Answers
<1>2. Seen[t] = result[t]
  BY <1>1, SeenValues DEF Inv
<1>3. /\ Seen[t] \notin {"idle", Pending}
      /\ Seen[t] \notin Offers <=> result[t] = Failed
  BY <1>1, <1>2, OutcomeAssumption DEF Failed, Pending
<1> QED
  BY <1>1, <1>2, <1>3, StreamerUnseen DEF Reply, Path!Reply, Path!relayVars, relay, Seen

LEMMA PathStepRefines ==
  ASSUME Inv, [PathNext]_pathVars
  PROVE  [Path!Next]_(Path!vars)
<1>1. ASSUME NEW q \in Offers, NEW t \in Threads, DeliverOffer(q, t) PROVE Path!Next
  BY <1>1, DeliverOfferRefines DEF Path!Next
<1>2. ASSUME NEW t \in Threads, Reply(t) PROVE Path!Next
  BY <1>2, ReplyRefines DEF Path!Next
<1>3. CASE OnRobot
  BY <1>3, OnRobotRefines DEF Path!Next
<1>4. CASE OffRobot
  BY <1>4 DEF OffRobot, Path!Next
<1>5. CASE UNCHANGED pathVars
  BY <1>5, StreamerUnseen DEF pathVars, relay, wire, Path!vars, Path!relayVars, Path!wire
<1> QED
  BY <1>1, <1>2, <1>3, <1>4, <1>5 DEF PathNext

LEMMA PathInvAlways == PathSpec => []Inv
  BY PathRunsTheStreamer, InvAlways, PTL

\* With the streamer at its end the signalling path implements CameraPath, in
\* which a thread just comes back with an answer: what was proved of CameraPath
\* holds of the whole path (agent.py:234-268).
THEOREM StreamerCompletesThePath == PathSpec => ImplementsCameraPath
<1>1. PathInit => Path!Init
  <2> SUFFICES ASSUME PathInit PROVE Path!Init
    OBVIOUS
  <2>1. /\ offer = [t \in Threads |-> None] /\ crossed = {}
        /\ Seen = [t \in Threads |-> "idle"]
    BY DEF PathInit, Init, Seen
  <2>2. Path!Robot!Init
    BY <2>1 DEF Path!Robot!Init, Seen
  <2>3. Path!Relay!Init
    BY DEF PathInit, Path!Relay!Init
  <2> QED
    BY <2>2, <2>3 DEF PathInit, Path!Init
<1> QED
  BY <1>1, PathStepRefines, PathInvAlways, PTL DEF PathSpec, ImplementsCameraPath, Path!Spec
-----------------------------------------------------------------------------
(* What was answered is what was negotiated *)

\* A thread has handled q and come back with s.
Made(q, s) == \E t \in Threads : offer[t] = q /\ pc[t] = "done" /\ result[t] = s

RelayTypes ==
    /\ rpc \in [Offers -> {"idle", "waiting", "released", "cancelling",
                           "answered", "timed_out", "dropped"}]
    /\ future \in [Offers -> Offers \cup {NoAnswer, Cancelled}]
    /\ toBackend \cup inbox \subseteq [id : Offers, sdp : Offers]

\* No answer is made up on the way, and none changes its request.
Genuine ==
    /\ \A m \in toBackend \cup inbox : Made(m.id, m.sdp)
    /\ \A q \in Offers :
          /\ future[q] \in Offers => Made(q, future[q])
          /\ future[q] = Cancelled => rpc[q] \in {"cancelling", "timed_out", "dropped"}
          /\ rpc[q] = "answered" => future[q] \in Offers

\* What a thread has come back with stays.
LEMMA MadeStays ==
  ASSUME Inv, [Next]_vars, NEW q, NEW s, Made(q, s)
  PROVE  Made(q, s)'
<1> USE DEF Inv
<1>1. PICK t \in Threads : offer[t] = q /\ pc[t] = "done" /\ result[t] = s
  BY DEF Made
<1>2. Seen[t] = s /\ s # "idle" /\ s # Pending
  BY <1>1, SeenValues, OutcomeAssumption DEF TypeOK, Answers, Failed
<1>3. \/ UNCHANGED <<offer, Seen>>
      \/ \E u \in Threads : \E x, y :
            /\ Seen[u] \in {"idle", Pending} /\ Seen' = [Seen EXCEPT ![u] = x]
            /\ offer' = offer \/ offer' = [offer EXCEPT ![u] = y]
  BY StepRefines DEF Promise!Next, Promise!Start, Promise!Finish, Promise!vars, Seen
<1>4. Seen \in [Threads -> {Seen[u] : u \in Threads}]
  BY DEF Seen
<1>5. offer'[t] = q /\ Seen'[t] = s
  BY <1>1, <1>2, <1>3, <1>4 DEF TypeOK
<1>6. pc'[t] = "done" /\ result'[t] = s
  BY <1>2, <1>5 DEF Seen
<1> QED
  BY <1>5, <1>6 DEF Made

LEMMA RobotSideKeepsGenuine ==
  ASSUME Inv, RelayTypes, Genuine, [Next]_vars, UNCHANGED relay,
         \A m \in toBackend' \ toBackend :
            m \in [id : Offers, sdp : Offers] /\ Made(m.id, m.sdp)
  PROVE  (RelayTypes /\ Genuine)'
<1>1. UNCHANGED <<rpc, pending, future, inbox>>
  BY DEF relay
<1>2. RelayTypes'
  BY <1>1 DEF RelayTypes
<1>3. ASSUME NEW m \in toBackend' \cup inbox' PROVE Made(m.id, m.sdp)'
  BY <1>1, <1>3, MadeStays DEF Genuine
<1>4. ASSUME NEW q \in Offers, future[q] \in Offers PROVE Made(q, future[q])'
  <2>1. PICK answered : answered = future[q]
    OBVIOUS
  <2>2. Made(q, answered)'
    BY <1>4, <2>1, MadeStays DEF Genuine
  <2> QED
    BY <1>1, <2>1, <2>2
<1> QED
  BY <1>1, <1>2, <1>3, <1>4 DEF Genuine

LEMMA ReplyKeepsGenuine ==
  ASSUME Inv, RelayTypes, Genuine, NEW t \in Threads, Reply(t)
  PROVE  (RelayTypes /\ Genuine)'
<1>1. [Next]_vars /\ UNCHANGED relay
  BY DEF Reply
<1>2. ASSUME NEW m \in toBackend' \ toBackend
      PROVE  m \in [id : Offers, sdp : Offers] /\ Made(m.id, m.sdp)
  <2>1. m = [id |-> offer[t], sdp |-> result[t]] /\ result[t] # Failed /\ pc[t] = "done"
    BY <1>2 DEF Reply
  <2>2. offer[t] \in Offers /\ result[t] \in Offers
    BY <2>1 DEF Inv, TypeOK, Answers
  <2> QED
    BY <2>1, <2>2 DEF Made
<1> QED
  BY <1>1, <1>2, RobotSideKeepsGenuine

\* One request's handler goes on, or its future is filled or cancelled.
LEMMA RequestKeepsGenuine ==
  ASSUME RelayTypes, Genuine, UNCHANGED vars, NEW q \in Offers,
         toBackend' = toBackend, inbox' \subseteq inbox,
         \/ future' = future
         \/ future' = [future EXCEPT ![q] = Cancelled] /\ rpc'[q] = "cancelling"
         \/ \E s \in Offers : /\ Made(q, s) /\ future[q] = NoAnswer /\ rpc' = rpc
                              /\ future' = [future EXCEPT ![q] = s],
         \E place \in {rpc[q], "waiting", "released", "cancelling", "answered", "timed_out"} :
            /\ rpc' = [rpc EXCEPT ![q] = place]
            /\ place = "answered" => rpc[q] = "answered" \/ future[q] \in Offers
            /\ rpc[q] \in {"cancelling", "timed_out", "dropped"} =>
                  place \in {"cancelling", "timed_out", "dropped"}
  PROVE  (RelayTypes /\ Genuine)'
<1>1. \A r, s : Made(r, s)' <=> Made(r, s)
  BY DEF Made, vars, talk, asked
<1>2. RelayTypes'
  BY DEF RelayTypes
<1>3. ASSUME NEW r \in Offers
      PROVE  /\ future'[r] \in Offers => Made(r, future'[r])
             /\ future'[r] = Cancelled => rpc'[r] \in {"cancelling", "timed_out", "dropped"}
             /\ rpc'[r] = "answered" => future'[r] \in Offers
  <2>1. CASE r # q
    BY <2>1 DEF RelayTypes, Genuine
  <2>2. CASE r = q
    BY <2>2, FutureValues DEF RelayTypes, Genuine
  <2> QED
    BY <2>1, <2>2
<1> QED
  BY <1>1, <1>2, <1>3 DEF Genuine

LEMMA RunKeepsGenuine ==
  ASSUME RelayTypes, Genuine, UNCHANGED vars, toBackend' = toBackend,
         NEW q \in Offers, Path!Relay!Run(q)
  PROVE  (RelayTypes /\ Genuine)'
<1> USE DEF Path!Relay!Goto, Path!Relay!Done
<1>1. CASE Path!Relay!TimerFires(q)
  BY <1>1, RequestKeepsGenuine DEF Path!Relay!TimerFires
<1>2. CASE Path!Relay!GiveUp(q)
  BY <1>2, RequestKeepsGenuine DEF Path!Relay!GiveUp
<1>3. CASE Path!Relay!Resume(q) /\ future[q] = NoAnswer
  <2>1. /\ rpc[q] \in {"waiting", "released"} /\ rpc' = [rpc EXCEPT ![q] = "cancelling"]
        /\ future' = [future EXCEPT ![q] = Cancelled] /\ inbox' = inbox
    BY <1>3 DEF Path!Relay!Resume
  <2>2. rpc'[q] = "cancelling"
    BY <2>1 DEF RelayTypes
  <2> QED
    BY <2>1, <2>2, RequestKeepsGenuine
<1>4. CASE Path!Relay!Resume(q) /\ future[q] # NoAnswer
  <2>1. /\ rpc[q] \in {"waiting", "released"} /\ rpc' = [rpc EXCEPT ![q] = "answered"]
        /\ future' = future /\ inbox' = inbox
    BY <1>4 DEF Path!Relay!Resume
  <2>2. future[q] \in Offers
    BY <1>4, <2>1 DEF RelayTypes, Genuine
  <2> QED
    BY <2>1, <2>2, RequestKeepsGenuine
<1> QED
  BY <1>1, <1>2, <1>3, <1>4 DEF Path!Relay!Run

LEMMA HandleAnswerKeepsGenuine ==
  ASSUME RelayTypes, Genuine, UNCHANGED vars, toBackend' = toBackend,
         NEW m \in inbox, Path!Relay!HandleAnswer(m)
  PROVE  (RelayTypes /\ Genuine)'
<1>1. m.id \in Offers /\ m.sdp \in Offers /\ Made(m.id, m.sdp)
  BY DEF RelayTypes, Genuine
<1>2. /\ inbox' \subseteq inbox /\ rpc' = rpc
      /\ \/ future' = future
         \/ future[m.id] = NoAnswer /\ future' = [future EXCEPT ![m.id] = m.sdp]
  BY DEF Path!Relay!HandleAnswer, Path!Relay!Done
<1>3. rpc' = [rpc EXCEPT ![m.id] = rpc[m.id]]
  BY <1>1, <1>2 DEF RelayTypes
<1> QED
  BY <1>1, <1>2, <1>3, RequestKeepsGenuine

LEMMA OffRobotKeepsGenuine ==
  ASSUME RelayTypes, Genuine, OffRobot
  PROVE  (RelayTypes /\ Genuine)'
<1>1. UNCHANGED vars
  BY DEF OffRobot
<1>2. \A r, s : Made(r, s)' <=> Made(r, s)
  BY <1>1 DEF Made, vars, talk, asked
<1>3. ASSUME NEW q \in Offers, Path!PostOffer(q) PROVE (RelayTypes /\ Genuine)'
  BY <1>1, <1>3, RequestKeepsGenuine
  DEF Path!PostOffer, Path!Relay!RelayOffer, Path!Relay!Goto
<1>4. ASSUME NEW q \in Offers, Path!LoseOffer(q) PROVE (RelayTypes /\ Genuine)'
  BY <1>2, <1>4 DEF Path!LoseOffer, Path!relayVars, RelayTypes, Genuine
<1>5. ASSUME NEW m \in toBackend, Path!DeliverAnswer(m) PROVE (RelayTypes /\ Genuine)'
  BY <1>2, <1>5 DEF Path!DeliverAnswer, Path!Relay!Dispatch, RelayTypes, Genuine
<1>6. CASE Path!Backend
  <2>1. toBackend' = toBackend
    BY <1>6 DEF Path!Backend, Path!wire
  <2>2. ASSUME Path!Relay!Crash PROVE (RelayTypes /\ Genuine)'
    <3>1. /\ rpc' = [q \in Offers |-> IF rpc[q] \in Path!Relay!Waiting THEN "dropped" ELSE rpc[q]]
          /\ future' = future /\ inbox' = {}
      BY <2>2 DEF Path!Relay!Crash
    <3> QED
      BY <1>2, <2>1, <3>1 DEF RelayTypes, Genuine, Path!Relay!Waiting
  <2> QED
    BY <1>1, <1>6, <2>1, <2>2, RunKeepsGenuine, HandleAnswerKeepsGenuine DEF Path!Backend
<1> QED
  BY <1>3, <1>4, <1>5, <1>6 DEF OffRobot

LEMMA GenuineAlways == PathSpec => [](RelayTypes /\ Genuine)
<1>1. PathInit => RelayTypes /\ Genuine
  BY FutureValues DEF PathInit, RelayTypes, Genuine
<1>2. ASSUME Inv, RelayTypes /\ Genuine, [PathNext]_pathVars PROVE (RelayTypes /\ Genuine)'
  <2>1. [Next]_vars
    BY <1>2, StreamerStep
  <2>2. ASSUME UNCHANGED relay, toBackend' = toBackend PROVE (RelayTypes /\ Genuine)'
    BY <1>2, <2>1, <2>2, RobotSideKeepsGenuine
  <2>3. CASE OnRobot \/ UNCHANGED pathVars \/ \E q \in Offers, t \in Threads : DeliverOffer(q, t)
    BY <2>2, <2>3 DEF OnRobot, DeliverOffer, pathVars, wire
  <2> QED
    BY <1>2, <2>3, ReplyKeepsGenuine, OffRobotKeepsGenuine DEF PathNext
<1> QED
  BY <1>1, <1>2, PathInvAlways, PTL DEF PathSpec

\* A viewer that was answered faces the peer connection that was negotiated for
\* it, and goes on doing so, whatever was posted, answered late or given up -
\* unless its offer was handled together with another (relay.py:31-72,
\* agent.py:234-268, video_streamer.py:438-558).
THEOREM WhatIsAnsweredWasNegotiated == PathSpec => []AnsweredIsNegotiated
<1>1. ASSUME Inv, Stands, RelayTypes /\ Genuine PROVE AnsweredIsNegotiated
  <2> SUFFICES ASSUME NEW q \in Offers, rpc[q] = "answered"
               PROVE  \E t \in Threads :
                         /\ offer[t] = q
                         /\ t \in crossed \/ (future[q] = q /\ remote[t] = q /\ localDesc[t] = q)
    BY DEF AnsweredIsNegotiated
  <2>1. future[q] \in Offers
    BY <1>1 DEF Genuine
  <2>2. PICK t \in Threads : offer[t] = q /\ pc[t] = "done" /\ result[t] = future[q]
    BY <1>1, <2>1 DEF Genuine, Made
  <2>3. result[t] \notin {Pending, Failed}
    BY <2>1, <2>2, OutcomeAssumption
  <2>4. t \notin crossed => result[t] = q
    BY <1>1, <2>2, <2>3 DEF Inv, Answers, Own
  <2>5. t \notin crossed => remote[t] = q /\ localDesc[t] = q
    BY <1>1, <2>2, <2>3 DEF Stands, Settled
  <2> QED
    BY <2>2, <2>4, <2>5
<1> QED
  BY <1>1, PathRunsTheStreamer, PathInvAlways, StandsAlways, GenuineAlways, PTL
-----------------------------------------------------------------------------
(* What CameraPath promises, of the whole path *)

\* The theorems about CameraPath, of what implements it here.
Proved == INSTANCE CameraPathProofs WITH
    Requests <- Offers, Idle <- "idle", Working <- Pending,
    outcome <- [t \in Threads |-> CASE pc[t] = "idle" -> "idle"
                                     [] pc[t] = "done" -> result[t]
                                     [] OTHER -> Pending]

LEMMA SameStep == [Path!Next]_(Path!vars) => [Proved!Next]_(Proved!vars)
<1>1. /\ UNCHANGED Path!vars <=> UNCHANGED Proved!vars
      /\ UNCHANGED Path!wire <=> UNCHANGED Proved!wire
      /\ UNCHANGED Path!relayVars <=> UNCHANGED Proved!relayVars
      /\ UNCHANGED Path!robotVars <=> UNCHANGED Proved!robotVars
  BY DEF Path!vars, Proved!vars, Path!relayVars, Proved!relayVars, Path!robotVars,
       Proved!robotVars, Path!wire, Proved!wire
<1>2. ASSUME NEW q \in Offers, Path!PostOffer(q) \/ Path!LoseOffer(q)
      PROVE  Proved!PostOffer(q) \/ Proved!LoseOffer(q)
  BY <1>1, <1>2 DEF Path!PostOffer, Proved!PostOffer, Path!LoseOffer, Proved!LoseOffer,
       Path!Relay!RelayOffer, Proved!Relay!RelayOffer, Path!Relay!Goto, Proved!Relay!Goto
<1>3. ASSUME NEW q \in Offers, NEW t \in Threads, Path!DeliverOffer(q, t)
      PROVE  Proved!DeliverOffer(q, t)
  BY <1>1, <1>3 DEF Path!DeliverOffer, Proved!DeliverOffer, Path!Robot!Start,
       Proved!Robot!Start
<1>4. ASSUME NEW t \in Threads, Path!Reply(t) PROVE Proved!Reply(t)
  BY <1>1, <1>4 DEF Path!Reply, Proved!Reply
<1>5. ASSUME NEW m \in toBackend, Path!DeliverAnswer(m) PROVE Proved!DeliverAnswer(m)
  BY <1>1, <1>5 DEF Path!DeliverAnswer, Proved!DeliverAnswer, Path!Relay!Dispatch,
       Proved!Relay!Dispatch
<1>6. ASSUME Path!Backend PROVE Proved!Backend
  BY <1>1, <1>6 DEF Path!Backend, Proved!Backend, Path!Relay!Run, Proved!Relay!Run,
       Path!Relay!TimerFires, Proved!Relay!TimerFires, Path!Relay!Resume,
       Proved!Relay!Resume, Path!Relay!GiveUp, Proved!Relay!GiveUp,
       Path!Relay!HandleAnswer, Proved!Relay!HandleAnswer, Path!Relay!Crash,
       Proved!Relay!Crash, Path!Relay!Waiting, Proved!Relay!Waiting, Path!Relay!Done,
       Proved!Relay!Done, Path!Relay!Goto, Proved!Relay!Goto
<1>7. ASSUME Path!OnRobot PROVE Proved!OnRobot
  BY <1>1, <1>7 DEF Path!OnRobot, Proved!OnRobot, Path!Robot!Finish, Proved!Robot!Finish,
       Path!Robot!Results, Proved!Robot!Results
<1> QED
  BY <1>1, <1>2, <1>3, <1>4, <1>5, <1>6, <1>7 DEF Path!Next, Proved!Next

LEMMA SameSpec == Path!Spec => Proved!Spec
<1>1. Path!Init => Proved!Init
  BY DEF Path!Init, Proved!Init, Path!Relay!Init, Proved!Relay!Init, Path!Robot!Init,
       Proved!Robot!Init
<1> QED
  BY <1>1, SameStep, PTL DEF Path!Spec, Proved!Spec

\* With the streamer's threads, jobs and frames at the robot's end a viewer is
\* given the answer to its own offer or an error, an answer that came in time is
\* not turned into a timeout, and the relay forgets no request that waits
\* (relay.py:36-72, agent.py:234-268, video_streamer.py:438-558).
THEOREM WholePathIsSafe ==
  PathSpec => [](Path!ViewerGetsItsAnswer /\ Path!AcceptedAnswerIsDelivered /\ Path!PendingIsWaiting)
<1>1. PathSpec => Proved!Spec
  BY StreamerCompletesThePath, SameSpec, PTL DEF ImplementsCameraPath
<1>2. Proved!Spec => []Proved!ViewerGetsItsAnswer
  BY Proved!EachViewerItsAnswer, FutureValues, OutcomeValues
<1>3. Proved!Spec => []Proved!AcceptedAnswerIsDelivered
  BY Proved!AcceptedIsDelivered, FutureValues, OutcomeValues
<1>4. Proved!Spec => []Proved!PendingIsWaiting
  BY Proved!NothingStaysPending, FutureValues, OutcomeValues
<1>5. /\ Proved!ViewerGetsItsAnswer => Path!ViewerGetsItsAnswer
      /\ Proved!AcceptedAnswerIsDelivered => Path!AcceptedAnswerIsDelivered
      /\ Proved!PendingIsWaiting => Path!PendingIsWaiting
  BY DEF Path!ViewerGetsItsAnswer, Proved!ViewerGetsItsAnswer,
       Path!AcceptedAnswerIsDelivered, Proved!AcceptedAnswerIsDelivered,
       Path!Relay!AcceptedAnswerIsDelivered, Proved!Relay!AcceptedAnswerIsDelivered,
       Path!PendingIsWaiting, Proved!PendingIsWaiting, Path!Relay!PendingIsWaiting,
       Proved!Relay!PendingIsWaiting, Path!Relay!Waiting, Proved!Relay!Waiting
<1> QED
  BY <1>1, <1>2, <1>3, <1>4, <1>5, PTL
=============================================================================
