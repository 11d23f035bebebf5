-------------------------- MODULE CameraPathProofs --------------------------
(***************************************************************************)
(* The safety of the signalling path, for every set of requests and of     *)
(* offer threads.  The argument: a thread's outcome is its own offer unless *)
(* it was crossed by another, so every message under way carries the       *)
(* answer to the request it names, or that request was crossed; a future   *)
(* is filled by such a message alone, and once only; and a handler returns *)
(* what its future holds.                                                  *)
(***************************************************************************)
EXTENDS CameraPath, TLAPS

\* An offer of q was handled together with another.
Crossed(q) == \E t \in crossed : offer[t] = q

\* A thread that was started has an offer; one that has answered has answered
\* that offer or was crossed.
OutcomeIsOwn ==
    /\ \A t \in Threads :
          /\ outcome[t] # Idle => offer[t] \in Requests
          /\ outcome[t] \in Requests => outcome[t] = offer[t] \/ t \in crossed
    /\ \A t \in crossed : outcome[t] # Idle

\* Every answer under way is named by the request it answers, or by one that
\* was crossed.
MessagesMatch == \A m \in toBackend \cup inbox : m.sdp = m.id \/ Crossed(m.id)

\* A future holds nothing, its own answer (or any, once crossed), or its
\* cancellation, which comes with the handler's giving up.
FuturesMatch ==
    \A q \in Requests :
        /\ future[q] \in Requests => future[q] = q \/ Crossed(q)
        /\ rpc[q] \in {"cancelling", "timed_out"} => future[q] = Cancelled
        /\ future[q] = Cancelled => rpc[q] \in {"cancelling", "timed_out", "dropped"}
        /\ rpc[q] = "answered" => future[q] \in Requests

Inv == TypeOK /\ OutcomeIsOwn /\ MessagesMatch /\ FuturesMatch /\ PendingIsWaiting
-----------------------------------------------------------------------------
LEMMA InitInv == Init => Inv
  BY OutcomeAssumption, FutureAssumption
  DEF Init, Inv, TypeOK, OutcomeIsOwn, MessagesMatch, FuturesMatch,
      PendingIsWaiting, Relay!Init, Robot!Init, Relay!TypeOK,
      Relay!PendingIsWaiting, Relay!Waiting, Relay!Ended

LEMMA StutterKeepsInv == ASSUME Inv, UNCHANGED vars PROVE Inv'
  BY DEF vars, relayVars, robotVars, wire, Inv, TypeOK, OutcomeIsOwn,
         MessagesMatch, FuturesMatch, PendingIsWaiting, Relay!TypeOK,
         Relay!PendingIsWaiting, Crossed

\* Steps of the robot and of the wires to it leave the relay alone.
LEMMA RelayUntouched ==
  ASSUME Inv, UNCHANGED relayVars, \A q \in Requests : Crossed(q) => Crossed(q)'
  PROVE  Relay!TypeOK' /\ FuturesMatch' /\ PendingIsWaiting'
  BY DEF Inv, TypeOK, relayVars, FuturesMatch, PendingIsWaiting, Relay!TypeOK,
         Relay!PendingIsWaiting

LEMMA RobotUntouched ==
  ASSUME Inv, UNCHANGED robotVars
  PROVE  /\ offer' \in [Threads -> Requests \cup {None}]
         /\ outcome' \in [Threads -> Requests \cup {Idle, Working, Failed}]
         /\ crossed' \subseteq Threads
         /\ OutcomeIsOwn'
         /\ \A q : Crossed(q)' = Crossed(q)
  BY DEF Inv, TypeOK, robotVars, OutcomeIsOwn, Crossed

LEMMA PostOfferKeepsInv ==
  ASSUME Inv, NEW q \in Requests, PostOffer(q) PROVE Inv'
<1>1. /\ rpc[q] = "idle" /\ rpc' = [rpc EXCEPT ![q] = "waiting"]
      /\ pending' = pending \cup {q} /\ UNCHANGED <<future, inbox>>
      /\ toRobot' = toRobot \cup {q} /\ UNCHANGED <<robotVars, toBackend, replied>>
  BY DEF PostOffer, Relay!RelayOffer, Relay!Goto
<1>2. TypeOK'
  BY <1>1, RobotUntouched DEF Inv, TypeOK, Relay!TypeOK, Relay!Waiting
<1>3. MessagesMatch'
  BY <1>1, RobotUntouched DEF Inv, MessagesMatch
<1>4. FuturesMatch'
  BY <1>1, RobotUntouched DEF Inv, FuturesMatch, TypeOK, Relay!TypeOK
<1>5. PendingIsWaiting'
  BY <1>1 DEF Inv, PendingIsWaiting, Relay!PendingIsWaiting, Relay!Waiting, TypeOK,
              Relay!TypeOK
<1> QED
  BY <1>1, <1>2, <1>3, <1>4, <1>5, RobotUntouched DEF Inv

LEMMA DeliverOfferKeepsInv ==
  ASSUME Inv, NEW q \in Requests, NEW t \in Threads, DeliverOffer(q, t) PROVE Inv'
<1> DEFINE busy == {u \in Threads : outcome[u] = Working}
<1>1. /\ outcome[t] = Idle
      /\ offer' = [offer EXCEPT ![t] = q] /\ outcome' = [outcome EXCEPT ![t] = Working]
      /\ crossed' = IF busy = {} THEN crossed ELSE crossed \cup busy \cup {t}
      /\ toRobot' \in {toRobot, toRobot \ {q}}
      /\ UNCHANGED <<relayVars, toBackend, replied>>
  BY DEF DeliverOffer, Robot!Start
<1>2. /\ crossed \subseteq crossed' /\ crossed' \subseteq crossed \cup busy \cup {t}
      /\ busy \subseteq Threads /\ crossed \subseteq Threads /\ t \notin crossed
  BY <1>1 DEF Inv, TypeOK, OutcomeIsOwn
<1> HIDE DEF busy
<1>3. \A r : Crossed(r) => Crossed(r)'
  BY <1>1, <1>2 DEF Inv, TypeOK, Crossed
<1>4. TypeOK'
  BY <1>1, <1>2, <1>3, RelayUntouched DEF Inv, TypeOK
<1>5. ASSUME NEW u \in Threads
      PROVE  /\ outcome'[u] # Idle => offer'[u] \in Requests
             /\ outcome'[u] \in Requests => outcome'[u] = offer'[u] \/ u \in crossed'
  BY <1>1, <1>2, OutcomeAssumption DEF Inv, OutcomeIsOwn, TypeOK
<1>6. ASSUME NEW u \in crossed' PROVE outcome'[u] # Idle
  BY <1>1, <1>2, OutcomeAssumption DEF Inv, OutcomeIsOwn, TypeOK, busy
<1>7. OutcomeIsOwn'
  BY <1>5, <1>6 DEF OutcomeIsOwn
<1>8. MessagesMatch'
  BY <1>1, <1>3 DEF Inv, MessagesMatch, relayVars
<1> QED
  BY <1>1, <1>3, <1>4, <1>7, <1>8, RelayUntouched DEF Inv

LEMMA LoseOfferKeepsInv ==
  ASSUME Inv, NEW q \in Requests, LoseOffer(q) PROVE Inv'
<1>1. /\ toRobot' = toRobot \ {q}
      /\ UNCHANGED <<relayVars, robotVars, toBackend, replied>>
  BY DEF LoseOffer
<1>2. TypeOK' /\ MessagesMatch'
  BY <1>1, RelayUntouched, RobotUntouched DEF Inv, TypeOK, MessagesMatch, relayVars
<1> QED
  BY <1>1, <1>2, RelayUntouched, RobotUntouched DEF Inv

LEMMA ReplyKeepsInv ==
  ASSUME Inv, NEW t \in Threads, Reply(t) PROVE Inv'
<1>1. /\ replied' = replied \cup {t}
      /\ toBackend' = IF outcome[t] \notin Requests THEN toBackend
                         ELSE toBackend \cup {[id |-> offer[t], sdp |-> outcome[t]]}
      /\ UNCHANGED <<relayVars, robotVars, toRobot>>
  BY DEF Reply
<1>2. outcome[t] \in Requests =>
         offer[t] \in Requests /\ (offer[t] = outcome[t] \/ Crossed(offer[t]))
  BY OutcomeAssumption DEF Inv, OutcomeIsOwn, Crossed
<1>3. TypeOK' /\ MessagesMatch'
  BY <1>1, <1>2, RelayUntouched, RobotUntouched DEF Inv, TypeOK, MessagesMatch, relayVars
<1> QED
  BY <1>1, <1>3, RelayUntouched, RobotUntouched DEF Inv

LEMMA DeliverAnswerKeepsInv ==
  ASSUME Inv, NEW m \in toBackend, DeliverAnswer(m) PROVE Inv'
<1>1. /\ inbox' = inbox \cup {m} /\ toBackend' \in {toBackend, toBackend \ {m}}
      /\ UNCHANGED <<rpc, pending, future, robotVars, toRobot, replied>>
  BY DEF DeliverAnswer, Relay!Dispatch
<1>2. TypeOK' /\ MessagesMatch'
  BY <1>1, RobotUntouched DEF Inv, TypeOK, Relay!TypeOK, MessagesMatch
<1>3. FuturesMatch' /\ PendingIsWaiting'
  BY <1>1, RobotUntouched DEF Inv, FuturesMatch, PendingIsWaiting, Relay!PendingIsWaiting
<1> QED
  BY <1>1, <1>2, <1>3, RobotUntouched DEF Inv

LEMMA RunKeepsInv ==
  ASSUME Inv, NEW q \in Requests, Relay!Run(q), UNCHANGED <<robotVars, wire>> PROVE Inv'
<1> USE DEF Relay!Goto, Relay!Done, wire
<1>1. UNCHANGED inbox /\ UNCHANGED <<toRobot, toBackend, replied>>
  BY DEF Relay!Run, Relay!TimerFires, Relay!Resume, Relay!GiveUp
<1>2. MessagesMatch'
  BY <1>1, RobotUntouched DEF Inv, MessagesMatch
<1>3. CASE Relay!TimerFires(q)
  <2>1. /\ rpc[q] = "waiting" /\ rpc' = [rpc EXCEPT ![q] = "released"]
        /\ UNCHANGED <<pending, future>>
    BY <1>3 DEF Relay!TimerFires
  <2>2. TypeOK' /\ FuturesMatch' /\ PendingIsWaiting'
    BY <2>1, <1>1, RobotUntouched
    DEF Inv, TypeOK, Relay!TypeOK, FuturesMatch, PendingIsWaiting,
        Relay!PendingIsWaiting, Relay!Waiting
  <2> QED
    BY <1>2, <2>2, RobotUntouched DEF Inv
<1>4. CASE Relay!Resume(q) /\ future[q] # NoAnswer
  <2>1. /\ rpc[q] \in {"waiting", "released"} /\ rpc' = [rpc EXCEPT ![q] = "answered"]
        /\ pending' = pending \ {q} /\ UNCHANGED future
    BY <1>4 DEF Relay!Resume
  <2>2. future[q] \in Requests
    BY <1>4, <2>1 DEF Inv, TypeOK, Relay!TypeOK, FuturesMatch
  <2>3. TypeOK'
    BY <2>1, <1>1, RobotUntouched DEF Inv, TypeOK, Relay!TypeOK, Relay!Ended
  <2>4. FuturesMatch'
    BY <2>1, <2>2, FutureAssumption, RobotUntouched
    DEF Inv, TypeOK, Relay!TypeOK, FuturesMatch
  <2>5. PendingIsWaiting'
    BY <2>1 DEF Inv, TypeOK, Relay!TypeOK, PendingIsWaiting, Relay!PendingIsWaiting,
                Relay!Waiting
  <2> QED
    BY <1>2, <2>3, <2>4, <2>5, RobotUntouched DEF Inv
<1>5. CASE Relay!Resume(q) /\ future[q] = NoAnswer
  <2>1. /\ rpc[q] \in {"waiting", "released"} /\ rpc' = [rpc EXCEPT ![q] = "cancelling"]
        /\ future' = [future EXCEPT ![q] = Cancelled] /\ UNCHANGED pending
    BY <1>5 DEF Relay!Resume
  <2>2. TypeOK'
    BY <2>1, <1>1, RobotUntouched DEF Inv, TypeOK, Relay!TypeOK, Relay!Waiting
  <2>3. FuturesMatch'
    BY <2>1, FutureAssumption, RobotUntouched
    DEF Inv, TypeOK, Relay!TypeOK, FuturesMatch
  <2>4. PendingIsWaiting'
    BY <2>1 DEF Inv, TypeOK, Relay!TypeOK, PendingIsWaiting, Relay!PendingIsWaiting,
                Relay!Waiting
  <2> QED
    BY <1>2, <2>2, <2>3, <2>4, RobotUntouched DEF Inv
<1>6. CASE Relay!GiveUp(q)
  <2>1. /\ rpc[q] = "cancelling" /\ rpc' = [rpc EXCEPT ![q] = "timed_out"]
        /\ pending' = pending \ {q} /\ UNCHANGED future
    BY <1>6 DEF Relay!GiveUp
  <2>2. TypeOK'
    BY <2>1, <1>1, RobotUntouched DEF Inv, TypeOK, Relay!TypeOK, Relay!Ended
  <2>3. FuturesMatch'
    BY <2>1, FutureAssumption, RobotUntouched
    DEF Inv, TypeOK, Relay!TypeOK, FuturesMatch
  <2>4. PendingIsWaiting'
    BY <2>1 DEF Inv, TypeOK, Relay!TypeOK, PendingIsWaiting, Relay!PendingIsWaiting,
                Relay!Waiting
  <2> QED
    BY <1>2, <2>2, <2>3, <2>4, RobotUntouched DEF Inv
<1> QED
  BY <1>3, <1>4, <1>5, <1>6 DEF Relay!Run

LEMMA HandleAnswerKeepsInv ==
  ASSUME Inv, NEW m \in inbox, Relay!HandleAnswer(m), UNCHANGED <<robotVars, wire>>
  PROVE  Inv'
<1>1. /\ inbox' = inbox \ {m} /\ UNCHANGED <<rpc, pending, toRobot, toBackend, replied>>
      /\ future' = IF m.id \in pending /\ future[m.id] = NoAnswer
                      THEN [future EXCEPT ![m.id] = m.sdp] ELSE future
  BY DEF Relay!HandleAnswer, Relay!Done, wire
<1>2. /\ m.id \in Requests /\ m.sdp \in Requests
      /\ m.sdp = m.id \/ Crossed(m.id)
  BY DEF Inv, TypeOK, Relay!TypeOK, MessagesMatch
<1>3. m.id \in pending => rpc[m.id] \in {"waiting", "released", "cancelling"}
  BY DEF Inv, PendingIsWaiting, Relay!PendingIsWaiting, Relay!Waiting
<1>4. TypeOK'
  BY <1>1, <1>2, RobotUntouched DEF Inv, TypeOK, Relay!TypeOK
<1>5. FuturesMatch'
  BY <1>1, <1>2, <1>3, FutureAssumption, RobotUntouched DEF Inv, TypeOK, Relay!TypeOK, FuturesMatch
<1>6. MessagesMatch' /\ PendingIsWaiting'
  BY <1>1, RobotUntouched DEF Inv, MessagesMatch, PendingIsWaiting, Relay!PendingIsWaiting
<1> QED
  BY <1>4, <1>5, <1>6, RobotUntouched DEF Inv

LEMMA CrashKeepsInv ==
  ASSUME Inv, Relay!Crash, UNCHANGED <<robotVars, wire>> PROVE Inv'
<1>1. /\ rpc' = [q \in Requests |-> IF rpc[q] \in Relay!Waiting THEN "dropped" ELSE rpc[q]]
      /\ pending' = {} /\ inbox' = {} /\ UNCHANGED <<future, toRobot, toBackend, replied>>
  BY DEF Relay!Crash, wire
<1>2. TypeOK' /\ MessagesMatch'
  BY <1>1, RobotUntouched
  DEF Inv, TypeOK, Relay!TypeOK, MessagesMatch, Relay!Waiting, Relay!Ended
<1>3. FuturesMatch' /\ PendingIsWaiting'
  BY <1>1, RobotUntouched DEF Inv, TypeOK, Relay!TypeOK, FuturesMatch, PendingIsWaiting,
              Relay!PendingIsWaiting, Relay!Waiting
<1> QED
  BY <1>2, <1>3, RobotUntouched DEF Inv

LEMMA OnRobotKeepsInv == ASSUME Inv, OnRobot PROVE Inv'
<1>1. PICK t \in Threads : Robot!Finish(t)
  BY DEF OnRobot
<1>2. UNCHANGED relayVars /\ UNCHANGED <<toRobot, toBackend, replied>>
  BY DEF OnRobot, wire
<1>3. /\ outcome[t] = Working /\ offer[t] \in Requests /\ UNCHANGED <<offer, crossed>>
      /\ \E x \in Robot!Results(t) : outcome' = [outcome EXCEPT ![t] = x]
  BY <1>1, OutcomeAssumption DEF Robot!Finish, Inv, OutcomeIsOwn
<1>4. PICK x \in Robot!Results(t) : outcome' = [outcome EXCEPT ![t] = x]
  BY <1>3
<1>5. x = Failed \/ x = offer[t] \/ (x \in Requests /\ t \in crossed)
  BY OutcomeAssumption DEF Robot!Results, Inv, TypeOK, OutcomeIsOwn
<1>6. \A r : Crossed(r)' = Crossed(r)
  BY <1>3 DEF Crossed
<1>7. TypeOK'
  BY <1>2, <1>3, <1>4, <1>5, <1>6, RelayUntouched DEF Inv, TypeOK
<1>8. OutcomeIsOwn'
  <2>1. ASSUME NEW u \in Threads
        PROVE  /\ outcome'[u] # Idle => offer'[u] \in Requests
               /\ outcome'[u] \in Requests => outcome'[u] = offer'[u] \/ u \in crossed'
    BY <1>3, <1>4, <1>5, OutcomeAssumption DEF Inv, TypeOK, OutcomeIsOwn
  <2>2. ASSUME NEW u \in crossed' PROVE outcome'[u] # Idle
    BY <1>3, <1>4, <1>5, OutcomeAssumption DEF Inv, TypeOK, OutcomeIsOwn
  <2> QED
    BY <2>1, <2>2 DEF OutcomeIsOwn
<1>9. MessagesMatch'
  BY <1>2, <1>6 DEF Inv, MessagesMatch, relayVars
<1> QED
  BY <1>2, <1>6, <1>7, <1>8, <1>9, RelayUntouched DEF Inv

LEMMA NextKeepsInv == Inv /\ [Next]_vars => Inv'
<1> SUFFICES ASSUME Inv, [Next]_vars PROVE Inv'
  OBVIOUS
<1>1. CASE UNCHANGED vars
  BY <1>1, StutterKeepsInv
<1>2. ASSUME NEW q \in Requests, PostOffer(q) \/ LoseOffer(q) PROVE Inv'
  BY <1>2, PostOfferKeepsInv, LoseOfferKeepsInv
<1>3. ASSUME NEW q \in Requests, NEW t \in Threads, DeliverOffer(q, t) PROVE Inv'
  BY <1>3, DeliverOfferKeepsInv
<1>4. ASSUME NEW t \in Threads, Reply(t) PROVE Inv'
  BY <1>4, ReplyKeepsInv
<1>5. ASSUME NEW m \in toBackend, DeliverAnswer(m) PROVE Inv'
  BY <1>5, DeliverAnswerKeepsInv
<1>6. CASE Backend
  BY <1>6, RunKeepsInv, HandleAnswerKeepsInv, CrashKeepsInv DEF Backend
<1>7. CASE OnRobot
  BY <1>7, OnRobotKeepsInv
<1> QED
  BY <1>1, <1>2, <1>3, <1>4, <1>5, <1>6, <1>7 DEF Next

LEMMA InvAlways == Spec => []Inv
  BY InitInv, NextKeepsInv, PTL DEF Spec
-----------------------------------------------------------------------------
\* Every reachable state of the signalling path is well typed.
THEOREM TypeCorrectness == Spec => []TypeOK
<1>1. Inv => TypeOK
  BY DEF Inv
<1> QED
  BY <1>1, InvAlways, PTL

\* A viewer is never given an answer made for another request, unless the robot
\* handled the two together (relay.py:57-72, agent.py:251-268).
THEOREM EachViewerItsAnswer == Spec => []ViewerGetsItsAnswer
<1>1. Inv => ViewerGetsItsAnswer
  BY DEF Inv, FuturesMatch, ViewerGetsItsAnswer, Crossed
<1> QED
  BY <1>1, InvAlways, PTL

\* An answer that was put into its future is never turned into a timeout
\* (relay.py:48-55).
THEOREM AcceptedIsDelivered == Spec => []AcceptedAnswerIsDelivered
<1>1. Inv => AcceptedAnswerIsDelivered
  BY DEF Inv, FuturesMatch, AcceptedAnswerIsDelivered, Relay!AcceptedAnswerIsDelivered
<1> QED
  BY <1>1, InvAlways, PTL

\* The relay holds an entry for exactly the requests that wait (relay.py:44-55).
THEOREM NothingStaysPending == Spec => []PendingIsWaiting
<1>1. Inv => PendingIsWaiting
  BY DEF Inv
<1> QED
  BY <1>1, InvAlways, PTL
=============================================================================
