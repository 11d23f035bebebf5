---------------------------- MODULE WebRTCRelay ----------------------------
(***************************************************************************)
(* WebRTCSignallingRelay of the backend: an offer is published under a     *)
(* fresh request id, the handler waits on a future for the answer that     *)
(* carries the same id, at most as long as the timeout.  Inbound answers   *)
(* are handled by tasks of their own on the same event loop (MQTTService.  *)
(* _dispatch), in any order.                                               *)
(*                                                                         *)
(* asyncio.wait_for (Python 3.11, docker/backend.Dockerfile) takes several *)
(* turns of the loop to end, so an answer can come in between the timer    *)
(* and the cancellation of the future, and between the cancellation and    *)
(* the removal of the entry.                                               *)
(***************************************************************************)
CONSTANTS
    Requests,   \* request ids (uuid4), one per POST /robots/{id}/webrtc/offer
    Answers,    \* SDP answers
    NoAnswer,   \* a future without a result
    Cancelled   \* a cancelled future

VARIABLES
    rpc,        \* rpc[q]: where the handler of request q is
    pending,    \* the keys of self._pending
    future,     \* future[q]: NoAnswer, an answer, or Cancelled
    inbox       \* answers whose handle_answer task has not run yet

vars == <<rpc, pending, future, inbox>>

Waiting == {"waiting", "released", "cancelling"}
Ended == {"answered", "timed_out", "dropped"}
Done(q) == future[q] # NoAnswer

Init ==
    /\ rpc = [q \in Requests |-> "idle"]
    /\ pending = {}
    /\ future = [q \in Requests |-> NoAnswer]
    /\ inbox = {}

Goto(q, place) == rpc' = [rpc EXCEPT ![q] = place]

\* relay_offer up to wait_for.
RelayOffer(q) ==
    /\ rpc[q] = "idle"
    /\ Goto(q, "waiting")
    /\ pending' = pending \cup {q}
    /\ UNCHANGED <<future, inbox>>

\* Mutant: no timeout.
TimerNeverFires(q) == rpc[q] = "released" /\ UNCHANGED vars

\* The timer of wait_for goes off.
TimerFires(q) ==
    /\ rpc[q] = "waiting"
    /\ Goto(q, "released")
    /\ UNCHANGED <<pending, future, inbox>>

\* Mutant: the timer has the last word, as in wait_for of Python 3.12.
ResumeTimerWins(q) ==
    /\ \/ rpc[q] = "waiting" /\ Done(q) /\ Goto(q, "answered")
       \/ rpc[q] = "released" /\ Goto(q, "timed_out")
    /\ pending' = pending \ {q}
    /\ UNCHANGED <<future, inbox>>

\* wait_for goes on, because the future is done or the timer went off.  A
\* result that is there by now is returned, and the finally clause runs.
Resume(q) ==
    /\ rpc[q] = "released" \/ (rpc[q] = "waiting" /\ Done(q))
    /\ IF Done(q) THEN /\ Goto(q, "answered")
                       /\ pending' = pending \ {q}
                       /\ UNCHANGED future
                  ELSE /\ Goto(q, "cancelling")
                       /\ future' = [future EXCEPT ![q] = Cancelled]
                       /\ UNCHANGED pending
    /\ UNCHANGED inbox

\* WebRTCRelayTimeoutError: the finally clause runs, the caller gets a 504.
GiveUp(q) ==
    /\ rpc[q] = "cancelling"
    /\ Goto(q, "timed_out")
    /\ pending' = pending \ {q}
    /\ UNCHANGED <<future, inbox>>

\* An answer reaches MQTTService, which starts a task for it.
Dispatch(m) ==
    /\ inbox' = inbox \cup {m}
    /\ UNCHANGED <<rpc, pending, future>>

\* handle_answer: an answer nobody waits for is ignored, and so is a second one.
HandleAnswer(m) ==
    /\ m \in inbox
    /\ inbox' = inbox \ {m}
    /\ future' = IF m.id \in pending /\ ~Done(m.id)
                    THEN [future EXCEPT ![m.id] = m.sdp] ELSE future
    /\ UNCHANGED <<rpc, pending>>

\* The backend process dies with its futures; waiting clients are cut off.
Crash ==
    /\ pending # {} \/ inbox # {}
    /\ rpc' = [q \in Requests |-> IF rpc[q] \in Waiting THEN "dropped" ELSE rpc[q]]
    /\ pending' = {} /\ inbox' = {}
    /\ UNCHANGED future

Run(q) == TimerFires(q) \/ Resume(q) \/ GiveUp(q)
Next ==
    \/ \E q \in Requests : RelayOffer(q) \/ Run(q)
    \/ \E q \in Requests, s \in Answers : Dispatch([id |-> q, sdp |-> s])
    \/ \E m \in inbox : HandleAnswer(m)
    \/ Crash

Spec == Init /\ [][Next]_vars

TypeOK ==
    /\ rpc \in [Requests -> {"idle"} \cup Waiting \cup Ended]
    /\ pending \subseteq Requests
    /\ future \in [Requests -> Answers \cup {NoAnswer, Cancelled}]
    /\ inbox \subseteq [id : Requests, sdp : Answers]

\* An answer that was in time, in that handle_answer put it into the future,
\* reaches the caller however close the timer was: no request times out with
\* its answer at hand, and none is answered without one.
AcceptedAnswerIsDelivered ==
    \A q \in Requests :
        /\ rpc[q] = "timed_out" => future[q] = Cancelled
        /\ rpc[q] = "answered" => future[q] \in Answers

\* self._pending has an entry for every request that still waits and for no
\* other, so it cannot grow and a late answer finds nobody
\* (tests/test_webrtc_relay.py).
PendingIsWaiting == pending = {q \in Requests : rpc[q] \in Waiting}
=============================================================================
