---------------------------- MODULE Negotiation ----------------------------
(***************************************************************************)
(* What the robot promises the rest of the video path: every thread that   *)
(* was started for an offer ends, with the answer to that offer or with a  *)
(* failure - unless it worked at the same time as another thread, when the *)
(* answer may be to the other's offer.  VideoStreamer implements this;     *)
(* CameraPath builds on it.                                                *)
(***************************************************************************)
CONSTANTS
    Threads,    \* offer threads
    Offers,     \* SDP offers; an answer is named by the offer it answers
    None,       \* no offer
    Idle, Working, Failed

VARIABLES
    offer,      \* offer[t]: the offer t handles
    outcome,    \* outcome[t]: Idle, Working, Failed or the offer answered
    crossed     \* history: the threads that worked together with another

vars == <<offer, outcome, crossed>>

Init ==
    /\ offer = [t \in Threads |-> None]
    /\ outcome = [t \in Threads |-> Idle]
    /\ crossed = {}

\* A thread is started for offer o.
Start(t, o) ==
    /\ outcome[t] = Idle
    /\ offer' = [offer EXCEPT ![t] = o]
    /\ outcome' = [outcome EXCEPT ![t] = Working]
    /\ LET busy == {u \in Threads : outcome[u] = Working}
       IN  crossed' = IF busy = {} THEN crossed ELSE crossed \cup busy \cup {t}

\* What a thread may come back with: all of them share one webrtcbin slot.
Results(t) ==
    {offer[t], Failed} \cup IF t \in crossed THEN {offer[u] : u \in crossed} ELSE {}

\* handle_offer returns an answer, or raises.
Finish(t) ==
    /\ outcome[t] = Working
    /\ \E x \in Results(t) : outcome' = [outcome EXCEPT ![t] = x]
    /\ UNCHANGED <<offer, crossed>>

Next ==
    \E t \in Threads : Finish(t) \/ \E o \in Offers : Start(t, o)

Spec == Init /\ [][Next]_vars
=============================================================================
