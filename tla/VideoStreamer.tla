--------------------------- MODULE VideoStreamer ---------------------------
(***************************************************************************)
(* VideoStreamer of the robot agent: one encode pipeline, at most one      *)
(* webrtcbin linked to it, and three kinds of threads around it.           *)
(*   - The GLib main loop runs scheduled jobs, first come first served; it *)
(*     is the only thread that touches the pipeline and the webrtcbin.     *)
(*   - The ROS callback thread pushes camera frames (push_frame).          *)
(*   - Every WebRTC offer has a thread of its own (RobotCloudAgent.        *)
(*     _on_camera_offer), which runs handle_offer: a chain of jobs, each   *)
(*     scheduled and waited for, up to a timeout, by _run_on_main_loop.    *)
(* A job whose caller gave up stays scheduled and still runs.              *)
(*                                                                         *)
(* Which peer connection a step works on is decided when its job runs: the *)
(* jobs read self._webrtcbin.  A webrtcbin is named by the thread whose    *)
(* offer it was built for.                                                 *)
(***************************************************************************)
EXTENDS Naturals, Sequences, FiniteSets

CONSTANTS
    Threads,      \* offer threads; each handles one offer and ends
    Offers,       \* SDP offers
    NoH264,       \* the offers without an H264 payload type
    MaxFrames,    \* bound: jobs of camera frames that are scheduled at once
    None,         \* no webrtcbin, no description
    Ros           \* the ROS callback thread

ASSUME OffersAssumption == NoH264 \subseteq Offers /\ None \notin Offers \cup Threads
ASSUME RosAssumption == Ros \notin Threads
ASSUME FramesAssumption == MaxFrames \in Nat

VARIABLES
    pipeline,     \* self._pipeline is not None
    negotiating,  \* self._negotiating
    webrtcbin,    \* self._webrtcbin: the thread it was built for, or None
    remote,       \* remote[b]: the offer set on webrtcbin b, or None
    localDesc,    \* localDesc[b]: the offer that b's local answer answers
    jobs,         \* what GLib.idle_add has scheduled
    looping,      \* the main loop runs
    pc,           \* pc[t]: the job thread t is at
    waiting,      \* threads blocked in _run_on_main_loop
    offer,        \* offer[t]: the offer t handles
    crossed,      \* history: the threads that worked together with another
    answer,       \* answer[t]: the offer that create-answer answered for t
    result,       \* result[t]: what handle_offer returned or raised
    ros,          \* what the ROS callback thread is doing
    fed           \* history: flips with every frame given to appsrc

media == <<pipeline, webrtcbin, remote, localDesc>>
camera == <<ros, fed>>
asked == <<offer, crossed>>
talk == <<pc, asked, answer, result>>
vars == <<media, negotiating, jobs, looping, waiting, talk, camera>>
-----------------------------------------------------------------------------
\* The jobs of handle_offer, and their order.
JobNames == {"prepare", "remote", "create", "setlocal", "gather", "final"}
NextStep(s) == CASE s = "prepare"  -> "remote"   [] s = "remote"   -> "create"
                 [] s = "create"   -> "setlocal" [] s = "setlocal" -> "gather"
                 [] s = "gather"   -> "final"    [] s = "final"    -> "cleanup"

Pending == "pending"
Failed == "failed"
ASSUME OutcomeAssumption == Offers \cap {"idle", Pending, Failed} = {}

\* t's own jobs have begun to work on a webrtcbin.
Linked(t) == pc[t] \in JobNames \ {"prepare"}

Init ==
    /\ pipeline = FALSE /\ negotiating = FALSE /\ looping = TRUE
    /\ webrtcbin = None
    /\ remote = [t \in Threads |-> None]
    /\ localDesc = [t \in Threads |-> None]
    /\ jobs = <<>> /\ waiting = {}
    /\ pc = [t \in Threads |-> "idle"]
    /\ offer = [t \in Threads |-> None] /\ crossed = {}
    /\ answer = [t \in Threads |-> None]
    /\ result = [t \in Threads |-> Pending]
    /\ ros = "idle" /\ fed = 0

Goto(t, place) == pc' = [pc EXCEPT ![t] = place]
Schedule(name, thread) ==
    /\ jobs' = Append(jobs, [do |-> name, by |-> thread])
    /\ waiting' = waiting \cup {thread}
-----------------------------------------------------------------------------
(* The offer threads: handle_offer *)

\* _on_camera_offer starts a thread for offer o.
StartOffer(t, o) ==
    /\ pc[t] = "idle"
    /\ Goto(t, "begin")
    /\ offer' = [offer EXCEPT ![t] = o]
    /\ LET busy == {u \in Threads : pc[u] \notin {"idle", "done"}}
       IN  crossed' = IF busy = {} THEN crossed ELSE crossed \cup busy \cup {t}
    /\ UNCHANGED <<media, negotiating, jobs, looping, waiting, answer, result, camera>>

\* Without a pipeline the offer is refused before anything is touched; an
\* offer without H264 is refused inside the try block.
Begin(t) ==
    /\ pc[t] = "begin"
    /\ negotiating' = (negotiating \/ pipeline)
    /\ IF pipeline /\ offer[t] \notin NoH264
          THEN Goto(t, "prepare") /\ UNCHANGED result
          ELSE /\ Goto(t, IF pipeline THEN "cleanup" ELSE "done")
               /\ result' = [result EXCEPT ![t] = Failed]
    /\ UNCHANGED <<media, jobs, looping, waiting, asked, answer, camera>>

\* _run_on_main_loop: schedule the job and block.
Post(t) ==
    /\ pc[t] \in JobNames /\ t \notin waiting
    /\ Schedule(pc[t], t)
    /\ UNCHANGED <<media, negotiating, looping, talk, camera>>

\* A wait runs out: for the main loop, or for a promise of webrtcbin.
GiveUp(t) ==
    /\ pc[t] \in JobNames
    /\ Goto(t, "cleanup")
    /\ result' = [result EXCEPT ![t] = Failed]
    /\ waiting' = waiting \ {t}
    /\ UNCHANGED <<media, negotiating, jobs, looping, asked, answer, camera>>

\* Mutant: the flag is cleared only when the offer was answered.
CleanupOnSuccess(t) ==
    /\ pc[t] = "cleanup"
    /\ negotiating' = (negotiating /\ result[t] = Failed)
    /\ Goto(t, "done")
    /\ UNCHANGED <<media, jobs, looping, waiting, asked, answer, result, camera>>

\* The finally clause.
Cleanup(t) ==
    /\ pc[t] = "cleanup"
    /\ negotiating' = FALSE
    /\ Goto(t, "done")
    /\ UNCHANGED <<media, jobs, looping, waiting, asked, answer, result, camera>>
-----------------------------------------------------------------------------
(* The main loop.  A job takes effect whether or not its caller still      *)
(* waits; only a waiting caller learns how it went.                        *)

Job(name) == looping /\ jobs # <<>> /\ Head(jobs).do = name
Caller == Head(jobs).by
Await == Caller \in waiting /\ pc[Caller] = Head(jobs).do

JobDone ==
    /\ jobs' = Tail(jobs)
    /\ UNCHANGED <<negotiating, looping, asked, camera>>

\* The caller goes on to its next job, or an exception reaches it.
Succeed ==
    /\ IF Await THEN Goto(Caller, NextStep(Head(jobs).do)) /\ waiting' = waiting \ {Caller}
                ELSE UNCHANGED <<pc, waiting>>
    /\ JobDone

\* Mutant: done.set() is not in a finally clause.
RaiseUnsignalled == UNCHANGED <<pc, waiting, result, answer>> /\ JobDone

Raise ==
    /\ IF Await THEN /\ Goto(Caller, "cleanup")
                     /\ result' = [result EXCEPT ![Caller] = Failed]
                     /\ waiting' = waiting \ {Caller}
                ELSE UNCHANGED <<pc, waiting, result>>
    /\ UNCHANGED answer
    /\ JobDone

\* Mutant: one webrtcbin for ever, as before milestone 9.
PrepareReused ==
    /\ Job("prepare")
    /\ webrtcbin' = IF webrtcbin = None THEN Caller ELSE webrtcbin
    /\ Succeed
    /\ UNCHANGED <<pipeline, remote, localDesc, answer, result>>

\* _prepare_fresh_webrtcbin: the old webrtcbin is gone for good; a failure to
\* link the new one leaves none.
Prepare ==
    /\ Job("prepare")
    /\ \/ /\ webrtcbin' = Caller
          /\ remote' = [remote EXCEPT ![Caller] = None]
          /\ localDesc' = [localDesc EXCEPT ![Caller] = None]
          /\ Succeed
          /\ UNCHANGED <<pipeline, answer, result>>
       \/ /\ webrtcbin' = None
          /\ Raise
          /\ UNCHANGED <<pipeline, remote, localDesc>>

\* Every later job fails with an AttributeError if there is no webrtcbin.
NoWebrtcbin ==
    /\ \E name \in JobNames \ {"prepare"} : Job(name)
    /\ webrtcbin = None
    /\ Raise
    /\ UNCHANGED media

SetRemote ==
    /\ Job("remote") /\ webrtcbin # None
    /\ remote' = [remote EXCEPT ![webrtcbin] = offer[Caller]]
    /\ Succeed
    /\ UNCHANGED <<pipeline, webrtcbin, localDesc, answer, result>>

\* create-answer answers the offer the webrtcbin holds.  If it holds none the
\* promise is replied to with an error, which _extract_answer trips over.
CreateAnswer ==
    /\ Job("create") /\ webrtcbin # None
    /\ IF remote[webrtcbin] = None
          THEN Raise
          ELSE /\ answer' = IF Await THEN [answer EXCEPT ![Caller] = remote[webrtcbin]]
                                     ELSE answer
               /\ Succeed
               /\ UNCHANGED result
    /\ UNCHANGED media

\* set-local-description needs an offer without an answer yet; handle_offer
\* looks only at whether the promise was replied to.
SetLocal ==
    /\ Job("setlocal") /\ webrtcbin # None
    /\ localDesc' = IF remote[webrtcbin] # None /\ localDesc[webrtcbin] = None
                       THEN [localDesc EXCEPT ![webrtcbin] = answer[Caller]]
                       ELSE localDesc
    /\ Succeed
    /\ UNCHANGED <<pipeline, webrtcbin, remote, answer, result>>

\* ICE gathering completes or times out: the offer is answered either way.
Gather ==
    /\ Job("gather") /\ webrtcbin # None
    /\ Succeed
    /\ UNCHANGED <<media, answer, result>>

\* The text returned: the webrtcbin's local description or, if it has none,
\* the answer as first created.
Final ==
    /\ Job("final") /\ webrtcbin # None
    /\ result' = IF ~Await THEN result ELSE
                 [result EXCEPT ![Caller] = IF localDesc[webrtcbin] = None
                                               THEN answer[Caller]
                                               ELSE localDesc[webrtcbin]]
    /\ Succeed
    /\ UNCHANGED <<media, answer>>

\* stop(): the loop quits; jobs that are scheduled stay so.
Stop ==
    /\ looping
    /\ looping' = FALSE
    /\ UNCHANGED <<media, negotiating, jobs, waiting, talk, camera>>
-----------------------------------------------------------------------------
(* The ROS callback thread: push_frame *)

\* The first frame has the pipeline built, on the main loop.
FrameArrives ==
    /\ ros = "idle" /\ Cardinality({i \in 1..Len(jobs) : jobs[i].by = Ros}) < MaxFrames
    /\ IF pipeline THEN ros' = "check" /\ UNCHANGED <<jobs, waiting>>
                   ELSE ros' = "building" /\ Schedule("build", Ros)
    /\ UNCHANGED <<media, negotiating, looping, talk, fed>>

\* An encoding without a GStreamer format raises here; the robot's cameras publish
\* none (webcam_driver.py:117), and it is left out.
Build ==
    /\ Job("build")
    /\ pipeline' = TRUE
    /\ ros' = IF ros = "building" THEN "check" ELSE ros
    /\ waiting' = waiting \ {Ros}
    /\ jobs' = Tail(jobs)
    /\ UNCHANGED <<webrtcbin, remote, localDesc, negotiating, looping, talk, fed>>

\* A frame is dropped while an offer is negotiated.
FrameCheck ==
    /\ ros = "check"
    /\ ros' = IF negotiating THEN "idle" ELSE "post"
    /\ UNCHANGED <<media, negotiating, jobs, looping, waiting, talk, fed>>

FramePost ==
    /\ ros = "post"
    /\ ros' = "pushing"
    /\ Schedule("push", Ros)
    /\ UNCHANGED <<media, negotiating, looping, talk, fed>>

\* Mutant: the flag is not read again on the main loop.
PushUnchecked ==
    /\ Job("push")
    /\ fed' = 1 - fed
    /\ ros' = IF ros = "pushing" THEN "idle" ELSE ros
    /\ waiting' = waiting \ {Ros}
    /\ jobs' = Tail(jobs)
    /\ UNCHANGED <<media, negotiating, looping, talk>>

\* _push_buffer reads the flag again.
Push ==
    /\ Job("push")
    /\ fed' = IF negotiating THEN fed ELSE 1 - fed
    /\ ros' = IF ros = "pushing" THEN "idle" ELSE ros
    /\ waiting' = waiting \ {Ros}
    /\ jobs' = Tail(jobs)
    /\ UNCHANGED <<media, negotiating, looping, talk>>

FrameGivesUp ==
    /\ ros \in {"building", "pushing"}
    /\ ros' = "idle"
    /\ waiting' = waiting \ {Ros}
    /\ UNCHANGED <<media, negotiating, jobs, looping, talk, fed>>
-----------------------------------------------------------------------------
Thread(t) == Begin(t) \/ Post(t) \/ GiveUp(t) \/ Cleanup(t)
MainLoop ==
    \/ Prepare \/ SetRemote \/ CreateAnswer \/ SetLocal \/ Gather \/ Final
    \/ NoWebrtcbin \/ Build \/ Push
Camera == FrameArrives \/ FrameCheck \/ FramePost \/ FrameGivesUp

Work == (\E t \in Threads : Thread(t)) \/ MainLoop \/ Camera \/ Stop
Next == Work \/ \E t \in Threads, o \in Offers : StartOffer(t, o)

Spec == Init /\ [][Next]_vars

\* Threads run, and every wait has a timeout.
FairSpec == Spec /\ \A t \in Threads : WF_vars(Thread(t))
-----------------------------------------------------------------------------
(* Properties *)

\* The job a blocked thread waits for.
AwaitedBy(t) == IF t # Ros THEN pc[t] ELSE IF ros = "building" THEN "build" ELSE "push"

\* Types; and no thread is blocked on a job that is not scheduled.
TypeOK ==
    /\ pipeline \in BOOLEAN /\ negotiating \in BOOLEAN /\ looping \in BOOLEAN
    /\ webrtcbin \in Threads \cup {None}
    /\ remote \in [Threads -> Offers \cup {None}]
    /\ localDesc \in [Threads -> Offers \cup {None}]
    /\ jobs \in Seq([do : JobNames \cup {"build", "push"}, by : Threads \cup {Ros}])
    /\ waiting \subseteq Threads \cup {Ros}
    /\ pc \in [Threads -> {"idle", "begin", "cleanup", "done"} \cup JobNames]
    /\ offer \in [Threads -> Offers \cup {None}] /\ crossed \subseteq Threads
    /\ answer \in [Threads -> Offers \cup {None}]
    /\ result \in [Threads -> Offers \cup {Pending, Failed}]
    /\ ros \in {"idle", "building", "check", "post", "pushing"}
    /\ fed \in 0..1
    /\ \A t \in waiting : \E i \in 1..Len(jobs) : jobs[i].by = t /\ jobs[i].do = AwaitedBy(t)

\* What the rest of the video path sees of a thread.
Promise == INSTANCE Negotiation WITH
    Idle <- "idle", Working <- Pending,
    outcome <- [t \in Threads |-> CASE pc[t] = "idle" -> "idle"
                                     [] pc[t] = "done" -> result[t]
                                     [] OTHER -> Pending]

\* Every thread ends with the answer to its own offer or a failure, or with an
\* answer to an offer that was handled at the same time (Negotiation).
ImplementsNegotiation == Promise!Spec

\* handle_offer returns the answer to the offer it was given, and that answer
\* describes the webrtcbin that is linked into the pipeline when it is given
\* out: not an earlier one, not another offer's, whatever gave up before.  And
\* it stands: nothing that is left in the main loop's queue, and no later
\* thread, changes the peer connection that was negotiated with it (the jobs
\* work on whatever self._webrtcbin is when they run).  Two offers at once share
\* the one slot, and nothing holds.
AnswerIsForOffer ==
    \A t \in Threads \ crossed :
        pc[t] \in {"cleanup", "done"} /\ result[t] # Failed =>
            /\ result[t] = offer[t]
            /\ remote[t] = offer[t] /\ localDesc[t] = offer[t]
            /\ pc[t] = "cleanup" => webrtcbin = t

\* No frame enters the pipeline between the moment an offer's thread has a
\* webrtcbin linked and the moment it has its answer: media flow during
\* negotiation crashes the native stack (video_streamer.py:101-108).  Two offers
\* at once share the one flag, and the first to end clears it.
FramesHeldBack ==
    [][fed' # fed => \A t \in Threads \ crossed : ~Linked(t)]_vars

\* The flag that holds the frames back is up only while a thread is at work that
\* will lower it, whichever failed, gave up or lowered it for another: no flag
\* is left behind that would freeze the video (video_streamer.py:552-558).
FlagHasOwner == negotiating => \E t \in Threads : pc[t] \in JobNames \cup {"cleanup"}

\* Every negotiation ends and lets the frames through again, even if the main
\* loop has stopped or a promise is never replied to.
NegotiationEnds == negotiating ~> ~negotiating
=============================================================================
