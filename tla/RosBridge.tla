----------------------------- MODULE RosBridge -----------------------------
(***************************************************************************)
(* The robot's sensors on their way to the agent.                          *)
(*   - WebcamDriver, a ROS node of its own: a timer that reads a camera    *)
(*     which may be missing, come late, go and come again.                 *)
(*   - The simulator, which publishes odometry and scans.                  *)
(*   - RealROSAdapter: one executor thread runs the callbacks of all three *)
(*     topics; a camera frame keeps it as long as push_frame takes, which  *)
(*     ends by itself or by a timeout (VideoStreamer).                     *)
(*   - RobotCloudAgent keeps the latest sample of each sensor and reports  *)
(*     it from loops of its own; main takes everything down in an order.   *)
(* The content of a sample is abstracted to what changes in it; a frame is *)
(* real or synthetic, and stamped so that two in succession differ.        *)
(***************************************************************************)
EXTENDS Naturals, Sequences

CONSTANTS
    Sensors,      \* the simulator's topics the agent listens to
    Depth,        \* Depth[s]: the subscription's queue, for "camera" too
    Values,       \* what the simulator's sensors may say
    Reopen,       \* _REOPEN_INTERVAL_SECONDS, in ticks
    None

Topics == Sensors \cup {"camera"}
Frames == [real : BOOLEAN, stamp : 0..1]

ASSUME SensorsAssumption == Sensors \subseteq {"odom", "scan"}
ASSUME DepthAssumption ==
    Depth \in [Topics -> Nat \ {0}] /\ Depth["camera"] = 1
ASSUME ReopenAssumption == Reopen \in Nat
ASSUME NoneAssumption == None \notin Values /\ None \notin Frames

VARIABLES
    fallback,     \* CAMERA_TEST_PATTERN_FALLBACK
    plugged,      \* a camera is plugged in
    cap,          \* self._cap: "none", "open", "stale" (its next read fails)
    handles,      \* video devices the driver process holds open
    since,        \* ticks since _last_open_attempt, up to Reopen + 1
    stamp,        \* the stamp of the last frame published
    world,        \* world[s]: what sensor s measures
    queue,        \* queue[t]: messages the executor has not taken yet
    hand,         \* the frame the executor is pushing, or None
    spin,         \* the executor's thread: "alive" or "dead"
    latest,       \* latest[s]: the agent's latest sample, or None
    sent,         \* sent[s]: what was last reported of s
    phase         \* of main.run

driver == <<fallback, cap, handles, since, stamp>>
simulator == <<plugged, world>>
agent == <<latest, sent>>
vars == <<driver, simulator, queue, hand, spin, agent, phase>>

\* WebcamDriver opens its device once before the timer runs.
Init ==
    /\ fallback \in BOOLEAN /\ plugged \in BOOLEAN
    /\ cap = IF plugged THEN "open" ELSE "none"
    /\ handles = IF plugged THEN 1 ELSE 0
    /\ since = 0 /\ stamp = 0
    /\ world \in [Sensors -> Values]
    /\ queue = [t \in Topics |-> <<>>]
    /\ hand = None /\ spin = "alive"
    /\ latest = [s \in Sensors |-> None] /\ sent = [s \in Sensors |-> None]
    /\ phase = "bridge"

\* Mutant: the camera's queue is as deep as the odometry's.
PublishDeep(t, m) ==
    LET q == Append(queue[t], m)
    IN  queue' = [queue EXCEPT ![t] = IF Len(q) > 2 THEN Tail(q) ELSE q]

\* KEEP_LAST: a full queue loses its oldest message.
Publish(t, m) ==
    LET q == Append(queue[t], m)
    IN  queue' = [queue EXCEPT ![t] = IF Len(q) > Depth[t] THEN Tail(q) ELSE q]
-----------------------------------------------------------------------------
(* The camera and its driver *)

Plug ==
    /\ ~plugged /\ plugged' = TRUE
    /\ UNCHANGED <<driver, world, queue, hand, spin, agent, phase>>

Unplug ==
    /\ plugged /\ plugged' = FALSE
    /\ cap' = IF cap = "open" THEN "stale" ELSE cap
    /\ UNCHANGED <<fallback, handles, since, stamp, world, queue, hand, spin, agent, phase>>

\* A camera that is there stops delivering: it hangs, or resets itself.
Glitch ==
    /\ cap = "open" /\ cap' = "stale"
    /\ UNCHANGED <<fallback, handles, since, stamp, simulator, queue, hand, spin, agent, phase>>

Tick ==
    /\ since <= Reopen /\ since' = since + 1
    /\ UNCHANGED <<fallback, cap, handles, stamp, simulator, queue, hand, spin, agent, phase>>

\* _publish_bgr.
PublishFrame(real) ==
    /\ stamp' = 1 - stamp
    /\ Publish("camera", [real |-> real, stamp |-> stamp'])

NoFrame == UNCHANGED <<stamp, queue>>
NotDriver == UNCHANGED <<fallback, simulator, hand, spin, agent, phase>>

\* Without a device: try to open one now and then; without success, publish the
\* test pattern if that is wanted, and nothing if not.
NoCamera ==
    /\ cap = "none" /\ ~(since > Reopen /\ plugged)
    /\ since' = IF since > Reopen THEN 0 ELSE since
    /\ IF fallback THEN PublishFrame(FALSE) ELSE NoFrame
    /\ UNCHANGED <<cap, handles>> /\ NotDriver

\* Mutant: the test pattern is sent once more for a device just opened.
OpenThenPattern ==
    /\ cap = "none" /\ since > Reopen /\ plugged
    /\ since' = 0
    /\ cap' = "open" /\ handles' = handles + 1
    /\ IF fallback THEN PublishFrame(FALSE) ELSE NoFrame
    /\ NotDriver

\* _try_open_device succeeds, and the first frame is read at once.
Open ==
    /\ cap = "none" /\ since > Reopen /\ plugged
    /\ since' = 0
    /\ cap' = "open" /\ handles' = handles + 1
    /\ PublishFrame(TRUE)
    /\ NotDriver

Read ==
    /\ cap = "open"
    /\ PublishFrame(TRUE)
    /\ UNCHANGED <<cap, handles, since>> /\ NotDriver

\* Mutant: the handle is forgotten, not released.
ReadFailsUnreleased ==
    /\ cap = "stale"
    /\ cap' = "none"
    /\ NoFrame /\ UNCHANGED <<since, handles>> /\ NotDriver

\* Mutant: the device is released and never given up.
ReadFailsKeepsCap ==
    /\ cap = "stale"
    /\ handles' = 0
    /\ NoFrame /\ UNCHANGED <<since, cap>> /\ NotDriver

\* read() of a device that is gone, or does not deliver.
ReadFails ==
    /\ cap = "stale"
    /\ cap' = "none" /\ handles' = handles - 1
    /\ NoFrame /\ UNCHANGED since /\ NotDriver

OnTimer == NoCamera \/ Open \/ Read \/ ReadFails
-----------------------------------------------------------------------------
(* The simulator *)

Change(s) ==
    /\ \E v \in Values \ {world[s]} : world' = [world EXCEPT ![s] = v]
    /\ UNCHANGED <<driver, plugged, queue, hand, spin, agent, phase>>

Measure(s) ==
    /\ Publish(s, world[s])
    /\ UNCHANGED <<driver, simulator, hand, spin, agent, phase>>
-----------------------------------------------------------------------------
(* RealROSAdapter's executor *)

Subscribed == phase \in {"agent", "closing", "deaf"}
Spinning == spin = "alive" /\ hand = None /\ phase \notin {"draining", "done"}
Pop(t) == queue' = [queue EXCEPT ![t] = Tail(@)]

\* _handle_odometry, _handle_laser_scan: a sample that comes before the agent
\* has registered its callbacks is dropped.
TakeSample(s) ==
    /\ Spinning /\ queue[s] # <<>>
    /\ Pop(s)
    /\ latest' = IF Subscribed THEN [latest EXCEPT ![s] = Head(queue[s])] ELSE latest
    /\ UNCHANGED <<driver, simulator, hand, spin, sent, phase>>

\* _handle_camera_image, likewise; push_frame begins.
TakeFrame ==
    /\ Spinning /\ queue["camera"] # <<>>
    /\ Pop("camera")
    /\ hand' = IF Subscribed THEN Head(queue["camera"]) ELSE None
    /\ UNCHANGED <<driver, simulator, spin, agent, phase>>

\* push_frame returns: the pipeline has the frame, or drops it.
Pushed ==
    /\ hand # None /\ phase \in {"agent", "closing"}
    /\ hand' = None
    /\ UNCHANGED <<driver, simulator, queue, spin, agent, phase>>

\* Mutant: the exception leaves the callback, and the thread ends.
PushFailsUncaught ==
    /\ hand # None
    /\ hand' = None /\ spin' = "dead"
    /\ UNCHANGED <<driver, simulator, queue, agent, phase>>

\* Mutant: push_frame waits for the main loop without a timeout.
PushFailsNever == FALSE /\ UNCHANGED vars

\* push_frame raises, if only because its wait has run out; _on_camera_frame
\* catches it.
PushFails ==
    /\ hand # None
    /\ hand' = None
    /\ UNCHANGED <<driver, simulator, queue, spin, agent, phase>>
-----------------------------------------------------------------------------
(* RobotCloudAgent and main *)

\* publish_telemetry reports zeros before the first sample; publish_lidar_scan
\* nothing.
Report(s) ==
    /\ phase = "agent" /\ latest[s] # None
    /\ sent' = [sent EXCEPT ![s] = latest[s]]
    /\ UNCHANGED <<driver, simulator, queue, hand, spin, latest, phase>>

Advance(from, to) ==
    /\ phase = from /\ phase' = to
    /\ UNCHANGED <<driver, simulator, queue, hand, spin, agent>>

\* RobotCloudAgent's constructor subscribes to all topics.
Subscribe == Advance("bridge", "agent")
Stop == Advance("agent", "closing")
StopVideo == Advance("closing", "deaf")
StopExecutor == Advance("deaf", "draining")

\* Executor.shutdown() waits for the callback that is running.
Stopped == hand = None /\ Advance("draining", "done")

Shutdown == StopVideo \/ StopExecutor \/ Stopped
-----------------------------------------------------------------------------
Camera == Plug \/ Unplug \/ Glitch \/ Tick \/ OnTimer
Executor == TakeFrame \/ Pushed \/ PushFails \/ \E s \in Sensors : TakeSample(s)
Main == Subscribe \/ Stop \/ Shutdown
Next ==
    \/ Camera \/ Executor \/ Main
    \/ \E s \in Sensors : Change(s) \/ Measure(s) \/ Report(s)

Spec == Init /\ [][Next]_vars

\* Time passes, timers and loops run, the simulator goes on measuring, main
\* goes on once it has begun to stop.  The executor serves every topic that has
\* something, in turn, and push_frame has a timeout.
FairSpec ==
    /\ Spec
    /\ WF_vars(Tick) /\ WF_vars(OnTimer)
    /\ SF_vars(TakeFrame) /\ WF_vars(PushFails)
    /\ \A s \in Sensors : WF_vars(Measure(s)) /\ SF_vars(TakeSample(s)) /\ WF_vars(Report(s))
    /\ WF_vars(Shutdown)
-----------------------------------------------------------------------------
(* Properties *)

\* Types; and the driver holds open the device it uses and no other, so that
\* it can be opened again (V4L2 lets one user stream).
TypeOK ==
    /\ fallback \in BOOLEAN /\ plugged \in BOOLEAN
    /\ cap \in {"none", "open", "stale"} /\ since \in 0..(Reopen + 1) /\ stamp \in 0..1
    /\ handles = IF cap = "none" THEN 0 ELSE 1
    /\ cap = "open" => plugged
    /\ world \in [Sensors -> Values]
    /\ DOMAIN queue = Topics /\ \A t \in Topics : Len(queue[t]) <= Depth[t]
    /\ queue["camera"] \in Seq(Frames) /\ \A s \in Sensors : queue[s] \in Seq(Values)
    /\ hand \in Frames \cup {None} /\ spin \in {"alive", "dead"}
    /\ latest \in [Sensors -> Values \cup {None}] /\ sent \in [Sensors -> Values \cup {None}]
    /\ phase \in {"bridge", "agent", "closing", "deaf", "draining", "done"}

\* "fail LOUDLY ... rather than silently swap in fake video"
\* (webcam_driver.py:43-47): without the fallback no synthetic frame exists
\* anywhere; with it, none waits behind a camera that is open.
NoFakeVideo ==
    LET waiting == {queue["camera"][i] : i \in 1..Len(queue["camera"])} IN
    /\ ~fallback => \A f \in waiting \cup ({hand} \ {None}) : f.real
    /\ cap = "open" => \A f \in waiting : f.real

\* "always process the latest camera frame, never build up a backlog"
\* (real_ros_adapter.py:72-73), however long the executor was kept from it.
NewestFrame ==
    [][hand' # hand /\ hand' # None => hand'.stamp = stamp]_vars

\* A camera that is plugged in and delivers, and goes on doing so, is seen again,
\* however it was missing, unplugged, hung or exchanged before, and whatever
\* push_frame raises.
CameraComesBack ==
    <>[](plugged /\ phase = "agent") /\ <>[][~Glitch]_vars => []<>(hand # None /\ hand.real)

\* The agent's reports settle on what the sensors say, although a camera frame
\* may keep the one executor thread until its timeout.
TelemetrySettles ==
    \A s \in Sensors, v \in Values :
        <>[](world[s] = v /\ phase = "agent") => <>[](sent[s] = v)

\* main always comes to its end, although the executor may be waiting for a
\* main loop that was stopped first (main.py:80-85).
ShutdownEnds == phase = "closing" ~> phase = "done"
=============================================================================
