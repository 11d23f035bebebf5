----------------------------- MODULE StatusFeed -----------------------------
(***************************************************************************)
(* What the fleet knows about one robot, from the robot's mouth to the     *)
(* operator's screen: the agent publishes statuses (retained, with a last  *)
(* will) and samples, the broker passes them on while the backend is       *)
(* subscribed, MQTTService starts a task for every message, the task       *)
(* writes Postgres and Redis (RobotRegistry), /ws/status polls the         *)
(* registry and the console shows what it is sent.                         *)
(*                                                                         *)
(* A status is named by its number: the one said last is the truth.        *)
(* Tasks await the stores, so they overtake each other; each round trip is *)
(* a step, and any of them can fail.  What a sample says is left out.      *)
(***************************************************************************)
EXTENDS Naturals, Sequences

CONSTANTS
    Handlers,     \* tasks of record_*; bounds how many run at once
    Idle,         \* no task
    MaxClock,     \* bound: what is published
    MaxFaults     \* bound: connections that break, ends of the backend process,
                  \* store errors and restarts of an empty Redis

\* A task: its message and its next step.
Task == [kind : {"status", "heartbeat", "sample"}, n : Nat, ts : Nat,
         at : {"insert", "set", "touch"}]

ASSUME IdleAssumption == Idle \notin Task
ASSUME BoundsAssumption == MaxClock \in Nat /\ MaxFaults \in Nat

VARIABLES
    up,           \* the agent has said "online" and not "offline" since
    born,         \* the timestamp in its last will
    said,         \* number of the last status
    clock,        \* the robot's time, in messages
    spoke,        \* history: when the robot itself last published
    retained,     \* the broker's retained status
    wire,         \* messages under way to the backend's event loop
    backend,      \* its process: "off", "starting", "serving"
    sock,         \* its MQTT connection: "none", "syn", "up", "subscribed"
    task,         \* task[h]: the message h handles and its next step
    registered,   \* the robot has a row in Postgres
    db,           \* the robot's status and last_seen in Redis; 0: not set
    reader,       \* the loop of /ws/status and the snapshot it makes
    shown,        \* the status the console shows; 0: none, or unknown
    peak,         \* history: the newest status it has shown
    crossed,      \* history: status tasks ran at the same time: "no", "now", "past"
    lost,         \* history: since a status was last written, one failed to be
                  \* ("failed"), Redis came back empty ("flushed"), or neither ("no")
    spent         \* how many of these have happened

robotVars == <<up, born, said, clock, spoke>>
brokerVars == <<retained, wire>>
storeVars == <<registered, db>>
viewVars == <<reader, shown, peak>>
historyVars == <<crossed, lost>>
vars == <<robotVars, brokerVars, backend, sock, task, storeVars, viewVars,
          historyVars, spent>>

Spend == spent < MaxFaults /\ spent' = spent + 1

Unseen == [n |-> 0, ts |-> 0]
NoReader == [at |-> "off", n |-> 0]
Listening == sock = "subscribed"

Init ==
    /\ up = FALSE /\ born = 0 /\ said = 0 /\ clock = 0 /\ spoke = 0
    /\ retained = Unseen /\ wire = <<>>
    /\ backend = "off" /\ sock = "none"
    /\ task = [h \in Handlers |-> Idle]
    /\ registered = FALSE /\ db = [status |-> 0, seen |-> 0]
    /\ reader = NoReader /\ shown = 0 /\ peak = 0
    /\ crossed = "no" /\ lost = "no"
    /\ spent = 0
-----------------------------------------------------------------------------
(* The robot *)

\* A message leaves for whoever is subscribed.
Send(kind, n, ts) ==
    wire' = IF Listening THEN Append(wire, [kind |-> kind, n |-> n, ts |-> ts]) ELSE wire

\* Mutant: statuses are published without retain.
SayStatusOnce(ts) ==
    /\ clock < MaxClock /\ clock' = clock + 1
    /\ said' = said + 1
    /\ Send("status", said + 1, ts)
    /\ UNCHANGED retained

\* A status is published QoS 1 and retained.
SayStatus(ts) ==
    /\ clock < MaxClock /\ clock' = clock + 1
    /\ said' = said + 1
    /\ retained' = [n |-> said + 1, ts |-> ts]
    /\ Send("status", said + 1, ts)

NotRobot == UNCHANGED <<backend, sock, task, storeVars, viewVars, historyVars, spent>>

\* RobotCloudAgent.connect, of a new process or by restart: the will, with the
\* time of now, then "online".
Online ==
    /\ up' = TRUE
    /\ born' = clock + 1 /\ spoke' = clock + 1
    /\ SayStatus(clock + 1)
    /\ NotRobot

\* disconnect: "offline", said by the robot itself.
Leave ==
    /\ up /\ up' = FALSE
    /\ spoke' = clock + 1
    /\ SayStatus(clock + 1)
    /\ UNCHANGED born /\ NotRobot

\* The broker publishes the will.  The agent has died, and says nothing more
\* until it is started again; or its connection broke, paho reconnects and it
\* goes on as if nothing had happened.  An "online" that paho sends twice, for
\* want of a PUBACK, looks the same: a new status with the time of the connect.
Die ==
    /\ up
    /\ SayStatus(born)
    /\ UNCHANGED <<up, born, spoke>> /\ NotRobot

\* heartbeat, or one of publish_telemetry, publish_health, publish_lidar_scan.
Publish(kind) ==
    /\ up
    /\ clock < MaxClock /\ clock' = clock + 1
    /\ spoke' = clock + 1
    /\ Send(kind, 0, clock + 1)
    /\ UNCHANGED <<up, born, said, retained>> /\ NotRobot
-----------------------------------------------------------------------------
(* The backend's process and its MQTT connection *)

NotLink == UNCHANGED <<robotVars, retained, task, storeVars, viewVars, historyVars>>

Boot ==
    /\ backend = "off"
    /\ backend' = "starting"
    /\ UNCHANGED <<sock, wire, spent>> /\ NotLink

\* connect, or paho on its own after a drop: CONNECT is sent.
Dial ==
    /\ backend # "off" /\ sock = "none"
    /\ sock' = "syn"
    /\ UNCHANGED <<backend, wire, spent>> /\ NotLink

\* connect has its CONNACK, or has waited long enough for it.
Serve ==
    /\ backend = "starting" /\ sock # "none"
    /\ backend' = "serving"
    /\ UNCHANGED <<sock, wire, spent>> /\ NotLink

\* Mutant: the subscriptions are made once, by connect.
HandleConnectOnce ==
    /\ sock = "syn" /\ backend = "starting"
    /\ sock' = "up"
    /\ UNCHANGED <<backend, wire, spent>> /\ NotLink

\* _handle_connect: a SUBSCRIBE for every topic, on every connection.
HandleConnect ==
    /\ sock = "syn"
    /\ sock' = "up"
    /\ UNCHANGED <<backend, wire, spent>> /\ NotLink

\* The broker subscribes the backend and sends it the retained status.
Subscribe ==
    /\ sock = "up"
    /\ sock' = "subscribed"
    /\ wire' = IF retained = Unseen THEN <<>>
               ELSE <<[kind |-> "status", n |-> retained.n, ts |-> retained.ts]>>
    /\ UNCHANGED <<backend, spent>> /\ NotLink

\* The connection breaks; what was under way is gone with the clean session.
Drop ==
    /\ sock # "none" /\ Spend
    /\ sock' = "none" /\ wire' = <<>>
    /\ UNCHANGED backend /\ NotLink

\* Mutant: the tasks of the old process are taken up by the next.
StopLeavesTasks ==
    /\ backend # "off" /\ Spend
    /\ backend' = "off" /\ sock' = "none" /\ wire' = <<>>
    /\ reader' = NoReader
    /\ UNCHANGED <<robotVars, retained, task, storeVars, shown, peak, historyVars>>

\* The process ends, in order or not, with its tasks and sockets.
Stop ==
    /\ backend # "off" /\ Spend
    /\ backend' = "off" /\ sock' = "none" /\ wire' = <<>>
    /\ task' = [h \in Handlers |-> Idle]
    /\ reader' = NoReader
    /\ UNCHANGED <<robotVars, retained, storeVars, shown, peak, historyVars>>
-----------------------------------------------------------------------------
(* The tasks: RobotRegistry.record_* *)

IsStatus(h) == task[h] # Idle /\ task[h].kind = "status"
At(h, step) == task[h] # Idle /\ task[h].at = step
Goto(h, step) == task' = [task EXCEPT ![h].at = step]
End(h) == task' = [task EXCEPT ![h] = Idle]

\* Mutant: registration is left to somebody else.
FirstStepUnregistered(kind) == IF kind = "heartbeat" THEN "touch" ELSE "set"

\* The first round trip of a handler.
FirstStep(kind) == CASE kind = "status" -> "insert" [] kind = "sample" -> "set"
                     [] kind = "heartbeat" -> "touch"

NotTask == UNCHANGED <<robotVars, retained, backend, sock, viewVars>>

\* _handle_message and _dispatch: a task for the message, first come first
\* started.  It does not matter which of the free names it gets.
Dispatch(h) ==
    /\ wire # <<>> /\ task[h] = Idle
    /\ h = CHOOSE g \in Handlers : task[g] = Idle
    /\ LET m == Head(wire) IN
          /\ task' = [task EXCEPT ![h] = [kind |-> m.kind, n |-> m.n, ts |-> m.ts,
                                          at |-> FirstStep(m.kind)]]
          /\ crossed' = IF m.kind # "status" THEN crossed
                        ELSE IF \E g \in Handlers : IsStatus(g) THEN "now"
                        ELSE IF crossed = "no" THEN "no" ELSE "past"
    /\ wire' = Tail(wire)
    /\ UNCHANGED <<lost, storeVars, spent>> /\ NotTask

\* _ensure_registered.
Insert(h) ==
    /\ At(h, "insert")
    /\ registered' = TRUE
    /\ Goto(h, "set")
    /\ UNCHANGED <<wire, db, historyVars, spent>> /\ NotTask

\* SET of the status, or of a sample.
Set(h) ==
    /\ At(h, "set")
    /\ IF IsStatus(h) THEN db' = [db EXCEPT !.status = task[h].n] /\ lost' = "no"
                      ELSE UNCHANGED <<db, lost>>
    /\ Goto(h, "touch")
    /\ UNCHANGED <<wire, registered, crossed, spent>> /\ NotTask

\* Mutant: the time at which the message is handled.
TouchNow(h) ==
    /\ At(h, "touch")
    /\ db' = [db EXCEPT !.seen = clock]
    /\ End(h)
    /\ UNCHANGED <<wire, registered, historyVars, spent>> /\ NotTask

\* _touch_last_seen, with the time in the message.
Touch(h) ==
    /\ At(h, "touch")
    /\ db' = [db EXCEPT !.seen = task[h].ts]
    /\ End(h)
    /\ UNCHANGED <<wire, registered, historyVars, spent>> /\ NotTask

\* The status h has not written yet will not be; an empty Redis stays empty.
Losing(h) ==
    lost' = IF IsStatus(h) /\ task[h].at # "touch" /\ lost # "flushed" THEN "failed" ELSE lost

\* Mutant: a message that failed is handled again.
FailRequeues(h) ==
    /\ task[h] # Idle /\ Spend
    /\ wire' = IF Listening THEN Append(wire, [kind |-> task[h].kind, n |-> task[h].n,
                                               ts |-> task[h].ts]) ELSE wire
    /\ Losing(h) /\ End(h)
    /\ UNCHANGED <<storeVars, crossed>> /\ NotTask

\* A store error ends the task, and _log_handler_error says so.
Fail(h) ==
    /\ task[h] # Idle /\ Spend
    /\ Losing(h) /\ End(h)
    /\ UNCHANGED <<wire, storeVars, crossed>> /\ NotTask

\* Redis comes back empty: without a status, until one is written again.  Samples
\* and heartbeats do not write it.
Flush ==
    /\ Spend
    /\ db' = [status |-> 0, seen |-> 0]
    /\ lost' = "flushed"
    /\ UNCHANGED <<wire, registered, crossed, task>> /\ NotTask
-----------------------------------------------------------------------------
(* /ws/status and the console *)

NotView == UNCHANGED <<robotVars, brokerVars, backend, sock, task, storeVars, historyVars>>

\* useStatusSocket connects, again after every close; status_stream starts.
Open ==
    /\ backend = "serving" /\ reader.at = "off"
    /\ reader' = [NoReader EXCEPT !.at = "rows"]
    /\ UNCHANGED <<shown, peak, spent>> /\ NotView

\* list_robots reads the rows, and _summarize what Redis has of each robot.
ReadRows ==
    /\ reader.at = "rows"
    /\ reader' = [at |-> IF registered THEN "status" ELSE "push", n |-> 0]
    /\ UNCHANGED <<shown, peak, spent>> /\ NotView

ReadStatus ==
    /\ reader.at = "status"
    /\ reader' = [at |-> "push", n |-> db.status]
    /\ UNCHANGED <<shown, peak, spent>> /\ NotView

\* send_json, and setRobots in the console; the loop sleeps and starts again.
Push ==
    /\ reader.at = "push"
    /\ shown' = reader.n /\ peak' = IF reader.n > peak THEN reader.n ELSE peak
    /\ reader' = [NoReader EXCEPT !.at = "rows"]
    /\ UNCHANGED spent /\ NotView

\* The console keeps what it shows.
Close ==
    /\ reader.at # "off" /\ Spend
    /\ reader' = NoReader
    /\ UNCHANGED <<shown, peak>> /\ NotView
-----------------------------------------------------------------------------
Robot == Online \/ Leave \/ Die \/ \E kind \in {"heartbeat", "sample"} : Publish(kind)
Link == Boot \/ Dial \/ Serve \/ HandleConnect \/ Subscribe
Step(h) == Insert(h) \/ Set(h) \/ Touch(h)
View == Open \/ ReadRows \/ ReadStatus \/ Push
Faults == Drop \/ Stop \/ Flush \/ Close \/ \E h \in Handlers : Fail(h)

Next ==
    \/ Robot \/ Link \/ View \/ Faults
    \/ \E h \in Handlers : Dispatch(h) \/ Step(h)

Spec == Init /\ [][Next]_vars

\* The backend is started again, its threads and its loop run, the stores
\* answer, the console reconnects.  Nothing is assumed of the robot.
FairSpec ==
    /\ Spec
    /\ WF_vars(Link) /\ WF_vars(View)
    /\ WF_vars(\E h \in Handlers : Dispatch(h))
    /\ \A h \in Handlers : WF_vars(Step(h))
-----------------------------------------------------------------------------
(* Properties *)

Message == [kind : {"status", "heartbeat", "sample"}, n : Nat, ts : Nat]

\* Types; and a process that is off has no tasks, no socket and no reader.
TypeOK ==
    /\ up \in BOOLEAN /\ born \in Nat /\ said \in Nat /\ clock \in Nat /\ spoke \in Nat
    /\ retained \in [n : Nat, ts : Nat] /\ wire \in Seq(Message)
    /\ backend \in {"off", "starting", "serving"}
    /\ sock \in {"none", "syn", "up", "subscribed"}
    /\ task \in [Handlers -> Task \cup {Idle}]
    /\ registered \in BOOLEAN /\ db \in [status : Nat, seen : Nat]
    /\ reader \in [at : {"off", "rows", "status", "push"}, n : Nat]
    /\ shown \in Nat /\ peak \in Nat
    /\ crossed \in {"no", "now", "past"} /\ lost \in {"no", "failed", "flushed"}
    /\ spent \in Nat
    /\ wire # <<>> => Listening
    /\ backend = "off" =>
          sock = "none" /\ reader.at = "off" /\ \A h \in Handlers : task[h] = Idle

\* A robot whose status is known is in the fleet: Postgres knows every robot
\* Redis knows the status of, whatever crashed, failed or was flushed in
\* between (registry/store.py:4-7).
KnownBeforeSeen == db.status # 0 \/ shown # 0 => registered

\* last_seen is never later than the robot's last word: neither a will, nor a
\* retained status that is delivered again, nor a slow handler counts as a
\* sign of life (registry/store.py:65-66).
NoFalseSighting == db.seen <= spoke

\* Status s is the one said last, with three exceptions.  If Redis came back empty
\* since a status was last written, s may be unknown (0), though never wrong: a
\* connected backend is not sent the retained status again, so this lasts until the
\* robot's next status or the backend's next subscription, samples and heartbeats
\* notwithstanding (registry/store.py:8-10, 47-63).  If the write of a status
\* failed, or the last two were handled at the same time, s may be an older one,
\* until the next status.
Current(s) ==
    \/ s = said
    \/ s = 0 /\ lost = "flushed"
    \/ lost = "failed"
    \/ crossed = "now"

\* When nothing is under way, Redis has the status that was said last: the
\* retained message makes up for whatever was lost while the backend was away
\* (docs/03-mqtt-layer.md:59), with the exceptions that Current names.
CaughtUp ==
    Listening /\ wire = <<>> /\ (\A h \in Handlers : ~IsStatus(h)) =>
        Current(db.status)

\* The screen never goes back to a status older than any it has shown, through
\* reconnections of the backend or the console and though Redis came back empty
\* in between, unless two statuses were handled at the same time.
NeverGoesBack ==
    [][shown' # shown => shown' = 0 \/ peak <= shown' \/ crossed # "no"]_vars

\* Again and again the console shows the last status: every status is shown in
\* the end unless a newer one has taken its place, with the same exceptions.  After
\* Redis came back empty the console comes to say "unknown", not an old status.
StatusIsShown == []<>Current(shown)
=============================================================================
