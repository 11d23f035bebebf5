# Verification of cloud_robotics

TLA+ specifications, TLC configurations and TLAPS proofs for the cloud robotics platform in `src/`:
a browser console that drives a ROS 2 robot through a FastAPI backend and an MQTT broker, with video
over WebRTC. Paths below are relative to `src/`; `backend/` is `cloud-container/backend/app/`,
`agent/` is `robot-container/robot_agent/`, `bridge/` is
`robot-container/ros_ws/src/robot_cloud_bridge/robot_cloud_bridge/`, `frontend/` is
`cloud-container/frontend/src/`.

## 1. Inventory

| part | state | operations | what makes it correct |
|---|---|---|---|
| Session manager `backend/sessions/manager.py` | Redis key `session:{robot}` with a TTL; Postgres rows `control_sessions` | acquire, renew, release, require_holder | one operator at a time; Redis and Postgres agree; a dead holder's lock is reclaimed |
| Fleet manager `backend/fleet/manager.py` | none of its own | acquire_session, release_session, send_command | only the holder drives; `stop` always passes |
| REST `backend/api/robots.py`, teleop WebSocket `backend/ws/teleop.py` | one handler per request or connection | session, control, stop; connect, receive, disconnect | the connection's `finally` gives the session back |
| WebRTC relay `backend/webrtc/relay.py`, `api/webrtc.py` | `_pending`: request id to future | relay_offer, handle_answer | a viewer gets the answer to its own offer or a timeout; nothing stays pending |
| Backend MQTT service `backend/mqtt/service.py` | connection, subscriptions, one task per message | connect, publish, dispatch | resubscribes after every reconnect; what was missed is made up for |
| Robot registry `backend/registry/store.py` | Postgres `robots`; Redis status, last_seen, telemetry | record_*, get/list | what the console shows follows the robot; every robot shown is registered |
| Status WebSocket `backend/ws/status.py` | its place in the loop, the snapshot in its hand | read, push, sleep | the console never sees an older status after a newer one |
| Robot agent `agent/agent.py` | latest samples, metrics | connect, disconnect, restart, receive_command, periodic loops, offer threads | status tells the truth, a restart loses nothing |
| Robot MQTT client `agent/mqtt_client.py` | connected flag, subscriptions | connect with backoff, disconnect, subscribe, paho callbacks | subscriptions survive reconnects |
| Watchdog `agent/watchdog.py` | `_disconnected_since` | run | restarts a link that stays down, leaves a healthy one alone |
| Dispatcher `agent/dispatcher.py` | the velocity last set | dispatch | the robot does what the last command said, and stands still when nobody drives |
| ROS adapter `bridge/real_ros_adapter.py` | executor thread, subscription queues | callbacks, start, stop | one slow callback does not silence the others; the newest frame is handled |
| Webcam driver `bridge/webcam_driver.py` | the open device, the last attempt to open one | timer callback | a camera comes back; no fake video unless asked for |
| Robot process `agent/main.py` | the order of start and end | run | it always comes to its end |
| Video streamer `agent/video_streamer.py` | pipeline, `_webrtcbin`, `_negotiating` | push_frame, handle_offer, GLib main loop | no frame enters the pipeline while it is negotiating; an answer belongs to its offer |
| Console teleop `frontend/hooks/*Teleop*`, `pages/Robot.tsx` | socket state, active command, interval, keyboard listeners | start, stop, take and give up control, unmount | letting go or leaving the page stops the robot |
| Console status feed `frontend/hooks/useStatusSocket.ts` | what is shown | connect, message, reconnect | what is shown follows the truth |
| Console video `frontend/hooks/useWebRTCVideo.ts` | peer connection, state | negotiate, unmount | a cancelled negotiation has no effect |
| Auth, settings, probes, drawing, launch files, deployment | configuration | | not modelled, see section 8 |

How they interact. The console calls REST and holds a teleop WebSocket; the fleet manager checks the
session in Redis and publishes to `robots/{id}/cmd`; paho's thread in the agent hands the command to
the dispatcher, which sets a velocity that stays until the next command. Upwards, cameras and the
simulator publish to ROS topics, one executor thread hands the messages to the agent, and the agent
publishes status (retained, with a last will), heartbeat, telemetry and health; the backend turns each
message into a task of its own that writes Postgres and Redis, and `/ws/status` polls them for the
console. For video the backend publishes the browser's offer with a request id, the agent starts one
thread per offer, the thread negotiates through the GLib main loop and publishes the answer under the
same id; camera frames enter the same pipeline from the executor.

What is hard here: every `await` on Redis or Postgres lets another handler run between a read and
the write it justifies; a lease can run out between any two of them; a `finally` clause of a dead
connection runs after its successor has started; the broker speaks for a robot that has gone; status
messages overtake each other in the stores; one thread per offer shares one pipeline and one flag; one
executor thread serves every sensor and can be kept by a frame; the cleanup order of React effects
decides whether a robot stops, and nothing else would stop it.

## 2. Plan

Most important behaviour first. A module whose name ends in `Proofs` holds the theorems of the module
it extends; one that begins with `MC` gives TLC its small instance.

| step | modules | state |
|---|---|---|
| 1 | `ControlLock` (abstract), `ControlPlane`, `ControlPlaneProofs` | done |
| 2 | `Negotiation` (abstract), `VideoStreamer`, `VideoStreamerProofs`, `WebRTCRelay`, `CameraPath`, `CameraPathProofs`; then `VideoPath`, `VideoPathProofs`, which put the streamer into the path | done |
| 3 | `RobotLink`, `RobotLinkProofs` | done |
| 4 | `StatusFeed`, `StatusFeedProofs`: the backend's end of the status, up to the screen | done |
| 5 | `TeleopPath`, `TeleopPathProofs`: console hooks, socket, backend handler, dispatcher, velocity | done |
| 6 | `RosBridge`, `RosBridgeProofs`: webcam driver, ROS executor, the agent's samples, shutdown | done |
| 7 | the console's video hook and the SDP rewriting | left out, section 8 says why |

`ControlLock` and `Negotiation` are the abstract specifications: `ControlPlane` and `VideoStreamer`
implement them (by TLC and by proof). `CameraPath` is composed of the relay and of any robot that
behaves like `Negotiation`; `VideoPath` has the streamer there instead, and implements `CameraPath`. The other modules state their promise as properties of their own state;
the seams between them are named in section 3.

## 3. Modules and how they correspond to the code

### ControlLock and ControlPlane

`ControlLock` is the promise of `sessions/manager.py:3-19` and `fleet/manager.py:58-73`: a robot has at
most one operator in control, control passes through nobody, a driving command never comes from
somebody else than the holder, `stop` always passes. `ControlPlane` is the code. One action is one
round trip to Redis or Postgres and the decisions made on its result, because a handler can only be
interleaved with another at an `await`.

| in the module | in the code |
|---|---|
| `lock`, `ttl` | the Redis key `session:{robot_id}` and its expiry; `Tick` is time passing in Redis |
| `audit`, `ended` | rows of `control_sessions`, and those with `ended_at` |
| `unlogged` | history: the session ids whose INSERT failed or died half-way |
| `age` | history: ticks since the holder of the key last took control or had a driving command published; a "stop" does not count, as it does not renew |
| `pc`, `req`, `local` | the coroutine of a handler, its arguments, the record it read |
| `AcquireGet`, `AcquireSet`, `AcquireAudit`, `AcquireInfo` | `SessionManager.acquire`, `_to_info` |
| `CommandStart`, `CommandCheck`, `CommandRenew`, `CommandExpire`, `CommandPublish` | `FleetManager.send_command`, `require_holder`, `renew`, `publish_command` |
| `ReleaseGet`, `ReleaseDelete`, `ReleaseAudit` | `SessionManager.release` |
| `Arrive` | the start of every request; the round trips of `_require_known` are the time spent at its first place, where they may fail |
| `Connect`, `Receive`, `Disconnect` | `ws/teleop.py`, its `finally` clause on every way out |
| `StoreError` (place `failed`) | an exception of a store: the request ends with it, a teleop connection goes on to its `finally` clause; a refusal (`Return`) is another end than this one |
| `Crash` | the process dies; Redis and Postgres keep what they have |

### VideoStreamer and Negotiation

`Negotiation` is what the rest of the video path may assume of the robot: a thread that was started
for an offer ends with the answer to that offer, or with a failure; threads that worked at the same
time (`crossed`) may also come back with the answer to each other's offers, because they share one
webrtcbin and one flag. `VideoStreamer` is the code: offer threads in `handle_offer`, the ROS thread in
`push_frame`, and the GLib main loop, which runs scheduled jobs in order. A job is put on the queue
and run in separate steps (`_run_on_main_loop` is `GLib.idle_add` and a wait), a wait can time out at
any moment, and a job whose caller gave up still runs. A webrtcbin is named by the thread whose offer
it was built for, so "answered from the wrong peer connection" is a comparison of names. What GStreamer
does with an offer is three facts: create-answer answers the description the element holds,
set-local-description works once, and linking can fail after the old element is gone. The error for an
unsupported encoding is left out: both cameras publish bgr8.

### WebRTCRelay and CameraPath

`WebRTCRelay` is `webrtc/relay.py`. `asyncio.wait_for` of Python 3.11 (the image's version) takes
several turns of the loop to end: the timer fires, the coroutine looks at the future, the future is
cancelled, the coroutine returns. Each is an action, since `handle_answer` is another task and fits in
between. `CameraPath` composes the relay with the robot's promise (`Robot == INSTANCE Negotiation`)
and the wires between them: an offer can be lost (the robot's session is clean), delivered twice or
late; an answer can be delivered twice or late. A second delivery starts a second thread, so crossing
is reached with a single viewer too.

### VideoPath

The same relay and wires with `VideoStreamer` at their end: `DeliverOffer` starts one of its threads,
`Reply` publishes what `handle_offer` returned, `OnRobot` is any step of threads, main loop and camera,
and everything else (`OffRobot`) is an action of `CameraPath` that the streamer does not see. A thread's
outcome, a variable of `CameraPath`, is read off the streamer's `pc` and `result`; nothing else connects
the two, as in the code. The module has no run of its own: its steps are those of `VideoStreamer` and of
`CameraPath`, which `video` and `camera_path` run, and what it adds, that the two fit together, is proved
(section 6). It has no constants or assumptions of its own either.

### RobotLink

| in the module | in the code |
|---|---|
| `agent`, `connected`, `topics`, `down` | `RobotCloudAgent` and `PahoMQTTClient` on the asyncio loop, the watchdog's `_disconnected_since` counted in checks |
| `events` | `call_soon_threadsafe(_connected.set / clear)` not run yet |
| `thread`, `sock`, `resub`, `outq` | paho's thread, socket, the loop in `_handle_connect`, unacknowledged QoS 1 statuses |
| `session`, `lastWill`, `subs`, `retained` | the broker (external): clean session, will on takeover or keepalive expiry, retained status |
| `BeginConnect`, `Dial`, `FinishConnect` | `agent.connect`: `set_will`, `client.connect` and `loop_start`, then `subscribe` twice and `online`, which run without an await |
| `Restart`, `Redial` / `Stop`, `Exit` | `restart()` / `shutdown()`: `loop_stop` joins paho's thread, then a clean DISCONNECT |
| `Reconnect`, `OnConnect`, `Resubscribe`, `OnDisconnect` | paho's own reconnection and the two callbacks |
| | in `FinishConnect` the two `subscribe`s are one; a replay that begins between them loses the second topic in the window that `missed` names. `Resubscribe` is one step (section 7 says what can meet it) |
| `auto`, `missed` | history: paho has reconnected by itself; `subscribe` ran in the window between a CONNACK that was handled and the flag that says so |

### StatusFeed

The other end of the same messages. Here the robot is a mouth: it says a status (or its will does), or
publishes a heartbeat or a sample; what it goes through to do so is RobotLink's subject, and so the
order of "online"s and wills is as free as RobotLink leaves it: a restart says "online" again without an
"offline" between, a will is published of an agent whose connection broke and that lives on, and an
"online" without a PUBACK is sent twice. A status is named by its number, so "older" is "less".

| in the module | in the code |
|---|---|
| `Online`, `Leave`, `Die`, `Publish` | `agent.connect`, `disconnect`, the will, the periodic publishers |
| `Boot`, `Dial`, `Serve`, `HandleConnect`, `Subscribe`, `Drop` | `MQTTService.connect`, paho's reconnection, `_handle_connect`; the broker sends what is retained on each subscription |
| `wire`, `Dispatch` | what is between the broker and the event loop; `_handle_message` and `_dispatch`, a task each |
| `task[h]`, `Insert`, `Set`, `Touch`, `Fail` | `RobotRegistry.record_*`: `_ensure_registered`, `SET`, `_touch_last_seen`; any of them can raise, and `_log_handler_error` is all that happens |
| `registered`, `db`, `Flush` | the row in Postgres, the keys in Redis, and a Redis that restarts empty |
| `Open`, `ReadRows`, `ReadStatus`, `Push`, `Close` | `status_stream` and `useStatusSocket`; the console keeps what it shows while it is not connected |
| `crossed`, `lost`, `peak` | history: two status tasks at the same time; whether, since a status was last written, one failed to be ("failed") or Redis came back empty ("flushed"); the newest status shown so far |

### TeleopPath

| in the module | in the code |
|---|---|
| `want`, `state`, `ws`, `active`, `keys` | `Robot.tsx` and the three hooks' state and refs |
| `grip`, `shown` | what the driver holds `active` with, a key or a button, or a button that has left the page under the finger; whether the page shows its controls |
| `TakeControl`, `ReleaseControl`, `Start`, `Tick`, `LetGo` | the buttons, `keydown`/`pointerdown`, the 50 ms interval, `keyup`/`blur`/`pointerup` |
| `PollFails`, `PollWorks`, `LetGoUnheard` | the early return of `Robot.tsx:100-109`: a failed poll takes the pad off the page and leaves its hooks, so that nothing hears a button being released |
| `Commit` | React flushes the effects that depend on what changed: all clean-ups in the order of the hooks, then all set-ups |
| `Unmount` | all clean-ups, the socket's first |
| `Accept` ... `Leave`, one per connection `c` | `teleop_stream`: acquire, greet, one command at a time, `finally`. An old connection can still be read while the next one drives. `Receive` may meet a store's error, which ends the connection; an `Answer` to a console that has closed may raise and does the same |
| `PressStop`, `SendStop` | `POST /robots/{id}/stop`; it reads both stores first and may fail there |
| `toRobot`, `got` | MQTT QoS 1: in order, delivered again after a reconnection, lost while the robot is offline |
| `ReceiveCommand` | `receive_command`, `dispatch`, `publish_cmd_vel` |
| `slips` | history of what kept a command from its place: no socket ("unsent"), a broken connection ("cut"), no button to let go of ("unheard"), a handler that ended before it ("unread"), a store's error under it ("failed") or under an emergency stop ("refused"), a robot that is offline ("lost") |

The answer to a command the backend does not know is left out: no console sends one. Whether the session check passes is one variable here, `holds`; who gets the session is ControlPlane's
subject.

### RosBridge

| in the module | in the code |
|---|---|
| `cap`, `handles`, `since`, `stamp` | `WebcamDriver._cap`, the devices the process holds open, the time since the last attempt, the stamp of the last frame |
| `NoCamera`, `Open`, `Read`, `ReadFails` | the branches of `_on_timer` |
| `Plug`, `Unplug`, `Glitch` | the device itself (external): there, gone, or there with a read that fails |
| `Measure` | the simulator publishes odometry or a scan (external) |
| `queue` | the subscriptions' KEEP_LAST queues; the camera's is one deep |
| `TakeSample`, `TakeFrame`, `Pushed`, `PushFails` | the executor's one thread; `push_frame` keeps it until it returns or its wait runs out |
| `Report` | `publish_telemetry`, `publish_lidar_scan` |
| `Subscribe`, `Stop`, `StopVideo`, `StopExecutor`, `Stopped` | `main.run`: callbacks registered when the agent is made (`agent.py:83-87`), then the shutdown in its order |

A frame is real or synthetic and carries a stamp that alternates, which tells the last two apart; the
queue never holds more than one.

## 4. Runs, what they show, and their bounds

| run | expects | what it shows |
|---|---|---|
| `control_serial` | pass | requests for one robot not overlapping: nothing is written to another operator's session, a closed session is never the live one, the abstract lock is implemented |
| `control_overlap` | pass | what survives overlap: Redis and Postgres agree and a session without a row is one whose INSERT failed; who keeps driving keeps the lock; stop is never refused, though it may fail; an abandoned lock is reclaimed |
| `control_replaced` | violation | GET then plain SET: two overlapping acquires, both "in control" |
| `control_reconnect` | violation | the old connection's `finally` releases the session its successor was just given |
| `video` | pass | offers one at a time or together: nobody blocks on a job nobody will run, every negotiation ends, `Negotiation` is implemented, no frame enters the pipeline of a thread that negotiates alone, its answer is from its own webrtcbin and stands until the next offer |
| `camera_path` | pass | a viewer gets the answer to its own offer or an error, unless the robot handled that offer together with another; every request ends |
| `link` | pass | subscriptions survive, the connected flag is late and never wrong, what connect() announced is seen, ended sessions read offline, dead robots are seen as dead, the link recovers |
| `link_stale` | violation | after paho's own reconnection a connected robot reads offline |
| `status_feed` | pass | every robot shown is registered, last_seen never claims more than the robot said, the console never shows a status older than one it has shown, a quiet backend has caught up, and the last status gets there in the end; except after a write that failed, statuses handled together, or an emptied Redis |
| `teleop` | pass | letting go stops the robot, and so does the emergency stop; a console out of control drives nobody; whatever makes them fail is one of the named slips |
| `teleop_unmount` | violation | the page is left with a key held and the robot drives on |
| `ros_bridge` | pass | no fake video, the newest frame, the camera comes back, the telemetry settles, the shutdown ends |

Bounds, and why they are enough.

- Control: one robot (robots share no state but the id counter), two operators, three handlers (two
  when overlapping), a TTL of two ticks, so that a lease can run out between any two steps or be
  renewed in time; at most three session ids, enough for a session to end, be replaced and be replaced
  again. `Serialized` says that the requests for one robot do not overlap, `Prompt` that a handler ends
  within a tick (round trips take milliseconds, a tick is half a TTL), `Faults` switches store errors
  and crashes.
- Video: two offer threads, enough for one to be overtaken or left behind; two offers that can be
  answered and one that cannot; any number of frames, of which one at a time has its job in the main
  loop's queue: it may build the pipeline, come up when a negotiation starts, or come between its jobs.
- Camera path: two requests and two offer threads: two viewers at once, or one whose offer is
  delivered twice.
- Link: one crash, two drops and two restarts, so that a reconnection can itself be cut off and a
  restart can meet paho's reconnection; the watchdog restarts after two checks instead of three.
- Status feed: two tasks at once, three messages, and any two faults of these: a broken connection, a
  dead backend, a store that fails or was emptied. A status can be lost to each of them or to one after
  the other, and a newer one can overtake it.
- Teleop: two connections, the old one still being read; the console makes no new
  driving command while one is unread or under way, but a stop always fits; one fault of any kind (a
  poll, a connection, a session, a store, an answer, the robot's link). One driving command
  in `teleop`: the hooks treat all four alike, and `teleop_unmount` has two.
- ROS bridge: one sensor with a queue of two beside the camera with a queue of one; two values; a
  reopening time of one tick.

The theorems of section 6 hold for every value of these bounds. Where a configuration turns the
deadlock check off the system may stop: a program that has ended, a robot nobody talks to, a budget of
faults and messages that is used up. In `ControlPlane` there is always a next step, and it is checked.

## 5. Fairness

- `ControlPlane`: every handler whose reply has come is resumed (asyncio runs every ready callback),
  and time passes in Redis. Nothing is assumed of clients.
- `VideoStreamer`: offer threads run, and each of their waits has a timeout; nothing is assumed of the
  main loop, of promises or of ICE, which is why `NegotiationEnds` says something.
- `CameraPath`: the loop runs its timers and tasks; nothing is assumed of the robot or the broker.
- `RobotLink`: the loop, paho's thread and the broker take their steps and the broker can be reached
  again; drops and crashes are bounded, as no liveness could hold otherwise.
- `StatusFeed`: the backend is started again, its loop and paho's thread run, the stores answer (or the
  task fails), the console reconnects as `useStatusSocket` does. Nothing is assumed of the robot.
- `TeleopPath`: React runs its effects, the backend's handlers, the emergency stop and the robot's
  dispatcher run. Nothing is assumed of the driver, so `ReleaseStops` is conditional on nobody pressing
  again. Nor is a poll assumed ever to work again.
- `RosBridge`: a camera comes back if it stays plugged in and its reads stop failing. Time passes, timers fire, the simulator measures, `push_frame` has its timeout, main's
  shutdown goes on once begun. The executor's topics have strong fairness: rclpy serves every ready
  callback of a round in turn, so a topic that keeps having messages is served although the camera
  takes the thread again and again.

## 6. What is proved

TLAPS checks the theorems for every value of the constants that meets the ASSUMEs of the modules. These
say that model values which stand for "none" are none of the values, that bounds are natural numbers,
and that the camera's queue is one deep; the runs evaluate them.

`ControlPlaneProofs`. `TypeOK` is not inductive: a step reads fields of the request and of the session
in hand, so `HandOK` says they are there wherever they are read. `OwnSessionOnly` and
`ImplementsLock` rest on `SerialInv`: under `Serialized` one handler at most is at work on a robot, and
what it read is still true or the key has expired since; each store action then maps to `Grant`, `Free`,
`Drive` or a stutter; `HolderIsNotReplaced` follows, which is what the run `control_replaced` refutes
when requests overlap. `AuditAgrees` rests on `AuditInv`: ids are minted once, all that carry an id, in
Redis, in a row or in a handler's hand, agree on the owner, and an id about to be inserted has no row; it
needs no seriality. A minted id without a row has its INSERT under way or failed (`AllAccounted`). `EndedSessionsStayEnded` adds that the handler that closes a row has deleted its key.
`DrivingKeepsTheLock` relates a key's age to its remaining life, under `Prompt`: driving commands and
taking control keep a session, and nothing is said of "stop", which does not. `StopIsNeverRefused`
(published, or failed with an exception) holds whatever overlaps, and so does `EverySessionExpires`: a key exists exactly as long as its TTL is
positive (`Expiring`), wherever a store error or a crash leaves a handler. `OnlyItsHolderRenews` says,
under `Serialized`, whose requests make a TTL longer: those of the operator who holds the key, and
neither a refused one nor a late EXPIRE.

`VideoStreamerProofs`. A thread has one job scheduled at most, the one it waits for or one it gave up
(`JobsMatch`); a thread that was never crossed is the only one at work and the flag is up for it
(`Alone`); whatever an earlier thread left in the queue runs before the new thread's "prepare", so it
cannot touch the new webrtcbin (`Behind`); hence what a thread holds, and what its webrtcbin holds, is
its own or a crossed thread's (`Answers`), and exactly its own if it worked alone (`Exact`). After the
answer, as long as the webrtcbin of a thread that was answered is the linked one, nobody is past its own
"prepare", and every job that is still scheduled runs behind one, which links another (`Untouched`); so
the descriptions it was answered from stay (`Stands`). From this follow `AnswersAreForTheirOffers`,
`NoFrameDuringNegotiation` and `StreamerImplementsNegotiation`: each step is a `Start`, a `Finish` with
an allowed result, or a stutter. `FlagIsAlwaysOwned`, the safety half of `NegotiationEnds`, holds since
every way out of `handle_offer` leads through its `finally`.

`CameraPathProofs`. A thread's outcome is its own offer unless it was crossed (`OutcomeIsOwn`), so every
message under way carries the answer to the request it names, or that request was crossed
(`MessagesMatch`), so a future holds nothing, such an answer or its cancellation, the last only once its
handler is giving up (`FuturesMatch`). From this follow `EachViewerItsAnswer`, `AcceptedIsDelivered` and
`NothingStaysPending`. The robot enters by the actions of `Negotiation`.

`VideoPathProofs` puts the streamer in its place. `PathRunsTheStreamer`: a step of the path is a step of
the streamer or leaves it alone, so its invariants hold in the path. With them
`StreamerCompletesThePath` maps every step of the path to one of `CameraPath`: a start to a delivered
offer, the end of a thread to a `Finish` whose result the streamer's invariant allows, the other steps of
the robot to a stutter. `WholePathIsSafe` draws the conclusion: it instantiates `CameraPathProofs` with the
streamer's threads as the robot, and carries its three theorems over to the path with the real streamer. `WhatIsAnsweredWasNegotiated` joins both halves: every
answer on its way or in a future was made by a thread that has ended with it (`Genuine`), and that
thread's webrtcbin still holds it (`Stands`).

`RobotLinkProofs`. A client that may connect has its will set (`WillIsSet`); what the broker has
subscribed is in the table, and is the table once the replay is over (`SubscriptionsKept`); the
announced status is retained or is the last one queued (`OnlineUnderWay`); after `loop_stop` nothing
moves on the client's side (`GoodbyeStands`). From this follow `CommandsAreHeard`,
`ConnectedIsSeenOnline` and `NoSessionLeavesOnline`. For `FlagIsTrue` the invariant looks at the last
callback that waits, or at the flag if none does (`FlagFollows`): it says "up" on a link that is up and
nothing but "down" on one that is not or not yet, with both allowed while a broken connection has not
been noticed. Two theorems are what the liveness of the link rests on. `TheLinkIsTended`: an agent that
waits for its link, or believes in it, has paho's thread at work, its will set and its table complete.
`TheDeadHaveAWill`: a session that outlives its robot is one whose keepalive runs out, and whose will
says "offline".

`StatusFeedProofs`. Every time that is written anywhere is one at which the robot spoke (`Dated`), and a
status past its handler's first step has a registered robot (`RowFirst`): `SightingsAreTrue`,
`RowsComeFirst`. The truth is the last status on the wire, or has arrived: in the one task that handles
it, or in Redis, or its write failed, or Redis was emptied since (`Truth`), through any drop, restart and
resubscription: `RetainedCatchesUp`. After an emptied Redis it says that what is read is the truth or
nothing, never something else. While no two statuses are handled at the same time they come down the line in the
order in which they were said, screen, reader, Redis, task, wire (`InOrder`), and the newest one shown
is no newer than any of them (`peak`): `ScreenNeverGoesBack`, through a Redis that was emptied too.

`TeleopPathProofs`. An interval runs only under the keyboard's listeners, these only in a page that has
a socket, and whoever holds nothing has no interval unless a button went unheard (`Gripped`):
`OnlyInControl`. For `NobodyDrivesNothingMoves` the invariant is a promise (`Promise`): in every
connection but the one that drives, each driving command has a "stop" behind it, and if nobody drives,
the robot has had its "stop" or one is still in some queue, or in some handler's hand. Every way in
which a command is dropped instead is in `slips`. A handler that drops a driving command for want of a session keeps the promise, since "stop"
needs none; this is what makes the two connections and a lapsed session harmless. `StopIsOnItsWay` says
of that last "stop" that it will be heard: the connection it is in still has a handler that reads it and
has not closed before it (`Heard`).

`RosBridgeProofs`. The one frame that waits is the last one published, and it is real if the camera is
open or the fallback is off: `NewestFrameAlways`, `NoFakeVideoEver`; both rest on the camera's queue
being one deep.

Only model-checked: all liveness (`LockReclaimed`, `NegotiationEnds`, `RequestsEnd`, `DeadIsOffline`,
`LinkRecovers`, `StatusIsShown`, `ReleaseStops`, `EmergencyStops`, `CameraComesBack`,
`TelemetrySettles`, `ShutdownEnds`), which is beyond the prover. Of five of them the safety half is
proved, that in every state somebody is left who can do what has to happen: `EverySessionExpires` for
`LockReclaimed`, `FlagIsAlwaysOwned` for `NegotiationEnds`, `TheDeadHaveAWill` for `DeadIsOffline`,
`TheLinkIsTended` for `LinkRecovers`, `StopIsOnItsWay` for `ReleaseStops`; that they do it in the end
is TLC's part. The other way round, `FlagHasOwner`, `PendingIsWaiting`, these safety halves,
`OnlyItsHolderRenews` and the results of `VideoPath` are proved and in no configuration, and
`HolderIsNotReplaced` states of serialized requests what `control_replaced` refutes of overlapping ones.

## 7. Findings

Four runs show the code doing other than what its comments, tests or documentation say; PROJECT.json
quotes the line each time.

1. `acquire()` is documented as an atomic `SET NX`; it is a GET and later a SET (`control_replaced`).
2. The old teleop connection closes the new one's session (`control_reconnect`).
3. After a dropped connection the robot stays "offline" although it is connected (`link_stale`).
4. Leaving the Robot page with a key held does not stop the robot: the socket is closed before the
   clean-up that sends "stop" (`teleop_unmount`). The order is the same when control is released.

Narrower disagreements are named as exceptions in the properties instead of being left out of the
models:

- `docs/07-cloud-backend.md:37` speaks of a record of who controlled what. A session that expires, or is
  replaced, has no end in it, and one whose INSERT raises is live without any row: the key is set first,
  and `acquire()` of the same operator reuses it without writing the row again (`manager.py:62-78`;
  `unlogged` in `AuditConsistent`).
- "Every command RENEWS it" (`ws/teleop.py:9`, likewise `docs/07-cloud-backend.md:56` and
  `sessions/manager.py:16-17`): "stop" does not (`fleet/manager.py:66-71`), so an operator who sends
  nothing else loses the session after a TTL (`ActiveDriverKeepsLock` counts driving commands only).
- Overlapping offers share one "negotiating" flag, which the first thread to end clears for the other
  (`video_streamer.py:101-104`, `:553`), and one webrtcbin, so that they can answer each other's offers
  (`crossed` in `FramesHeldBack`, `AnswerIsForOffer`, `Negotiation`, `ViewerGetsItsAnswer`).
- A frame whose build timed out leaves its job queued, and the next frame schedules a second build
  (`video_streamer.py:148`): in the model, without a property, since what two pipelines do is native.
- Statuses handled at the same time may be written in either order, and the wrong one then stays until
  the next status or reconnection (`crossed` in `CaughtUp`, `NeverGoesBack`, `StatusIsShown`). In the
  same way last_seen may go back; that it is never too late is what `SightingsAreTrue` proves.
- A Redis that comes back empty is not refilled by "essentially every message"
  (`registry/store.py:8-10`): a connected robot says its status once, and is shown as "unknown" until it
  says another or the backend subscribes again (`lost = "flushed"` in `CaughtUp` and `StatusIsShown`).
- `subscribe()` between a handled CONNACK and its flag leaves the robot deaf (`missed`), and a robot
  that dies after `restart()` has said goodbye and before it has dialled again stays "online" (the
  exception in `EndedSessionIsOffline`).
- A broken teleop connection, and a robot that is offline when "stop" is sent, leave the last velocity
  standing (`slips` in `StoppedWhenQuiet`): there is no dead man's switch.
- "Stop the instant you release" (`README.md:173`, `TeleopPad.tsx:41-43`): a poll that fails takes the
  pad off the page (`Robot.tsx:100-109`), the release of its button is heard by nobody, and the interval
  drives on ("unheard"). A store that fails under a command ends the teleop connection with what was
  said on it, a "stop" included (`ws/teleop.py:65`, "failed"); so does an answer to a console that has
  closed (`ws/teleop.py:59`, "unread").
- The emergency stop does not "always work" (`README.md:174`): the robot is looked up in Postgres and
  Redis before anything is published, and an error there is a 500 (`fleet/manager.py:65`, "refused" in
  `EmergencyStops`).
- `_handle_connect` iterates over `_subscriptions` on paho's thread (`mqtt_client.py:99`) while
  `connect()` adds to it on the loop's: a dict that grows under iteration raises, in that thread. Not in
  the model, where the replay is one step.

## 8. What is not modelled

- The console's video hook: one negotiation per mounted component, with a cancelled flag and a peer
  connection of its own that its clean-up closes. What the instances share is guarded by that flag, and
  what they get from the backend is `CameraPath`'s subject.
- SDP rewriting (`agent/sdp_utils.py`): text in, text out, right or wrong by what browsers accept.
  `VideoStreamer` keeps the one decision control depends on, whether there is an H264 payload type.
- Authentication: a signed token names an operator or the request never reaches the modelled code.
- The GET endpoints, probes, metrics and logging: they only read.
- The mock ROS adapter's kinematics (arithmetic on floats) and what samples say.
- Configuration, launch files, deployment, broker access rules, page layout and drawing: no state.
- Native media (ICE, DTLS, encoding, RTP): only what `handle_offer` relies on is stated.
- Broker restarts and refused credentials: the code treats the first as a dropped connection and has
  no reaction to the second beyond a log line. Brokers keep retained messages on disk.
- SIGTERM while the watchdog is dialling again: `run()` awaits `restart()`, whose loop does not look at
  the stop event, so the process ends when the broker answers or when it is killed. Shutdown is modelled
  from a running agent.
- Numbers of seconds: timeouts are events that can happen at any moment, or counts of ticks.
