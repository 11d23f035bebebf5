----------------------------- MODULE TeleopPath -----------------------------
(***************************************************************************)
(* From the driver's finger to the robot's wheels.                         *)
(*   - The console's Robot page: four React hooks (socket, throttle,       *)
(*     keyboard, and the effect that gives control up).  An event changes  *)
(*     state at once; the effects that depend on it run later, in one      *)
(*     flush, all clean-ups before all set-ups, in the order of the hooks. *)
(*     A poll that fails takes the buttons off the page, not its hooks.    *)
(*   - One handler per teleop connection in the backend, which takes one   *)
(*     command at a time and awaits the session check before it publishes; *)
(*     a command it does not know, which no console sends, is left out.    *)
(*   - MQTT, QoS 1: in order, delivered again after a reconnection, lost   *)
(*     while the robot is offline.                                         *)
(*   - The agent's dispatcher and the velocity it leaves behind: there is  *)
(*     no dead man's switch, a robot drives until it is told otherwise.    *)
(* Who may hold the session is ControlPlane's subject; here the driver's   *)
(* session is there or it is not.                                          *)
(***************************************************************************)
EXTENDS Integers, Sequences, SequencesExt

CONSTANTS
    Drives,       \* the driving commands a run uses
    None,         \* no command
    MaxConns,     \* bound: teleop connections of the console
    MaxUp,        \* bound: unread commands beyond which no new one is made
    MaxFlight,    \* bound: commands under way to the robot, likewise
    MaxFaults     \* bound: cuts, lapses, losses, reconnections, failed calls and answers

ASSUME DrivesAssumption == Drives \subseteq {"forward", "backward", "left", "right"}
ASSUME NoneAssumption == None \notin Drives
ASSUME BoundsAssumption ==
    MaxConns \in Nat /\ MaxUp \in Nat /\ MaxFlight \in Nat /\ MaxFaults \in Nat

VARIABLES
    mounted,      \* the Robot page is open
    want,         \* controlEnabled
    held,         \* controlEnabled when the socket's effect last ran
    state,        \* useTeleopSocket's state
    ws,           \* its WebSocket: "none" (or closed), "opening", "open"
    active,       \* useThrottledTeleop's command and interval, or None
    grip,         \* the key or button the driver holds it with: "held", "none",
                  \*   or "gone", a button that left the page under the finger
    shown,        \* the page shows its controls: the last poll worked
    keys,         \* the keyboard's listeners are installed
    conn,         \* number of the console's latest connection
    up,           \* up[c]: what connection c has not read yet
    handler,      \* handler[c]: where the handler is, or the command in its hand
    holds,        \* the driver's session is live
    estop,        \* an emergency stop (POST /robots/{id}/stop) is handled
    toRobot,      \* commands published and not acknowledged yet
    got,          \* how many of them the robot has been given
    vel,          \* the velocity the robot was last told
    slips,        \* history: what kept a command from its place:
                  \*   "unsent" (no socket any more), "cut" (the connection broke),
                  \*   "unheard" (no button to let go of), "unread" (the handler
                  \*   ended before it), "failed" and "refused" (a store failed under
                  \*   a command, or under an emergency stop), "lost" (robot offline)
    faults        \* faults that have happened

page == <<mounted, want, held, state, ws, active, grip, shown, keys, conn>>
backend == <<handler, holds>>
road == <<toRobot, got, vel>>
vars == <<page, up, backend, estop, road, slips, faults>>

Commands == Drives \cup {"stop"}
Slips == {"unsent", "cut", "unheard", "unread", "failed", "refused", "lost"}
Conns == 1..MaxConns
Still == [linear |-> 0, angular |-> 0]

Init ==
    /\ mounted = TRUE /\ want = FALSE /\ held = FALSE /\ keys = FALSE
    /\ state = "idle" /\ ws = "none" /\ active = None /\ conn = 0
    /\ grip = "none" /\ shown = TRUE
    /\ up = [c \in Conns |-> <<>>]
    /\ handler = [c \in Conns |-> "none"] /\ holds = FALSE
    /\ estop = "idle"
    /\ toRobot = <<>> /\ got = 0 /\ vel = Still
    /\ slips = {} /\ faults = 0

Fault == faults < MaxFaults /\ faults' = faults + 1
-----------------------------------------------------------------------------
(* The console *)

\* sendCommand: nothing is sent, and nobody is told, unless the socket is open.
SendCommand(command) ==
    up' = IF ws = "open" THEN [up EXCEPT ![conn] = Append(@, command)] ELSE up

NotPage == UNCHANGED <<backend, estop, road, faults>>

\* What the keyboard's effect and the commit of it depend on.
Enabled == want /\ state = "connected"
Pending == held # want \/ keys # Enabled \/ (want /\ state = "closed")

TakeControl ==
    /\ mounted /\ shown /\ ~want /\ ~Pending /\ conn < MaxConns
    /\ want' = TRUE
    /\ UNCHANGED <<mounted, held, state, ws, active, grip, shown, keys, conn, up, slips>> /\ NotPage

ReleaseControl ==
    /\ mounted /\ shown /\ want
    /\ want' = FALSE
    /\ UNCHANGED <<mounted, held, state, ws, active, grip, shown, keys, conn, up, slips>> /\ NotPage

\* keydown, its repeats while the key is held included, or pointerdown on an
\* arrow: useThrottledTeleop.start.
Start(command) ==
    /\ keys /\ active # command
    /\ ws = "open" => Len(up[conn]) < MaxUp /\ Len(toRobot) < MaxFlight
    /\ active' = command
    /\ grip' = "held"
    /\ SendCommand(command)
    /\ UNCHANGED <<mounted, want, held, state, ws, shown, keys, conn, slips>> /\ NotPage

\* The interval, every 50 ms.
Tick ==
    /\ active # None /\ ws = "open" /\ Len(up[conn]) < MaxUp
    /\ SendCommand(active)
    /\ UNCHANGED <<page, slips>> /\ NotPage

\* Mutant: the interval is cleared, and the last command is left to stand.
LetGoSilently ==
    /\ keys /\ active # None
    /\ active' = None /\ grip' = "none"
    /\ UNCHANGED <<mounted, want, held, state, ws, shown, keys, conn, up, slips>> /\ NotPage

\* keyup or blur of the window, pointerup or pointerleave of an arrow, whatever
\* started the interval: useThrottledTeleop.stop.
LetGo ==
    /\ keys /\ active # None
    /\ active' = None /\ grip' = "none"
    /\ SendCommand("stop")
    /\ UNCHANGED <<mounted, want, held, state, ws, shown, keys, conn, slips>> /\ NotPage

\* The driver lets go of a button that is not there any more: no event says so.
LetGoUnheard ==
    /\ grip = "gone" /\ grip' = "none"
    /\ slips' = slips \cup {"unheard"}
    /\ UNCHANGED <<mounted, want, held, state, ws, active, shown, keys, conn, up>> /\ NotPage

\* The page polls: after an error it shows the error and nothing else, and its
\* hooks, with the interval, live on.  A key that is held stays, a button goes.
PollFails ==
    /\ mounted /\ shown /\ Fault
    /\ shown' = FALSE
    /\ grip' \in IF grip = "held" THEN {"held", "gone"} ELSE {grip}
    /\ UNCHANGED <<mounted, want, held, state, ws, active, keys, conn, up, backend, estop, road, slips>>

PollWorks ==
    /\ mounted /\ ~shown /\ shown' = TRUE
    /\ UNCHANGED <<mounted, want, held, state, ws, active, grip, keys, conn, up, slips>> /\ NotPage

\* Mutant: the keyboard's clean-up removes its listeners and no more.
CommitKeepsDriving ==
    /\ mounted /\ Pending
    /\ up' = IF held /\ ~want /\ ws = "open"
                THEN [up EXCEPT ![conn] = Append(@, "bye")] ELSE up
    /\ ws' = IF held # want THEN IF want THEN "opening" ELSE "none" ELSE ws
    /\ conn' = IF want /\ ~held THEN conn + 1 ELSE conn
    /\ state' = IF held # want THEN IF want THEN "connecting" ELSE "idle" ELSE state
    /\ want' = (want /\ state # "closed")
    /\ held' = want /\ keys' = Enabled
    /\ UNCHANGED <<mounted, active, grip, shown, slips>> /\ NotPage

\* The effects are flushed.  Clean-ups: the socket's closes it, the keyboard's
\* lets go; by then there is no socket to say so, if control was given up.
\* Set-ups: the socket's opens one; the page's gives up control that is lost.
Commit ==
    /\ mounted /\ Pending
    /\ LET closing == held /\ ~want
           lettingGo == keys /\ ~Enabled /\ active # None
           heard == lettingGo /\ ws = "open" /\ ~closing
       IN /\ up' = CASE closing /\ ws = "open" -> [up EXCEPT ![conn] = Append(@, "bye")]
                     [] heard -> [up EXCEPT ![conn] = Append(@, "stop")]
                     [] OTHER -> up
          /\ active' = IF lettingGo THEN None ELSE active
          /\ grip' = IF lettingGo THEN "none" ELSE grip
          /\ slips' = IF lettingGo /\ ~heard THEN slips \cup {"unsent"} ELSE slips
    /\ ws' = IF held # want THEN IF want THEN "opening" ELSE "none" ELSE ws
    /\ conn' = IF want /\ ~held THEN conn + 1 ELSE conn
    /\ state' = IF held # want THEN IF want THEN "connecting" ELSE "idle" ELSE state
    /\ want' = (want /\ (state # "closed" \/ ~held))
    /\ held' = want /\ keys' = Enabled
    /\ UNCHANGED <<mounted, shown>> /\ NotPage

\* Mutant: the interval goes on without the page.
UnmountKeepsInterval ==
    /\ mounted /\ mounted' = FALSE
    /\ want' = FALSE /\ held' = FALSE /\ keys' = FALSE
    /\ state' = "idle" /\ ws' = "none"
    /\ up' = IF ws = "open" THEN [up EXCEPT ![conn] = Append(@, "bye")] ELSE up
    /\ UNCHANGED <<active, grip, shown, conn, slips>> /\ NotPage

\* The page is left: all clean-ups, the socket's first, so that the throttle's
\* and the keyboard's "stop" go nowhere.
Unmount ==
    /\ mounted /\ mounted' = FALSE
    /\ want' = FALSE /\ held' = FALSE /\ keys' = FALSE
    /\ state' = "idle" /\ ws' = "none" /\ active' = None /\ grip' = "none"
    /\ up' = IF ws = "open" THEN [up EXCEPT ![conn] = Append(@, "bye")] ELSE up
    /\ slips' = IF active # None THEN slips \cup {"unsent"} ELSE slips
    /\ UNCHANGED <<conn, shown>> /\ NotPage

Mount ==
    /\ ~mounted /\ mounted' = TRUE /\ shown' = TRUE
    /\ UNCHANGED <<want, held, state, ws, active, grip, keys, conn, up, slips>> /\ NotPage

\* The connection breaks, or cannot be made: onclose, onerror.
Cut ==
    /\ ws # "none" /\ Fault
    /\ ws' = "none" /\ state' = "closed"
    /\ slips' = slips \cup {"cut"}
    /\ IF ws = "opening" THEN UNCHANGED up
       ELSE \E k \in 0..Len(up[conn]) :
               up' = [up EXCEPT ![conn] = Append(SubSeq(@, 1, k), "bye")]
    /\ UNCHANGED <<mounted, want, held, active, grip, shown, keys, conn, backend, estop, road>>
-----------------------------------------------------------------------------
(* The backend: ws/teleop.py, and api/robots.py for the emergency stop *)

Smooth == UNCHANGED <<slips, faults>>
NotBackend == UNCHANGED <<mounted, want, held, active, grip, shown, keys, conn, estop>>
Goto(c, place) == handler' = [handler EXCEPT ![c] = place]
Current(c) == c = conn /\ ws = "open"

\* An answer is sent, with the commands in "rest" unread.  When the other side
\* has closed, sending may raise: the handler leaves, and reads no more.
Answer(c, rest) ==
    \/ Goto(c, "recv") /\ up' = [up EXCEPT ![c] = rest] /\ UNCHANGED <<slips, faults>>
    \/ /\ ~Current(c) /\ Fault
       /\ Goto(c, "leave") /\ up' = [up EXCEPT ![c] = <<>>]
       /\ slips' = IF rest \in {<<>>, <<"bye">>} THEN slips ELSE slips \cup {"unread"}

Accept(c) ==
    /\ c = conn /\ ws = "opening"
    /\ ws' = "open" /\ Goto(c, "acquire")
    /\ UNCHANGED <<state, up, holds, road>> /\ Smooth /\ NotBackend

\* acquire_session; a conflict, or a store's error, closes the connection.
Acquire(c) ==
    /\ handler[c] = "acquire"
    /\ \/ holds' = TRUE /\ Goto(c, "greet") /\ UNCHANGED <<state, ws>>
       \/ /\ Goto(c, "done")
          /\ ws' = IF Current(c) THEN "none" ELSE ws
          /\ state' = IF Current(c) THEN "closed" ELSE state
          /\ UNCHANGED holds
    /\ UNCHANGED <<up, road>> /\ Smooth /\ NotBackend

\* session_acquired; if nobody is there, sending it may raise.
Greet(c) ==
    /\ handler[c] = "greet"
    /\ IF Current(c) THEN Goto(c, "recv") /\ state' = "connected"
                     ELSE \E place \in {"recv", "done"} : Goto(c, place) /\ UNCHANGED state
    /\ UNCHANGED <<ws, up, holds, road>> /\ Smooth /\ NotBackend

\* Mutant: every command needs the session.
ReceiveChecksAll(c) ==
    /\ handler[c] = "recv" /\ up[c] # <<>>
    /\ up' = [up EXCEPT ![c] = Tail(@)]
    /\ LET command == Head(up[c]) IN
          Goto(c, IF command = "bye" THEN "leave" ELSE IF holds THEN command ELSE "recv")
    /\ UNCHANGED <<state, ws, holds, road>> /\ Smooth /\ NotBackend

\* The command is taken, or the end of the connection.
Take(c, place) ==
    /\ Goto(c, place) /\ up' = [up EXCEPT ![c] = Tail(@)]
    /\ UNCHANGED <<state, ws>> /\ Smooth

\* The next message.  A driving command needs the session; "stop" does not.
\* Both need the stores: an error there, which nobody catches, ends the
\* connection, and what was said on it is lost.
Receive(c) ==
    /\ handler[c] = "recv" /\ up[c] # <<>>
    /\ LET command == Head(up[c]) IN
          \/ command = "bye" /\ Take(c, "leave")
          \/ command \in Commands /\ (command = "stop" \/ holds) /\ Take(c, command)
          \/ /\ command \in Drives /\ ~holds
             /\ Answer(c, Tail(up[c]))
             /\ UNCHANGED <<state, ws>>
          \/ /\ command \in Commands /\ Fault
             /\ Goto(c, "leave") /\ up' = [up EXCEPT ![c] = <<>>]
             /\ ws' = IF Current(c) THEN "none" ELSE ws
             /\ state' = IF Current(c) THEN "closed" ELSE state
             /\ slips' = slips \cup {"failed"}
    /\ UNCHANGED <<holds, road>> /\ NotBackend

\* publish_command, and the answer.
Publish(c) ==
    /\ handler[c] = "stop" \/ (handler[c] \in Drives /\ Len(toRobot) < MaxFlight)
    /\ toRobot' = Append(toRobot, handler[c])
    /\ Answer(c, up[c])
    /\ UNCHANGED <<state, ws, holds, got, vel>> /\ NotBackend

\* The finally clause releases the session; an error of that is logged.
Leave(c) ==
    /\ handler[c] = "leave"
    /\ Goto(c, "done")
    /\ \/ holds' = FALSE /\ UNCHANGED faults
       \/ holds /\ Fault /\ UNCHANGED holds
    /\ UNCHANGED <<state, ws, up, road, slips>> /\ NotBackend

\* The session ends in another way.
Lapse ==
    /\ holds /\ Fault
    /\ holds' = FALSE
    /\ UNCHANGED <<page, up, handler, estop, road, slips>>

\* Anybody presses Emergency Stop.
PressStop ==
    /\ estop = "idle" /\ Len(toRobot) < MaxFlight
    /\ estop' = "sending"
    /\ UNCHANGED <<page, up, backend, road, slips, faults>>

\* Mutant: the emergency stop needs the session.
SendStopChecked ==
    /\ estop = "sending"
    /\ estop' = "idle"
    /\ toRobot' = IF holds THEN Append(toRobot, "stop") ELSE toRobot
    /\ UNCHANGED <<page, up, backend, got, vel, slips, faults>>

\* The robot is looked up in both stores before anything is published; an error
\* there is a 500, and no stop.
SendStop ==
    /\ estop = "sending"
    /\ estop' = "idle"
    /\ \/ toRobot' = Append(toRobot, "stop") /\ UNCHANGED <<slips, faults>>
       \/ Fault /\ slips' = slips \cup {"refused"} /\ UNCHANGED toRobot
    /\ UNCHANGED <<page, up, backend, got, vel>>
-----------------------------------------------------------------------------
(* MQTT and the robot *)

NotRoad == UNCHANGED <<page, up, backend, estop>>

\* CommandDispatcher._velocities_for.
VelocityFor(command) ==
    [linear  |-> CASE command = "forward" -> 1 [] command = "backward" -> -1 [] OTHER -> 0,
     angular |-> CASE command = "left" -> 1 [] command = "right" -> -1 [] OTHER -> 0]

\* receive_command, dispatch, publish_cmd_vel: on paho's thread, in order.
ReceiveCommand ==
    /\ got < Len(toRobot)
    /\ vel' = VelocityFor(toRobot[got + 1])
    /\ got' = got + 1
    /\ UNCHANGED <<toRobot, slips, faults>> /\ NotRoad

Acknowledge ==
    /\ got > 0
    /\ toRobot' = Tail(toRobot) /\ got' = got - 1
    /\ UNCHANGED <<vel, slips, faults>> /\ NotRoad

\* After a reconnection everything unacknowledged is sent again.
SendAgain ==
    /\ got > 0 /\ Fault
    /\ got' = 0
    /\ UNCHANGED <<toRobot, vel, slips>> /\ NotRoad

\* The robot is offline: the broker keeps nothing for a clean session.
Lose ==
    /\ got < Len(toRobot) /\ Fault
    /\ toRobot' = RemoveAt(toRobot, got + 1)
    /\ slips' = slips \cup {"lost"}
    /\ UNCHANGED <<got, vel>> /\ NotRoad
-----------------------------------------------------------------------------
Console ==
    \/ TakeControl \/ ReleaseControl \/ Tick \/ LetGo \/ LetGoUnheard
    \/ PollWorks \/ Commit \/ Unmount \/ Mount
    \/ \E command \in Drives : Start(command)
Handle(c) == Accept(c) \/ Acquire(c) \/ Greet(c) \/ Receive(c) \/ Publish(c) \/ Leave(c)
World == PollFails \/ Cut \/ Lapse \/ PressStop \/ SendAgain \/ Lose

Next ==
    \/ Console \/ World \/ SendStop \/ ReceiveCommand \/ Acknowledge
    \/ \E c \in Conns : Handle(c)

Spec == Init /\ [][Next]_vars

\* The page's effects, the backend and the robot run; nothing is assumed of
\* the driver.
FairSpec ==
    /\ Spec
    /\ WF_vars(Commit) /\ WF_vars(SendStop)
    /\ WF_vars(ReceiveCommand) /\ WF_vars(Acknowledge)
    /\ \A c \in Conns : WF_vars(Handle(c))
-----------------------------------------------------------------------------
(* Properties *)

\* Types; and a page that is not there has no socket and no interval.
TypeOK ==
    /\ mounted \in BOOLEAN /\ want \in BOOLEAN /\ held \in BOOLEAN /\ keys \in BOOLEAN
    /\ state \in {"idle", "connecting", "connected", "closed"}
    /\ ws \in {"none", "opening", "open"}
    /\ active \in Drives \cup {None} /\ conn \in 0..MaxConns
    /\ grip \in {"none", "held", "gone"} /\ shown \in BOOLEAN
    /\ up \in [Conns -> Seq(Commands \cup {"bye"})]
    /\ handler \in [Conns -> Commands \cup {"none", "acquire", "greet", "recv", "leave", "done"}]
    /\ holds \in BOOLEAN /\ estop \in {"idle", "sending"}
    /\ toRobot \in Seq(Commands) /\ got \in 0..Len(toRobot)
    /\ vel \in [linear : -1..1, angular : -1..1]
    /\ slips \subseteq Slips /\ faults \in 0..MaxFaults
    /\ ~mounted => ws = "none" /\ active = None
    /\ ws # "none" => conn > 0

\* No command is on its way.
Quiet ==
    /\ \A c \in Conns : up[c] = <<>> /\ handler[c] \in {"none", "recv", "done"}
    /\ estop = "idle" /\ got = Len(toRobot)

\* "stop the instant you release" (README.md:173): when the driver holds neither
\* key nor button and no command is on its way, the robot stands still, through
\* every order of events, effects and handlers, an old connection that is still
\* being read, lapsed sessions and commands delivered twice.  What it takes to
\* fail is in slips: a stop without a socket, a broken connection, a button that
\* a failed poll took off the page before it was let go of (Robot.tsx:100), a
\* handler that ended with commands unread, a store that failed under a command,
\* an offline robot.
StoppedWhenQuiet == Quiet /\ grip = "none" /\ slips = {} => vel = Still

\* A console that is not in control drives nobody: an interval that ran when
\* control was lost does not run on when it is taken again.  (A key that is still
\* held then repeats its keydown, and that starts a new one.)
InControlOnly ==
    mounted /\ ~Pending /\ ~(want /\ state = "connected") => active = None

\* Letting go stops the robot in the end, with the exceptions of StoppedWhenQuiet.
ReleaseStops ==
    grip = "none" ~> vel = Still \/ grip # "none" \/ slips # {}

\* An emergency stop stops the robot, whoever holds the session; for how long is
\* up to the driver.  It does not "always work" (README.md:174): the backend must
\* find the robot in its stores first (fleet/manager.py:65), and the robot must
\* be online.
EmergencyStops ==
    estop = "sending" ~> vel = Still \/ slips \cap {"lost", "refused"} # {}

\* "Unmount (e.g. navigating away from the Robot page) must not leave the robot
\* driving - stop unconditionally on cleanup" (useThrottledTeleop.ts:53-54).
LeavingPageStops ==
    ~mounted /\ Quiet /\ slips \subseteq {"unsent"} => vel = Still
=============================================================================
