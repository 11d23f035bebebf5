-------------------------- MODULE TeleopPathProofs --------------------------
(***************************************************************************)
(* A robot that nobody drives stands still, for any number of connections, *)
(* commands, lapsed sessions and repeated deliveries.                      *)
(***************************************************************************)
EXTENDS TeleopPath, TLAPS

\* An interval runs only under the keyboard's listeners, and what holds it is let
\* go of unheard or not at all; the listeners are only in a console that has a
\* socket, and a connected one unless that broke.
Gripped ==
    /\ active # None => keys
    /\ active = None => grip = "none"
    /\ grip = "none" => active = None \/ "unheard" \in slips
    /\ keys => held /\ mounted /\ (slips \cap {"cut", "failed"} # {} \/ state = "connected")
    /\ state = "connected" => held /\ ws = "open" /\ handler[conn] # "acquire"
    /\ ~held => state = "idle" /\ ws = "none"
    /\ ~mounted => ~want
    /\ want /\ ~held => conn < MaxConns

HasStop(q) == \E j \in 1..Len(q) : q[j] = "stop"

\* Each driving command in a queue has a "stop" somewhere behind it.
Followed(q) ==
    \A i \in 1..Len(q) : q[i] \in Drives => \E j \in (i + 1)..Len(q) : q[j] = "stop"

Ends(c) == Followed(up[c]) /\ (handler[c] \in Drives => HasStop(up[c]))
StopComing(c) == handler[c] = "stop" \/ HasStop(up[c])

\* The last word to the robot, if it had any, is "stop".
LastWordIsStop ==
    \/ toRobot = <<>> /\ vel = Still
    \/ /\ toRobot # <<>> /\ toRobot[Len(toRobot)] = "stop"
       /\ got = Len(toRobot) => vel = Still

\* What a connection has not delivered ends in "stop", unless it is the one
\* that drives; and if nobody drives, the robot has had its "stop" or one is
\* still to come, through whichever connection.
Promise ==
    slips = {} =>
        /\ \A c \in Conns : (c = conn /\ active # None) \/ Ends(c)
        /\ active = None => LastWordIsStop \/ \E c \in Conns : StopComing(c)

\* A connection that is not accepted yet has no handler.
Unaccepted ==
    \A c \in Conns : c > conn \/ (c = conn /\ ws = "opening") => handler[c] = "none"

Inv == TypeOK /\ Gripped /\ Unaccepted /\ Promise
-----------------------------------------------------------------------------
Words == Commands \cup {"bye"}

LEMMA Strings ==
  /\ "stop" \notin Drives /\ "bye" \notin Drives /\ "stop" \in Words /\ "bye" \in Words
  /\ Drives \subseteq Words /\ None \notin Drives
  /\ \A s \in {"none", "acquire", "greet", "recv", "leave", "done"} : s \notin Drives /\ s # "stop"
  BY DrivesAssumption, NoneAssumption DEF Words, Commands

LEMMA Appended ==
  ASSUME NEW S, NEW q \in Seq(S), NEW e \in S
  PROVE  /\ Append(q, e) \in Seq(S) /\ Len(q) \in Nat /\ Len(Append(q, e)) = Len(q) + 1
         /\ \A i \in 1..Len(q) : Append(q, e)[i] = q[i]
         /\ Append(q, e)[Len(q) + 1] = e
         /\ \A i \in 1..Len(Append(q, e)) : i \in 1..Len(q) \/ i = Len(q) + 1
  OBVIOUS

LEMMA Taken ==
  ASSUME NEW S, NEW q \in Seq(S), q # <<>>
  PROVE  /\ Tail(q) \in Seq(S) /\ Len(q) \in Nat \ {0} /\ Len(Tail(q)) = Len(q) - 1
         /\ Head(q) = q[1] /\ Head(q) \in S
         /\ \A i \in 1..Len(Tail(q)) : Tail(q)[i] = q[i + 1]
<1>1. Len(q) \in Nat \ {0} /\ Tail(q) \in Seq(S) /\ Len(Tail(q)) = Len(q) - 1
  OBVIOUS
<1> QED
  BY <1>1

\* A "stop" behind a queue answers for everything before it.
LEMMA StopAppended ==
  ASSUME NEW q \in Seq(Words)
  PROVE  Followed(Append(q, "stop")) /\ HasStop(Append(q, "stop"))
<1> DEFINE a == Append(q, "stop")
<1>1. /\ Len(q) \in Nat /\ Len(a) = Len(q) + 1 /\ a[Len(q) + 1] = "stop"
      /\ \A i \in 1..Len(a) : i \in 1..Len(q) \/ i = Len(q) + 1
  BY Appended, Strings
<1>2. ASSUME NEW i \in 1..Len(a), a[i] \in Drives PROVE \E j \in (i + 1)..Len(a) : a[j] = "stop"
  <2>1. i \in 1..Len(q)
    BY <1>1, <1>2, Strings
  <2>2. Len(q) + 1 \in (i + 1)..Len(a)
    BY <1>1, <2>1
  <2> QED
    BY <1>1, <2>2
<1>3. Len(q) + 1 \in 1..Len(a)
  BY <1>1
<1> QED
  BY <1>1, <1>2, <1>3 DEF Followed, HasStop

LEMMA OtherAppended ==
  ASSUME NEW q \in Seq(Words), NEW e \in Words, e \notin Drives
  PROVE  (Followed(q) => Followed(Append(q, e))) /\ (HasStop(q) => HasStop(Append(q, e)))
<1> DEFINE a == Append(q, e)
<1>1. /\ Len(q) \in Nat /\ Len(a) = Len(q) + 1 /\ a[Len(q) + 1] = e
      /\ \A i \in 1..Len(q) : a[i] = q[i]
      /\ \A i \in 1..Len(a) : i \in 1..Len(q) \/ i = Len(q) + 1
  BY Appended
<1>2. ASSUME Followed(q), NEW i \in 1..Len(a), a[i] \in Drives
      PROVE  \E j \in (i + 1)..Len(a) : a[j] = "stop"
  <2>1. i \in 1..Len(q) /\ a[i] = q[i]
    BY <1>1, <1>2
  <2>2. PICK j \in (i + 1)..Len(q) : q[j] = "stop"
    BY <1>2, <2>1 DEF Followed
  <2>3. j \in 1..Len(q) /\ j \in (i + 1)..Len(a)
    BY <1>1, <2>1, <2>2
  <2> QED
    BY <1>1, <2>2, <2>3
<1>3. ASSUME NEW j \in 1..Len(q), q[j] = "stop" PROVE HasStop(a)
  <2>1. j \in 1..Len(a) /\ a[j] = "stop"
    BY <1>1, <1>3
  <2> QED
    BY <2>1 DEF HasStop
<1> QED
  BY <1>2, <1>3 DEF Followed, HasStop

LEMMA FirstTaken ==
  ASSUME NEW q \in Seq(Words), q # <<>>
  PROVE  /\ Followed(q) => Followed(Tail(q)) /\ (Head(q) \in Drives => HasStop(Tail(q)))
         /\ HasStop(q) => Head(q) = "stop" \/ HasStop(Tail(q))
<1>1. /\ Len(q) \in Nat \ {0} /\ Len(Tail(q)) = Len(q) - 1 /\ Head(q) = q[1]
      /\ \A i \in 1..Len(Tail(q)) : Tail(q)[i] = q[i + 1]
  BY Taken
<1>2. ASSUME NEW j \in 2..Len(q), q[j] = "stop"
      PROVE  j - 1 \in 1..Len(Tail(q)) /\ Tail(q)[j - 1] = "stop"
  <2>1. j - 1 \in 1..Len(Tail(q)) /\ (j - 1) + 1 = j
    BY <1>1
  <2> QED
    BY <1>1, <1>2, <2>1
<1>3. ASSUME Followed(q), NEW i \in 1..Len(Tail(q)), Tail(q)[i] \in Drives
      PROVE  \E j \in (i + 1)..Len(Tail(q)) : Tail(q)[j] = "stop"
  <2>1. i + 1 \in 1..Len(q) /\ q[i + 1] \in Drives
    BY <1>1, <1>3
  <2>2. PICK j \in ((i + 1) + 1)..Len(q) : q[j] = "stop"
    BY <1>3, <2>1 DEF Followed
  <2>3. j \in 2..Len(q) /\ j - 1 \in (i + 1)..Len(Tail(q))
    BY <1>1, <1>3, <2>2
  <2> QED
    BY <1>2, <2>2, <2>3
<1>4. ASSUME Followed(q), Head(q) \in Drives PROVE HasStop(Tail(q))
  <2>1. 1 \in 1..Len(q) /\ q[1] \in Drives
    BY <1>1, <1>4
  <2>2. PICK j \in (1 + 1)..Len(q) : q[j] = "stop"
    BY <1>4, <2>1 DEF Followed
  <2> QED
    BY <1>2, <2>2 DEF HasStop
<1>5. ASSUME NEW j \in 1..Len(q), q[j] = "stop", Head(q) # "stop" PROVE HasStop(Tail(q))
  <2>1. j \in 2..Len(q)
    BY <1>1, <1>5
  <2> QED
    BY <1>2, <1>5, <2>1 DEF HasStop
<1> QED
  BY <1>3, <1>4, <1>5 DEF Followed, HasStop

LEMMA Empty == Followed(<<>>) /\ ~HasStop(<<>>)
  BY DEF Followed, HasStop
-----------------------------------------------------------------------------
LEMMA InitInv == Init => Inv
<1> SUFFICES ASSUME Init PROVE Inv
  OBVIOUS
<1>1. TypeOK
  <2>1. /\ handler \in [Conns -> Commands \cup {"none", "acquire", "greet", "recv", "leave", "done"}]
        /\ up \in [Conns -> Seq(Commands \cup {"bye"})] /\ toRobot \in Seq(Commands)
        /\ got \in 0..Len(toRobot)
    BY DEF Init
  <2>2. vel \in [linear : -1..1, angular : -1..1]
    BY DEF Init, Still
  <2>3. conn \in 0..MaxConns /\ faults \in 0..MaxFaults /\ active \in Drives \cup {None}
    BY BoundsAssumption DEF Init
  <2> QED
    BY <2>1, <2>2, <2>3 DEF Init, TypeOK
<1>2. Gripped
  BY DEF Init, Gripped
<1>3. Promise
  BY Empty, Strings DEF Init, Promise, Ends, LastWordIsStop
<1>4. Unaccepted
  BY DEF Init, Unaccepted
<1> QED
  BY <1>1, <1>2, <1>3, <1>4 DEF Inv

\* A step that leaves the console, the handlers and the road alone.
LEMMA PromiseKept ==
  ASSUME Promise, UNCHANGED <<conn, active, up, handler, toRobot, got, vel, slips>>
  PROVE  Promise'
  BY DEF Promise, Ends, StopComing, LastWordIsStop
-----------------------------------------------------------------------------
\* What is on its way: the console's queues.
LEMMA QueueTyped ==
  ASSUME TypeOK, NEW c \in Conns, NEW e \in Words
  PROVE  /\ up[c] \in Seq(Words)
         /\ [up EXCEPT ![c] = Append(@, e)] \in [Conns -> Seq(Words)]
         /\ [up EXCEPT ![c] = Append(@, e)][c] = Append(up[c], e)
         /\ \A d \in Conns \ {c} : [up EXCEPT ![c] = Append(@, e)][d] = up[d]
<1>1. up \in [Conns -> Seq(Words)]
  BY DEF TypeOK, Words
<1>2. Append(up[c], e) \in Seq(Words)
  BY <1>1, Appended
<1> QED
  BY <1>1, <1>2

LEMMA ConnIsThere == ASSUME TypeOK, ws # "none" PROVE conn \in Conns
  BY BoundsAssumption DEF TypeOK, Conns

\* What an action of the page may append to the connection's queue.
LEMMA SentTyped ==
  ASSUME TypeOK, NEW e \in Words,
         up' = up \/ (ws # "none" /\ up' = [up EXCEPT ![conn] = Append(@, e)])
  PROVE  up' \in [Conns -> Seq(Commands \cup {"bye"})]
<1>1. CASE up' = up
  BY <1>1 DEF TypeOK
<1>2. CASE ws # "none" /\ up' = [up EXCEPT ![conn] = Append(@, e)]
  BY <1>2, ConnIsThere, QueueTyped DEF Words
<1> QED
  BY <1>1, <1>2

PageTyped ==
    /\ mounted \in BOOLEAN /\ want \in BOOLEAN /\ held \in BOOLEAN /\ keys \in BOOLEAN
    /\ state \in {"idle", "connecting", "connected", "closed"}
    /\ ws \in {"none", "opening", "open"}
    /\ active \in Drives \cup {None} /\ conn \in 0..MaxConns
    /\ grip \in {"none", "held", "gone"} /\ shown \in BOOLEAN
    /\ slips \subseteq Slips
    /\ ~mounted => ws = "none" /\ active = None
    /\ ws # "none" => conn > 0

LEMMA ConsoleTyped == TypeOK /\ Gripped /\ Console => TypeOK'
<1> SUFFICES ASSUME TypeOK, Gripped, Console PROVE TypeOK'
  OBVIOUS
<1>0. UNCHANGED <<handler, holds, estop, toRobot, got, vel, faults>>
  BY DEF Console, TakeControl, ReleaseControl, Start, Tick, LetGo, LetGoUnheard, PollWorks, Commit, Unmount, Mount, NotPage,
         backend, road
<1>1. up' \in [Conns -> Seq(Commands \cup {"bye"})]
  <2>1. CASE TakeControl \/ ReleaseControl \/ Mount \/ LetGoUnheard \/ PollWorks
    BY <2>1 DEF TakeControl, ReleaseControl, Mount, LetGoUnheard, PollWorks, TypeOK
  <2>2. ASSUME NEW command \in Drives, Start(command) PROVE up' \in [Conns -> Seq(Commands \cup {"bye"})]
    BY <2>2, SentTyped, Strings DEF Start, SendCommand
  <2>3. CASE Tick
    <3>1. active \in Words
      BY <2>3, Strings DEF Tick, TypeOK
    <3> QED
      BY <2>3, <3>1, SentTyped DEF Tick, SendCommand
  <2>4. CASE LetGo
    BY <2>4, SentTyped, Strings DEF LetGo, SendCommand
  <2>5. CASE Commit
    <3>1. \/ up' = up
          \/ ws = "open" /\ up' = [up EXCEPT ![conn] = Append(@, "bye")]
          \/ ws = "open" /\ up' = [up EXCEPT ![conn] = Append(@, "stop")]
      BY <2>5 DEF Commit
    <3> QED
      BY <3>1, SentTyped, Strings
  <2>6. CASE Unmount
    BY <2>6, SentTyped, Strings DEF Unmount
  <2> QED
    BY <2>1, <2>2, <2>3, <2>4, <2>5, <2>6 DEF Console
<1>2. PageTyped'
  <2> USE BoundsAssumption DEF TypeOK, Gripped, PageTyped, Slips
  <2>1. CASE TakeControl \/ ReleaseControl \/ Mount \/ LetGoUnheard \/ PollWorks
    BY <2>1 DEF TakeControl, ReleaseControl, Mount, LetGoUnheard, PollWorks
  <2>2. ASSUME NEW command \in Drives, Start(command) PROVE PageTyped'
    BY <2>2 DEF Start
  <2>3. CASE Tick \/ LetGo
    BY <2>3 DEF Tick, LetGo, page
  <2>5. CASE Commit
    BY <2>5 DEF Commit, Enabled
  <2>6. CASE Unmount
    BY <2>6 DEF Unmount
  <2> QED
    BY <2>1, <2>2, <2>3, <2>5, <2>6 DEF Console
<1> QED
  BY <1>0, <1>1, <1>2 DEF TypeOK, PageTyped

LEMMA FaultCounted == TypeOK /\ Fault => faults' \in 0..MaxFaults
  BY BoundsAssumption DEF TypeOK, Fault

Places == Commands \cup {"none", "acquire", "greet", "recv", "leave", "done"}

\* What an answer leaves behind, whether it arrives or ends the handler.
LEMMA AnswerTyped ==
  ASSUME TypeOK, NEW c \in Conns, NEW rest \in Seq(Words), Answer(c, rest)
  PROVE  /\ handler' \in [Conns -> Places] /\ up' \in [Conns -> Seq(Words)]
         /\ slips' \subseteq Slips /\ faults' \in 0..MaxFaults
<1>1. /\ handler \in [Conns -> Places] /\ up \in [Conns -> Seq(Words)] /\ <<>> \in Seq(Words)
      /\ slips \subseteq Slips /\ faults \in 0..MaxFaults /\ "recv" \in Places /\ "leave" \in Places
  BY DEF TypeOK, Words, Places
<1>2. /\ handler' = [handler EXCEPT ![c] = "recv"] \/ handler' = [handler EXCEPT ![c] = "leave"]
      /\ up' = [up EXCEPT ![c] = rest] \/ up' = [up EXCEPT ![c] = <<>>]
      /\ slips' \in {slips, slips \cup {"unread"}}
      /\ faults' = faults \/ Fault
  BY DEF Answer, Goto
<1>3. handler' \in [Conns -> Places] /\ up' \in [Conns -> Seq(Words)]
  BY <1>1, <1>2
<1>4. slips' \subseteq Slips /\ faults' \in 0..MaxFaults
  BY <1>1, <1>2, FaultCounted DEF Slips
<1> QED
  BY <1>3, <1>4

LEMMA HandlerTyped ==
  ASSUME TypeOK, NEW c \in Conns, Handle(c)
  PROVE  TypeOK'
<1> USE DEF TypeOK, NotBackend, Smooth, Goto, page, road, backend
<1>1. CASE Accept(c)
  BY <1>1 DEF Accept
<1>2. CASE Acquire(c)
  <2>1. /\ handler' \in [Conns -> Commands \cup {"none", "acquire", "greet", "recv", "leave", "done"}]
        /\ ws' \in {ws, "none"} /\ state' \in {state, "closed"} /\ holds' \in {TRUE, holds}
        /\ UNCHANGED <<mounted, want, held, active, grip, shown, keys, conn>>
        /\ UNCHANGED <<up, estop, toRobot, got, vel, slips, faults>>
    BY <1>2 DEF Acquire
  <2>2. PageTyped'
    BY <2>1 DEF PageTyped
  <2>3. holds' \in BOOLEAN
    BY <2>1
  <2> QED
    BY <2>1, <2>2, <2>3 DEF PageTyped
<1>3. CASE Greet(c)
  <2>1. handler' \in [Conns -> Commands \cup {"none", "acquire", "greet", "recv", "leave", "done"}]
    BY <1>3 DEF Greet
  <2> QED
    BY <1>3, <2>1 DEF Greet
<1>4. CASE Receive(c)
  <2> DEFINE command == Head(up[c])
  <2>1. /\ up[c] \in Seq(Words) /\ up[c] # <<>> /\ Tail(up[c]) \in Seq(Words) /\ command \in Words
        /\ <<>> \in Seq(Words) /\ up \in [Conns -> Seq(Words)]
    BY <1>4, Taken DEF Receive, Words
  <2>2. /\ UNCHANGED <<mounted, want, held, active, grip, shown, keys, conn, holds, estop, road>>
    BY <1>4 DEF Receive
  <2>3. ASSUME NEW place \in Places, Take(c, place) PROVE TypeOK'
    <3>1. up' \in [Conns -> Seq(Words)] /\ handler' \in [Conns -> Places]
      BY <2>1, <2>3 DEF Take, Places
    <3> QED
      BY <2>2, <2>3, <3>1 DEF Take, Words, Places
  <2>4. ASSUME Answer(c, Tail(up[c])), UNCHANGED <<state, ws>> PROVE TypeOK'
    <3>1. /\ handler' \in [Conns -> Places] /\ up' \in [Conns -> Seq(Words)]
          /\ slips' \subseteq Slips /\ faults' \in 0..MaxFaults
      BY <2>1, <2>4, AnswerTyped
    <3> QED
      BY <2>2, <2>4, <3>1 DEF Words, Places
  <2>5. ASSUME Fault, Goto(c, "leave"), up' = [up EXCEPT ![c] = <<>>],
               ws' \in {ws, "none"}, state' \in {state, "closed"}, slips' = slips \cup {"failed"}
        PROVE  TypeOK'
    <3>1. up' \in [Conns -> Seq(Words)] /\ handler' \in [Conns -> Places]
      BY <2>1, <2>5 DEF Places
    <3> QED
      BY <2>2, <2>5, <3>1, FaultCounted DEF Words, Places, Slips
  <2>6. \/ \E place \in Places : Take(c, place)
        \/ Answer(c, Tail(up[c])) /\ UNCHANGED <<state, ws>>
        \/ /\ Fault /\ Goto(c, "leave") /\ up' = [up EXCEPT ![c] = <<>>]
           /\ ws' \in {ws, "none"} /\ state' \in {state, "closed"} /\ slips' = slips \cup {"failed"}
    BY <1>4 DEF Receive, Places
  <2> QED
    BY <2>3, <2>4, <2>5, <2>6
<1>5. CASE Publish(c)
  <2>1. handler[c] \in Commands /\ up[c] \in Seq(Words)
    BY <1>5 DEF Publish, Commands, Words
  <2>2. toRobot' \in Seq(Commands) /\ Len(toRobot') = Len(toRobot) + 1 /\ Len(toRobot) \in Nat
    BY <1>5, <2>1, Appended DEF Publish
  <2>3. /\ handler' \in [Conns -> Places] /\ up' \in [Conns -> Seq(Words)]
        /\ slips' \subseteq Slips /\ faults' \in 0..MaxFaults
    BY <1>5, <2>1, AnswerTyped DEF Publish
  <2>4. got' \in 0..Len(toRobot')
    BY <1>5, <2>2 DEF Publish
  <2> QED
    BY <1>5, <2>2, <2>3, <2>4 DEF Publish, Words, Places
<1>6. CASE Leave(c)
  <2>1. /\ handler' \in [Conns -> Commands \cup {"none", "acquire", "greet", "recv", "leave", "done"}]
        /\ holds' \in {FALSE, holds} /\ (faults' = faults \/ Fault)
        /\ UNCHANGED <<mounted, want, held, state, ws, active, grip, shown, keys, conn>>
        /\ UNCHANGED <<up, estop, toRobot, got, vel, slips>>
    BY <1>6 DEF Leave
  <2>2. PageTyped'
    BY <2>1 DEF PageTyped
  <2>3. holds' \in BOOLEAN /\ faults' \in 0..MaxFaults
    BY <2>1, FaultCounted
  <2> QED
    BY <2>1, <2>2, <2>3 DEF PageTyped
<1> QED
  BY <1>1, <1>2, <1>3, <1>4, <1>5, <1>6 DEF Handle

\* What only moves the robot's end.
RoadTyped ==
    /\ toRobot \in Seq(Commands) /\ got \in 0..Len(toRobot)
    /\ vel \in [linear : -1..1, angular : -1..1]
    /\ slips \subseteq Slips /\ faults \in 0..MaxFaults

LEMMA RoadTypedNext ==
  ASSUME TypeOK, SendStop \/ ReceiveCommand \/ Acknowledge \/ SendAgain \/ Lose
  PROVE  TypeOK'
<1>1. UNCHANGED <<page, up, backend>> /\ estop' \in {"idle", "sending"}
  BY DEF SendStop, ReceiveCommand, Acknowledge, SendAgain, Lose, NotRoad, TypeOK
<1>2. RoadTyped'
  <2> USE DEF TypeOK, RoadTyped
  <2>0. Len(toRobot) \in Nat /\ got \in Nat
    OBVIOUS
  <2>1. CASE SendStop
    <3>1. toRobot' \in Seq(Commands) /\ Len(toRobot') >= Len(toRobot) /\ Len(toRobot') \in Nat
      <4>1. toRobot' = toRobot \/ toRobot' = Append(toRobot, "stop")
        BY <2>1 DEF SendStop
      <4>2. toRobot \in Seq(Commands) /\ "stop" \in Commands
        BY DEF Commands
      <4> HIDE DEF TypeOK, RoadTyped
      <4>3. CASE toRobot' = toRobot
        BY <2>0, <4>2, <4>3
      <4>4. CASE toRobot' = Append(toRobot, "stop")
        <5>1. /\ Append(toRobot, "stop") \in Seq(Commands)
              /\ Len(Append(toRobot, "stop")) = Len(toRobot) + 1
          BY <4>2
        <5> QED
          BY <2>0, <4>4, <5>1
      <4> QED
        BY <4>1, <4>3, <4>4
    <3>2. slips' \in {slips, slips \cup {"refused"}} /\ (faults' = faults \/ Fault) /\ UNCHANGED <<got, vel>>
      BY <2>1 DEF SendStop
    <3>3. slips' \subseteq Slips /\ faults' \in 0..MaxFaults
      BY <3>2, FaultCounted DEF Slips
    <3>4. got' \in 0..Len(toRobot')
      BY <2>0, <3>1, <3>2
    <3> QED
      BY <3>1, <3>2, <3>3, <3>4
  <2>2. CASE ReceiveCommand
    <3>1. vel' \in [linear : -1..1, angular : -1..1]
      BY <2>2 DEF ReceiveCommand, VelocityFor
    <3> QED
      BY <2>0, <2>2, <3>1 DEF ReceiveCommand
  <2>3. CASE Acknowledge
    <3>1. toRobot # <<>>
      <4>1. Len(toRobot) # 0
        BY <2>0, <2>3 DEF Acknowledge
      <4> QED
        BY <4>1
    <3>2. toRobot' \in Seq(Commands) /\ Len(toRobot') = Len(toRobot) - 1
      BY <2>3, <3>1, Taken DEF Acknowledge
    <3> QED
      BY <2>0, <2>3, <3>2 DEF Acknowledge
  <2>4. CASE SendAgain
    BY <2>0, <2>4, FaultCounted DEF SendAgain
  <2>5. CASE Lose
    <3> DEFINE q == toRobot
    <3>1. got + 1 \in 1..Len(q)
      BY <2>0, <2>5 DEF Lose
    <3>2. /\ SubSeq(q, 1, got) \in Seq(Commands) /\ Len(SubSeq(q, 1, got)) = got
          /\ SubSeq(q, got + 2, Len(q)) \in Seq(Commands)
          /\ Len(SubSeq(q, got + 2, Len(q))) \in Nat
      BY <2>0, <3>1
    <3>3. toRobot' = SubSeq(q, 1, got) \o SubSeq(q, got + 2, Len(q))
      <4>1. (got + 1) - 1 = got /\ (got + 1) + 1 = got + 2
        BY <2>0
      <4>2. toRobot' = SubSeq(q, 1, (got + 1) - 1) \o SubSeq(q, (got + 1) + 1, Len(q))
        BY <2>5 DEF Lose, RemoveAt
      <4> QED
        BY <4>1, <4>2
    <3>4. toRobot' \in Seq(Commands) /\ got <= Len(toRobot')
      <4>1. ASSUME NEW a \in Seq(Commands), NEW b \in Seq(Commands)
            PROVE  a \o b \in Seq(Commands) /\ Len(a) <= Len(a \o b)
        OBVIOUS
      <4> QED
        BY <2>0, <3>2, <3>3, <4>1
    <3> QED
      BY <2>0, <2>5, <3>4, FaultCounted DEF Lose, Slips
  <2> QED
    BY <2>1, <2>2, <2>3, <2>4, <2>5
<1> QED
  BY <1>1, <1>2 DEF TypeOK, RoadTyped, page, backend

LEMMA NextTyped == TypeOK /\ Gripped /\ [Next]_vars => TypeOK'
<1> SUFFICES ASSUME TypeOK, Gripped, [Next]_vars PROVE TypeOK'
  OBVIOUS
<1>1. CASE UNCHANGED vars
  BY <1>1 DEF vars, page, backend, road, TypeOK
<1>2. CASE Cut
  <2>1. up' \in [Conns -> Seq(Commands \cup {"bye"})]
    <3>1. CASE ws = "opening"
      BY <1>2, <3>1 DEF Cut, TypeOK
    <3>2. ASSUME ws # "opening", NEW k \in 0..Len(up[conn]),
                 up' = [up EXCEPT ![conn] = Append(SubSeq(@, 1, k), "bye")]
          PROVE  up' \in [Conns -> Seq(Commands \cup {"bye"})]
      <4>1. conn \in Conns /\ up \in [Conns -> Seq(Words)]
        BY <1>2, ConnIsThere DEF Cut, TypeOK, Words
      <4>2. SubSeq(up[conn], 1, k) \in Seq(Words)
        BY <4>1, <3>2
      <4>3. Append(SubSeq(up[conn], 1, k), "bye") \in Seq(Words)
        BY <4>2, Appended, Strings
      <4> QED
        BY <3>2, <4>1, <4>3 DEF Words
    <3> QED
      BY <1>2, <3>1, <3>2 DEF Cut
  <2> QED
    BY <1>2, <2>1, FaultCounted DEF Cut, TypeOK, Slips, backend, road
<1>3. CASE Lapse
  <2>1. UNCHANGED <<page, up, handler, estop, road, slips>> /\ holds' = FALSE /\ faults' \in 0..MaxFaults
    BY <1>3, FaultCounted DEF Lapse
  <2> QED
    BY <2>1 DEF TypeOK, page, road
<1>4. CASE PressStop
  BY <1>4 DEF PressStop, TypeOK, page, backend, road
<1>5. CASE PollFails
  <2>1. /\ UNCHANGED <<mounted, want, held, state, ws, active, keys, conn, slips>>
        /\ UNCHANGED <<up, handler, holds, estop, toRobot, got, vel>>
        /\ shown' = FALSE /\ grip' \in {grip, "held", "gone"} /\ faults' \in 0..MaxFaults
    BY <1>5, FaultCounted DEF PollFails, backend, road
  <2>2. PageTyped'
    BY <2>1 DEF TypeOK, PageTyped
  <2> QED
    BY <2>1, <2>2 DEF TypeOK, PageTyped
<1> QED
  BY <1>1, <1>2, <1>3, <1>4, <1>5, ConsoleTyped, HandlerTyped, RoadTypedNext DEF Next, World
-----------------------------------------------------------------------------
LEMMA NextGripped == TypeOK /\ Gripped /\ [Next]_vars => Gripped'
<1> SUFFICES ASSUME TypeOK, Gripped, [Next]_vars PROVE Gripped'
  OBVIOUS
<1>1. CASE UNCHANGED vars
  BY <1>1 DEF vars, page, backend, Gripped
<1>2. CASE TakeControl \/ ReleaseControl \/ Mount \/ Tick \/ LetGo \/ LetGoUnheard \/ PollWorks
  BY <1>2 DEF TakeControl, ReleaseControl, Mount, Tick, LetGo, LetGoUnheard, PollWorks, NotPage, Pending,
              page, backend, Gripped, TypeOK
<1>3. ASSUME NEW command \in Drives, Start(command) PROVE Gripped'
  <2>1. /\ active' = command /\ command # None /\ grip' = "held" /\ keys
        /\ UNCHANGED <<mounted, want, held, state, ws, keys, conn, slips, handler>>
    BY <1>3, Strings DEF Start, NotPage, backend
  <2> QED
    BY <2>1 DEF Gripped
<1>4. CASE Commit
  <2>1. active' # None => keys'
    BY <1>4 DEF Commit, Gripped, TypeOK
  <2>2. keys' => held' /\ mounted' /\ (slips' \cap {"cut", "failed"} # {} \/ state' = "connected")
    BY <1>4 DEF Commit, Enabled, Gripped, TypeOK
  <2>3. state' = "connected" => held' /\ ws' = "open" /\ handler'[conn'] # "acquire"
    BY <1>4 DEF Commit, NotPage, backend, Gripped, TypeOK
  <2>4. ~held' => state' = "idle" /\ ws' = "none"
    BY <1>4 DEF Commit, Gripped, TypeOK
  <2>5. (~mounted' => ~want') /\ (want' /\ ~held' => conn' < MaxConns)
    BY <1>4 DEF Commit, TypeOK
  <2>6. (active' = None => grip' = "none") /\ (grip' = "none" => active' = None \/ "unheard" \in slips')
    BY <1>4 DEF Commit, Gripped
  <2> QED
    BY <2>1, <2>2, <2>3, <2>4, <2>5, <2>6 DEF Gripped
<1>5. CASE Unmount
  BY <1>5 DEF Unmount, Gripped
<1>6. CASE Cut
  BY <1>6 DEF Cut, backend, Gripped
<1>7. ASSUME NEW c \in Conns, Accept(c) \/ Greet(c) PROVE Gripped'
  <2>1. UNCHANGED <<mounted, want, held, active, grip, keys, conn, slips>>
    BY <1>7 DEF Accept, Greet, NotBackend, Smooth
  <2>2. handler \in [Conns -> Commands \cup {"none", "acquire", "greet", "recv", "leave", "done"}]
    BY DEF TypeOK
  <2>3. CASE Accept(c)
    BY <2>1, <2>3 DEF Accept, Gripped
  <2>4. CASE Greet(c)
    <3>1. handler'[c] # "acquire" /\ \A d \in Conns \ {c} : handler'[d] = handler[d]
      BY <2>2, <2>4 DEF Greet, Goto
    <3>2. ws' = ws /\ (state' = state \/ (Current(c) /\ state' = "connected"))
      BY <2>4 DEF Greet
    <3>3. state' = "connected" => conn \in Conns
      BY <3>2, ConnIsThere DEF Gripped, Current
    <3> QED
      BY <2>1, <3>1, <3>2, <3>3 DEF Gripped, Current
  <2> QED
    BY <1>7, <2>3, <2>4
<1>8. ASSUME NEW c \in Conns, Acquire(c) PROVE Gripped'
  <2>1. /\ UNCHANGED <<mounted, want, held, active, grip, keys, conn, slips>>
        /\ handler[c] = "acquire"
        /\ \/ UNCHANGED <<state, ws>> /\ handler' = [handler EXCEPT ![c] = "greet"]
           \/ ~Current(c) /\ UNCHANGED <<state, ws>> /\ handler' = [handler EXCEPT ![c] = "done"]
           \/ Current(c) /\ ws' = "none" /\ state' = "closed"
    BY <1>8 DEF Acquire, NotBackend, Smooth, Goto
  <2>2. state = "connected" => conn \in Conns /\ handler[conn] # "acquire"
    BY ConnIsThere DEF Gripped
  <2>3. handler \in [Conns -> Commands \cup {"none", "acquire", "greet", "recv", "leave", "done"}]
    BY DEF TypeOK
  <2>4. CASE UNCHANGED <<state, ws>>
    <3>1. state = "connected" => handler'[conn] # "acquire"
      <4>1. CASE Current(c)
        BY <2>1, <2>2, <4>1 DEF Current
      <4>2. CASE ~Current(c)
        BY <2>1, <2>2, <2>3, <4>2
      <4> QED
        BY <4>1, <4>2
    <3> QED
      BY <2>1, <2>4, <3>1 DEF Gripped
  <2>5. CASE Current(c) /\ ws' = "none" /\ state' = "closed"
    BY <2>1, <2>2, <2>5 DEF Gripped, Current
  <2> QED
    BY <2>1, <2>4, <2>5
<1>9. ASSUME NEW c \in Conns, Receive(c) \/ Publish(c) \/ Leave(c) PROVE Gripped'
  <2>1. UNCHANGED <<mounted, want, held, active, grip, keys, conn>> /\ slips \subseteq slips'
    BY <1>9 DEF Receive, Take, Answer, Publish, Leave, NotBackend, Smooth
  <2>2. \/ UNCHANGED <<state, ws>>
        \/ Current(c) /\ ws' = "none" /\ state' = "closed" /\ "failed" \in slips'
    BY <1>9 DEF Receive, Take, Publish, Leave
  <2>3. \E place \in Commands \cup {"recv", "leave", "done"} : handler' = [handler EXCEPT ![c] = place]
    BY <1>9 DEF Receive, Take, Answer, Publish, Leave, Goto
  <2>4. "acquire" \notin Commands \cup {"recv", "leave", "done"}
    BY DrivesAssumption DEF Commands
  <2>5. state = "connected" => handler'[conn] # "acquire"
    BY <2>3, <2>4, ConnIsThere DEF Gripped, TypeOK
  <2> QED
    BY <2>1, <2>2, <2>5 DEF Gripped, Current
<1>11. CASE PollFails
  BY <1>11 DEF PollFails, backend, Gripped
<1>10. CASE Lapse \/ PressStop \/ SendStop \/ ReceiveCommand \/ Acknowledge \/ SendAgain \/ Lose
  BY <1>10 DEF Lapse, PressStop, SendStop, ReceiveCommand, Acknowledge, SendAgain, Lose, NotRoad, page,
               backend, Gripped
<1> QED
  BY <1>1, <1>2, <1>3, <1>4, <1>5, <1>6, <1>7, <1>8, <1>9, <1>10, <1>11 DEF Next, Console, World, Handle
LEMMA NextUnaccepted == TypeOK /\ Unaccepted /\ [Next]_vars => Unaccepted'
<1> SUFFICES ASSUME TypeOK, Unaccepted, [Next]_vars PROVE Unaccepted'
  OBVIOUS
<1>0. conn \in Nat /\ Conns \subseteq Nat
  BY BoundsAssumption DEF TypeOK, Conns
<1>1. ASSUME UNCHANGED <<conn, handler>>, ws' = "opening" => ws = "opening" PROVE Unaccepted'
  BY <1>1 DEF Unaccepted
<1>2. CASE UNCHANGED vars \/ World \/ SendStop \/ ReceiveCommand \/ Acknowledge
  BY <1>1, <1>2 DEF vars, World, PollFails, Cut, Lapse, PressStop, SendAgain, Lose, SendStop, ReceiveCommand,
                    Acknowledge, NotRoad, page, backend
<1>3. CASE Console
  <2>1. CASE Commit /\ want /\ ~held
    <3>1. conn' = conn + 1 /\ handler' = handler
      BY <2>1 DEF Commit, NotPage, backend
    <3>2. \A c \in Conns : c > conn' \/ c = conn' => c > conn
      BY <1>0, <3>1
    <3> QED
      BY <3>1, <3>2 DEF Unaccepted
  <2>2. CASE ~(Commit /\ want /\ ~held)
    <3>1. UNCHANGED <<conn, handler>> /\ (ws' = "opening" => ws = "opening")
      BY <1>3, <2>2 DEF Console, TakeControl, ReleaseControl, Start, Tick, LetGo, LetGoUnheard, PollWorks, Commit, Unmount, Mount,
                        NotPage, backend, page, TypeOK
    <3> QED
      BY <1>1, <3>1
  <2> QED
    BY <2>1, <2>2
<1>4. ASSUME NEW c \in Conns, Handle(c) PROVE Unaccepted'
  <2>1. /\ conn' = conn /\ \A d \in Conns \ {c} : handler'[d] = handler[d]
        /\ ws' = "opening" => ws = "opening" /\ ~Accept(c)
    BY <1>4 DEF Handle, Accept, Acquire, Greet, Receive, Take, Answer, Publish, Leave, NotBackend, Goto,
                TypeOK
  <2>2. CASE Accept(c)
    BY <1>0, <2>1, <2>2 DEF Accept, Unaccepted
  <2>3. CASE ~Accept(c)
    <3>1. handler[c] # "none"
      BY <1>4, <2>3, Strings DEF Handle, Acquire, Greet, Receive, Publish, Leave
    <3> QED
      BY <2>1, <3>1 DEF Unaccepted
  <2> QED
    BY <2>2, <2>3
<1> QED
  BY <1>2, <1>3, <1>4 DEF Next
-----------------------------------------------------------------------------
(* The promise *)

\* A step of the page that appends e, no driving command, to the connection, or
\* nothing, and whose driving ends, if it does, with a "stop" that is sent.
LEMMA PageKeepsPromise ==
  ASSUME TypeOK, TypeOK', Promise, UNCHANGED <<handler, toRobot, got, vel>>,
         NEW e \in {"stop", "bye"},
         up' = up \/ (ws # "none" /\ up' = [up EXCEPT ![conn] = Append(@, e)]),
         active' \in {active, None},
         slips \subseteq slips',
         slips' = {} /\ active # None => conn' = conn,
         slips' = {} /\ active # None /\ active' = None =>
             e = "stop" /\ ws # "none" /\ up' = [up EXCEPT ![conn] = Append(@, e)]
  PROVE  Promise'
<1> SUFFICES ASSUME slips' = {}
             PROVE  /\ \A c \in Conns : (c = conn' /\ active' # None) \/ Ends(c)'
                    /\ active' = None => LastWordIsStop' \/ \E c \in Conns : StopComing(c)'
  BY DEF Promise
<1>0. slips = {} /\ e \in Words /\ e \notin Drives /\ \A c \in Conns : up[c] \in Seq(Words)
  BY Strings DEF TypeOK, Words
<1>1. ASSUME NEW c \in Conns
      PROVE  (HasStop(up[c]) => HasStop(up'[c])) /\ (Ends(c) => Ends(c)')
  <2>1. CASE up' = up
    BY <2>1 DEF Ends
  <2>2. CASE ws # "none" /\ up' = [up EXCEPT ![conn] = Append(@, e)]
    <3>1. conn \in Conns
      BY <2>2, ConnIsThere
    <3>2. up'[c] = Append(up[c], e) \/ up'[c] = up[c]
      BY <1>0, <2>2, <3>1, QueueTyped
    <3> QED
      BY <1>0, <3>2, OtherAppended DEF Ends
  <2> QED
    BY <2>1, <2>2
<1>2. CASE active # None /\ active' = None
  <2>1. conn \in Conns /\ up'[conn] = Append(up[conn], "stop")
    BY <1>0, <1>2, ConnIsThere, QueueTyped
  <2>2. Followed(up'[conn]) /\ HasStop(up'[conn])
    BY <1>0, <2>1, StopAppended
  <2>3. \A c \in Conns : Ends(c)'
    BY <1>0, <1>1, <2>2 DEF Promise, Ends
  <2> QED
    BY <2>1, <2>2, <2>3 DEF StopComing
<1>3. CASE active' = active
  <2>1. \A c \in Conns : (c = conn' /\ active' # None) \/ Ends(c)'
    BY <1>0, <1>1, <1>3 DEF Promise
  <2>2. active' = None => LastWordIsStop' \/ \E c \in Conns : StopComing(c)'
    BY <1>0, <1>1, <1>3 DEF Promise, LastWordIsStop, StopComing
  <2> QED
    BY <2>1, <2>2
<1> QED
  BY <1>2, <1>3

LEMMA ConsoleKeepsPromise ==
  ASSUME TypeOK, TypeOK', Gripped, Promise, Console
  PROVE  Promise'
<1>0. UNCHANGED <<handler, toRobot, got, vel>>
  BY DEF Console, TakeControl, ReleaseControl, Start, Tick, LetGo, LetGoUnheard, PollWorks, Commit, Unmount, Mount, NotPage,
         backend, road
<1>1. CASE TakeControl \/ ReleaseControl \/ Mount \/ LetGoUnheard \/ PollWorks
  BY <1>0, <1>1, PromiseKept DEF TakeControl, ReleaseControl, Mount, PollWorks, LetGoUnheard, Promise
<1>2. ASSUME NEW command \in Drives, active' \in Drives, UNCHANGED <<conn, slips>>,
             up' = up \/ (ws # "none" /\ up' = [up EXCEPT ![conn] = Append(@, command)])
      PROVE  Promise'
  <2>1. active' # None
    BY <1>2, Strings
  <2>2. \A c \in Conns : c # conn => up'[c] = up[c]
    BY <1>2, ConnIsThere, QueueTyped, Strings
  <2> QED
    BY <1>0, <1>2, <2>1, <2>2 DEF Promise, Ends
<1>3. ASSUME NEW command \in Drives, Start(command) PROVE Promise'
  BY <1>2, <1>3 DEF Start, SendCommand
<1>4. CASE Tick
  BY <1>2, <1>4 DEF Tick, SendCommand, page, TypeOK
<1>5. CASE LetGo
  <2>1. slips = {} => ws = "open"
    BY <1>5 DEF LetGo, Gripped
  <2> QED
    BY <1>0, <1>5, <2>1, PageKeepsPromise DEF LetGo, SendCommand
<1>6. CASE Unmount
  <2>1. up' = up \/ (ws # "none" /\ up' = [up EXCEPT ![conn] = Append(@, "bye")])
    BY <1>6 DEF Unmount
  <2>2. /\ active' \in {active, None} /\ slips \subseteq slips' /\ conn' = conn
        /\ active # None => slips' # {}
    BY <1>6 DEF Unmount
  <2> QED
    BY <1>0, <2>1, <2>2, PageKeepsPromise
<1>7. CASE Commit
  <2> DEFINE closing == held /\ ~want
             lettingGo == keys /\ ~Enabled /\ active # None
             heard == lettingGo /\ ws = "open" /\ ~closing
  <2>1. /\ up' = CASE closing /\ ws = "open" -> [up EXCEPT ![conn] = Append(@, "bye")]
                   [] heard -> [up EXCEPT ![conn] = Append(@, "stop")]
                   [] OTHER -> up
        /\ active' = IF lettingGo THEN None ELSE active
        /\ slips' = IF lettingGo /\ ~heard THEN slips \cup {"unsent"} ELSE slips
        /\ conn' = IF want /\ ~held THEN conn + 1 ELSE conn
    BY <1>7 DEF Commit
  <2>2. active # None => keys /\ held
    BY DEF Gripped
  <2>3. CASE heard
    <3>1. /\ up' = [up EXCEPT ![conn] = Append(@, "stop")] /\ ws # "none"
          /\ active' = None /\ slips' = slips /\ conn' = conn
      BY <2>1, <2>2, <2>3
    <3> HIDE DEF closing, lettingGo, heard
    <3> QED
      BY <1>0, <3>1, PageKeepsPromise
  <2>4. CASE ~heard
    <3>1. /\ up' = up \/ (ws # "none" /\ up' = [up EXCEPT ![conn] = Append(@, "bye")])
          /\ active' \in {active, None} /\ slips \subseteq slips'
          /\ active # None => conn' = conn
          /\ active # None /\ active' = None => slips' # {}
      BY <2>1, <2>2, <2>4
    <3> HIDE DEF closing, lettingGo, heard
    <3> QED
      BY <1>0, <3>1, PageKeepsPromise
  <2> QED
    BY <2>3, <2>4
<1> QED
  BY <1>1, <1>3, <1>4, <1>5, <1>6, <1>7 DEF Console
\* An answer that costs nothing leaves nothing unread but the connection's end.
LEMMA AnswerKept ==
  ASSUME TypeOK, NEW c \in Conns, NEW rest \in Seq(Words), Answer(c, rest), slips' = {}
  PROVE  /\ slips = {} /\ handler'[c] \in {"recv", "leave"}
         /\ up'[c] = rest \/ (up'[c] = <<>> /\ ~HasStop(rest) /\ ~Current(c) /\ handler'[c] = "leave")
         /\ up'[c] = rest => handler'[c] = "recv" \/ ~Current(c)
         /\ \A d \in Conns \ {c} : handler'[d] = handler[d] /\ up'[d] = up[d]
<1>1. ~HasStop(<<>>) /\ ~HasStop(<<"bye">>)
  BY Strings DEF HasStop
<1> QED
  BY <1>1 DEF Answer, Goto, TypeOK

\* A step of a handler that is not a command leaves the promise to the rest.
LEMMA HandlerKeepsPromise ==
  ASSUME TypeOK, TypeOK', Unaccepted, Promise, NEW c \in Conns, Handle(c)
  PROVE  Promise'
<1>0. /\ UNCHANGED <<conn, active>> /\ (slips' = {} => slips = {})
      /\ handler \in [Conns -> Commands \cup {"none", "acquire", "greet", "recv", "leave", "done"}]
      /\ up \in [Conns -> Seq(Words)]
  BY DEF Handle, Accept, Acquire, Greet, Receive, Take, Answer, Publish, Leave, NotBackend, Smooth,
         TypeOK, Words
<1>1. ASSUME NEW place \in {"acquire", "greet", "recv", "leave", "done"}, handler[c] # "stop",
             handler' = [handler EXCEPT ![c] = place], UNCHANGED <<up, road>>
      PROVE  Promise'
  <2>1. place \notin Drives /\ place # "stop"
    BY Strings
  <2>2. \A d \in Conns : (Ends(d) => Ends(d)') /\ (StopComing(d) => StopComing(d)')
    BY <1>0, <1>1, <2>1 DEF Ends, StopComing
  <2> QED
    BY <1>0, <1>1, <2>2 DEF Promise, LastWordIsStop, road
<1>2. CASE Accept(c)
  <2>1. handler' = [handler EXCEPT ![c] = "acquire"] /\ UNCHANGED <<up, road>>
    BY <1>2 DEF Accept, Goto
  <2>2. handler[c] = "none"
    BY <1>2 DEF Accept, Unaccepted
  <2> QED
    BY <1>1, <2>1, <2>2
<1>3. CASE Acquire(c) \/ Greet(c) \/ Leave(c)
  <2>1. /\ \E place \in {"greet", "recv", "done"} : handler' = [handler EXCEPT ![c] = place]
        /\ UNCHANGED <<up, road>> /\ handler[c] # "stop"
    BY <1>3, Strings DEF Acquire, Greet, Leave, Goto
  <2> QED
    BY <1>1, <2>1
<1>4. CASE Receive(c)
  <2> DEFINE command == Head(up[c])
  <2>1. handler[c] = "recv" /\ up[c] # <<>> /\ UNCHANGED road
    BY <1>4 DEF Receive
  <2>2. /\ Followed(up[c]) => Followed(Tail(up[c])) /\ (command \in Drives => HasStop(Tail(up[c])))
        /\ HasStop(up[c]) => command = "stop" \/ HasStop(Tail(up[c]))
        /\ Tail(up[c]) \in Seq(Words)
    BY <1>0, <2>1, FirstTaken, Taken
  <2>3. ASSUME \A d \in Conns : (Ends(d) => Ends(d)') /\ (StopComing(d) => StopComing(d)')
        PROVE  Promise'
    BY <1>0, <2>1, <2>3 DEF Promise, LastWordIsStop, road
  <2>4. ASSUME NEW place, Take(c, place), place = command \/ place = "leave",
               place = "leave" => command = "bye"
        PROVE  Promise'
    <3>1. /\ command = "stop" => handler'[c] = "stop"
          /\ handler'[c] \in Drives => command \in Drives
          /\ \A d \in Conns \ {c} : handler'[d] = handler[d] /\ up'[d] = up[d]
          /\ up'[c] = Tail(up[c])
      BY <1>0, <2>4, Strings DEF Take, Goto
    <3>2. \A d \in Conns : (Ends(d) => Ends(d)') /\ (StopComing(d) => StopComing(d)')
      BY <2>1, <2>2, <3>1 DEF Ends, StopComing
    <3> QED
      BY <2>3, <3>2
  <2>5. ASSUME Answer(c, Tail(up[c])), command \in Drives, slips' = {} PROVE Promise'
    <3>1. /\ handler'[c] \in {"recv", "leave"}
          /\ up'[c] = Tail(up[c]) \/ (up'[c] = <<>> /\ ~HasStop(Tail(up[c])))
          /\ \A d \in Conns \ {c} : handler'[d] = handler[d] /\ up'[d] = up[d]
      BY <2>2, <2>5, AnswerKept
    <3>2. handler'[c] \notin Drives /\ handler'[c] # "stop" /\ command # "stop"
      BY <2>5, <3>1, Strings
    <3>3. \A d \in Conns : (Ends(d) => Ends(d)') /\ (StopComing(d) => StopComing(d)')
      BY <2>1, <2>2, <3>1, <3>2, Empty, Strings DEF Ends, StopComing
    <3> QED
      BY <2>3, <3>3
  <2>6. slips' # {} => Promise'
    BY DEF Promise
  <2>7. \/ \E place : Take(c, place) /\ (place = command \/ place = "leave") /\ (place = "leave" => command = "bye")
        \/ Answer(c, Tail(up[c])) /\ command \in Drives
        \/ slips' # {}
    BY <1>4, Strings DEF Receive, Commands
  <2> QED
    BY <2>4, <2>5, <2>6, <2>7
<1>5. CASE Publish(c)
  <2> SUFFICES ASSUME slips' = {} PROVE Promise'
    BY DEF Promise
  <2>1. /\ toRobot' = Append(toRobot, handler[c]) /\ handler[c] \in Commands
        /\ UNCHANGED <<got, vel>> /\ Answer(c, up[c])
    BY <1>5 DEF Publish, Commands
  <2>2. /\ Len(toRobot') = Len(toRobot) + 1 /\ Len(toRobot) \in Nat /\ got <= Len(toRobot) /\ got \in Nat
        /\ toRobot'[Len(toRobot) + 1] = handler[c]
    BY <2>1, Appended DEF TypeOK
  <2>3. toRobot' # <<>>
    BY <2>2
  <2>4. /\ handler'[c] \in {"recv", "leave"} /\ (up'[c] = up[c] \/ (up'[c] = <<>> /\ ~HasStop(up[c])))
        /\ \A d \in Conns \ {c} : handler'[d] = handler[d] /\ up'[d] = up[d]
    BY <1>0, <2>1, AnswerKept
  <2>5. \A d \in Conns : Ends(d) => Ends(d)'
    BY <2>4, Empty, Strings DEF Ends
  <2>6. CASE handler[c] = "stop"
    <3>1. LastWordIsStop'
      BY <2>1, <2>2, <2>3, <2>6 DEF LastWordIsStop
    <3> QED
      BY <1>0, <2>5, <3>1 DEF Promise
  <2>7. CASE handler[c] \in Drives
    <3>1. active = None => HasStop(up'[c])
      BY <1>0, <2>4, <2>7 DEF Promise, Ends
    <3>2. \A d \in Conns : (d = conn /\ active # None) \/ Ends(d)'
      BY <1>0, <2>5 DEF Promise
    <3>3. active = None => \E d \in Conns : StopComing(d)'
      BY <3>1 DEF StopComing
    <3> QED
      BY <1>0, <3>2, <3>3 DEF Promise
  <2> QED
    BY <2>1, <2>6, <2>7 DEF Commands
<1> QED
  BY <1>2, <1>3, <1>4, <1>5 DEF Handle

\* What moves on the road keeps a last word that is "stop".
LEMMA RoadKeepsPromise ==
  ASSUME TypeOK, TypeOK', Promise, SendStop \/ ReceiveCommand \/ Acknowledge \/ SendAgain \/ Lose
  PROVE  Promise'
<1>0. UNCHANGED <<conn, active, up, handler>> /\ Len(toRobot) \in Nat /\ got \in Nat /\ got <= Len(toRobot)
  BY DEF SendStop, ReceiveCommand, Acknowledge, SendAgain, Lose, NotRoad, page, backend, TypeOK
<1>1. ASSUME UNCHANGED slips, LastWordIsStop => LastWordIsStop' PROVE Promise'
  BY <1>0, <1>1 DEF Promise, Ends, StopComing
<1>2. CASE SendStop
  <2> SUFFICES ASSUME slips' = {} PROVE Promise'
    BY DEF Promise
  <2>1. /\ toRobot' = Append(toRobot, "stop") /\ toRobot \in Seq(Commands) /\ "stop" \in Commands
        /\ UNCHANGED <<got, slips>>
    BY <1>2 DEF SendStop, TypeOK, Commands
  <2>2. Len(toRobot') = Len(toRobot) + 1 /\ toRobot'[Len(toRobot) + 1] = "stop"
    BY <2>1, Appended
  <2>3. toRobot' # <<>>
    BY <1>0, <2>2
  <2> QED
    BY <1>0, <1>1, <2>1, <2>2, <2>3 DEF LastWordIsStop
<1>3. CASE ReceiveCommand
  <2>1. UNCHANGED <<toRobot, slips>> /\ got' = got + 1 /\ vel' = VelocityFor(toRobot[got + 1])
        /\ got < Len(toRobot)
    BY <1>3 DEF ReceiveCommand
  <2>2. VelocityFor("stop") = Still
    BY DEF VelocityFor, Still
  <2>3. toRobot # <<>>
    BY <2>1, <1>0
  <2> QED
    BY <1>0, <1>1, <2>1, <2>2, <2>3 DEF LastWordIsStop
<1>4. CASE Acknowledge
  <2>1. got > 0 /\ toRobot' = Tail(toRobot) /\ got' = got - 1 /\ UNCHANGED <<vel, slips>>
    BY <1>4 DEF Acknowledge
  <2>2. toRobot # <<>> /\ toRobot \in Seq(Commands)
    <3>1. Len(toRobot) # 0
      BY <1>0, <2>1
    <3> QED
      BY <3>1 DEF TypeOK
  <2>3. /\ Len(toRobot') = Len(toRobot) - 1 /\ toRobot' \in Seq(Commands)
        /\ \A i \in 1..Len(toRobot') : toRobot'[i] = toRobot[i + 1]
    BY <2>1, <2>2, Taken
  <2>4. CASE toRobot' = <<>>
    <3>1. Len(toRobot') = 0
      BY <2>4
    <3>2. got = Len(toRobot)
      <4>1. Len(toRobot) = 1
        BY <1>0, <2>3, <3>1
      <4> QED
        BY <1>0, <2>1, <4>1
    <3> QED
      BY <1>1, <2>1, <2>2, <2>4, <3>2 DEF LastWordIsStop
  <2>5. CASE toRobot' # <<>>
    <3>1. Len(toRobot') \in Nat \ {0}
      BY <2>3, <2>5
    <3>2. toRobot'[Len(toRobot')] = toRobot[Len(toRobot)]
      <4>1. Len(toRobot') \in 1..Len(toRobot') /\ Len(toRobot') + 1 = Len(toRobot)
        BY <1>0, <2>3, <3>1
      <4> QED
        BY <2>3, <4>1
    <3> QED
      <4>1. got' = Len(toRobot') => got = Len(toRobot)
        <5>1. got' = got - 1 /\ Len(toRobot') = Len(toRobot) - 1
          BY <2>1, <2>3
        <5>2. got \in Nat /\ Len(toRobot) \in Nat
          BY <1>0
        <5> QED
          BY ONLY <5>1, <5>2
      <4> QED
        BY <1>1, <2>1, <2>2, <2>5, <3>2, <4>1 DEF LastWordIsStop
  <2> QED
    BY <2>4, <2>5
<1>5. CASE SendAgain
  <2>1. got' = 0 /\ UNCHANGED <<toRobot, vel, slips>>
    BY <1>5 DEF SendAgain
  <2>2. toRobot # <<>> => Len(toRobot) # 0
    BY DEF TypeOK
  <2> QED
    BY <1>1, <2>1, <2>2 DEF LastWordIsStop
<1>6. CASE Lose
  BY <1>6 DEF Lose, Promise
<1> QED
  BY <1>2, <1>3, <1>4, <1>5, <1>6

LEMMA NextKeepsPromise == TypeOK /\ TypeOK' /\ Gripped /\ Unaccepted /\ Promise /\ [Next]_vars => Promise'
<1> SUFFICES ASSUME TypeOK, TypeOK', Gripped, Unaccepted, Promise, [Next]_vars PROVE Promise'
  OBVIOUS
<1>1. CASE UNCHANGED vars \/ Lapse \/ PressStop
  BY <1>1, PromiseKept DEF vars, page, backend, road, Lapse, PressStop
<1>2. CASE Cut \/ PollFails
  BY <1>2, PromiseKept DEF Cut, PollFails, Promise, backend, road
<1> QED
  BY <1>1, <1>2, ConsoleKeepsPromise, HandlerKeepsPromise, RoadKeepsPromise DEF Next, World

LEMMA InvAlways == Spec => []Inv
<1>1. Inv /\ [Next]_vars => Inv'
  BY NextTyped, NextGripped, NextUnaccepted, NextKeepsPromise DEF Inv
<1> QED
  BY InitInv, <1>1, PTL DEF Spec
-----------------------------------------------------------------------------
\* Every reachable state is well typed, and a page that is not there has no
\* socket and no interval (useThrottledTeleop.ts:53-55).
THEOREM TypeCorrectness == Spec => []TypeOK
<1>1. Inv => TypeOK
  BY DEF Inv
<1> QED
  BY <1>1, InvAlways, PTL

\* A console that is not in control has no interval running, whatever ran when
\* control was lost (useKeyboardTeleop.ts:52-57, useThrottledTeleop.ts:26-55).
THEOREM OnlyInControl == Spec => []InControlOnly
<1>1. Inv => InControlOnly
  BY DEF Inv, TypeOK, Gripped, InControlOnly, Pending, Enabled
<1> QED
  BY <1>1, InvAlways, PTL

\* A robot whose driver holds neither key nor button, with no command on its way,
\* stands still, unless one of the slips kept a command from its place: "stop the
\* instant you release" (README.md:173).
THEOREM NobodyDrivesNothingMoves == Spec => []StoppedWhenQuiet
<1>1. ASSUME Inv PROVE StoppedWhenQuiet
  <2> SUFFICES ASSUME Quiet, active = None, slips = {} PROVE vel = Still
    BY <1>1 DEF StoppedWhenQuiet, Inv, Gripped
  <2>1. \A c \in Conns : ~StopComing(c)
    BY Empty, Strings DEF Quiet, StopComing
  <2>2. LastWordIsStop
    BY <1>1, <2>1 DEF Inv, Promise
  <2> QED
    BY <2>2 DEF Quiet, LastWordIsStop
<1> QED
  BY <1>1, InvAlways, PTL
-----------------------------------------------------------------------------
(* A "stop" that is not read yet is read in the end: every connection that    *)
(* has one is read by its handler.                                            *)

HasBye(q) == \E i \in 1..Len(q) : q[i] = "bye"
ByeIsLast(q) == \A i \in 1..Len(q) : q[i] = "bye" => i = Len(q)

\* The handler reads what comes, or publishes what it has read.
Hears(c) == handler[c] \in Commands \cup {"recv"}

\* Nothing comes after the end of a connection, nothing comes before its handler
\* is there, and no "stop" comes to a handler that does not read.
HeardAt(c) ==
    /\ ByeIsLast(up[c]) /\ (HasBye(up[c]) => ~Current(c))
    /\ handler[c] = "none" => up[c] = <<>> /\ ~Current(c)
    /\ Hears(c) \/ (~HasStop(up[c]) /\ ~(Current(c) /\ state = "connected"))

Heard == slips = {} => \A c \in Conns : HeardAt(c)

LEMMA EndAppended ==
  ASSUME NEW q \in Seq(Words), NEW e \in Words, ~HasBye(q)
  PROVE  /\ ByeIsLast(Append(q, e)) /\ (HasBye(Append(q, e)) => e = "bye")
         /\ HasStop(Append(q, e)) => HasStop(q) \/ e = "stop"
<1> DEFINE a == Append(q, e)
<1>1. /\ Len(q) \in Nat /\ Len(a) = Len(q) + 1 /\ a[Len(q) + 1] = e
      /\ \A i \in 1..Len(q) : a[i] = q[i]
      /\ \A i \in 1..Len(a) : i \in 1..Len(q) \/ i = Len(q) + 1
  BY Appended
<1> HIDE DEF a
<1>2. \A i \in 1..Len(a) : a[i] = "bye" => i = Len(a) /\ e = "bye"
  BY <1>1 DEF HasBye
<1>3. \A i \in 1..Len(a) : a[i] = "stop" => HasStop(q) \/ e = "stop"
  BY <1>1 DEF HasStop
<1> QED
  BY <1>2, <1>3 DEF ByeIsLast, HasBye, HasStop, a

LEMMA EndTaken ==
  ASSUME NEW q \in Seq(Words), q # <<>>, ByeIsLast(q)
  PROVE  /\ ByeIsLast(Tail(q)) /\ (HasBye(Tail(q)) => HasBye(q)) /\ (HasStop(Tail(q)) => HasStop(q))
         /\ Head(q) = "bye" => HasBye(q) /\ ~HasStop(Tail(q))
<1>1. /\ Len(q) \in Nat \ {0} /\ Len(Tail(q)) = Len(q) - 1 /\ Head(q) = q[1]
      /\ \A i \in 1..Len(Tail(q)) : Tail(q)[i] = q[i + 1]
  BY Taken
<1>2. ASSUME NEW i \in 1..Len(Tail(q))
      PROVE  i + 1 \in 1..Len(q) /\ (i + 1 = Len(q) => i = Len(Tail(q)))
  <2>1. Len(q) \in Nat /\ Len(Tail(q)) = Len(q) - 1
    BY <1>1
  <2> QED
    BY ONLY <1>2, <2>1
<1>3. ASSUME Head(q) = "bye" PROVE HasBye(q) /\ ~HasStop(Tail(q))
  <2>1. 1 \in 1..Len(q) /\ q[1] = "bye"
    BY <1>1, <1>3
  <2>2. Len(q) = 1
    BY <2>1 DEF ByeIsLast
  <2>3. Len(Tail(q)) = 0
    BY ONLY <1>1, <2>2
  <2>4. ASSUME NEW j \in 1..Len(Tail(q)) PROVE FALSE
    BY <2>3, j \in 1..0
  <2> QED
    BY <2>1, <2>4 DEF HasBye, HasStop
<1> QED
  BY <1>1, <1>2, <1>3 DEF ByeIsLast, HasBye, HasStop

LEMMA EndEmpty == ByeIsLast(<<>>) /\ ~HasBye(<<>>) /\ ~HasStop(<<>>)
  BY DEF ByeIsLast, HasBye, HasStop

\* A step of the page, which makes no connection current and appends at most one
\* word: the connection's end, or a command on a connection that is greeted.
LEMMA PageIsHeard ==
  ASSUME TypeOK, slips = {}, Heard, UNCHANGED handler, NEW e \in Words,
         \A c \in Conns : Current(c)' => Current(c),
         state' = "connected" => state = "connected",
         \/ up' = up
         \/ /\ ws = "open" /\ up' = [up EXCEPT ![conn] = Append(@, e)]
            /\ IF e = "bye" THEN ws' = "none" ELSE state = "connected"
  PROVE  Heard'
<1> SUFFICES ASSUME NEW c \in Conns PROVE HeardAt(c)'
  BY DEF Heard
<1>1. HeardAt(c) /\ up[c] \in Seq(Words) /\ (Current(c)' => Current(c))
  BY DEF Heard, TypeOK, Words
<1>2. Hears(c)' <=> Hears(c)
  BY DEF Hears
<1>3. CASE up'[c] = up[c]
  BY <1>1, <1>2, <1>3 DEF HeardAt
<1>4. CASE up'[c] # up[c]
  <2>1. /\ c = conn /\ ws = "open" /\ up'[c] = Append(up[c], e)
        /\ IF e = "bye" THEN ws' = "none" ELSE state = "connected"
    BY <1>4, ConnIsThere, QueueTyped
  <2>2. Current(c)
    BY <2>1 DEF Current
  <2>3. ~HasBye(up[c]) /\ handler[c] # "none"
    BY <1>1, <2>2 DEF HeardAt
  <2>4. /\ ByeIsLast(up'[c]) /\ (HasBye(up'[c]) => e = "bye")
        /\ HasStop(up'[c]) => HasStop(up[c]) \/ e = "stop"
    BY <1>1, <2>1, <2>3, EndAppended
  <2>5. e = "bye" => ~Current(c)'
    BY <2>1 DEF Current
  <2>6. e # "bye" => Hears(c)
    BY <1>1, <2>1, <2>2 DEF HeardAt
  <2>7. "stop" # "bye"
    OBVIOUS
  <2> QED
    BY <1>1, <1>2, <2>3, <2>4, <2>5, <2>6, <2>7 DEF HeardAt
<1> QED
  BY <1>3, <1>4

LEMMA ConsoleIsHeard ==
  ASSUME TypeOK, Gripped, slips = {}, slips' = {}, Heard, Console
  PROVE  Heard'
<1>0. UNCHANGED handler /\ Drives \subseteq Words /\ "stop" \in Words /\ "bye" \in Words
      /\ "bye" \notin Drives
  BY Strings DEF Console, TakeControl, ReleaseControl, Start, Tick, LetGo, LetGoUnheard, PollWorks, Commit, Unmount, Mount,
                 NotPage, backend
<1>1. CASE TakeControl \/ ReleaseControl \/ Mount \/ LetGoUnheard \/ PollWorks
  <2>1. UNCHANGED <<up, state, ws, conn>>
    BY <1>1 DEF TakeControl, ReleaseControl, Mount, LetGoUnheard, PollWorks
  <2> QED
    BY <1>0, <2>1, PageIsHeard DEF Current
<1>2. ASSUME NEW command \in Words, command # "bye", SendCommand(command), keys, UNCHANGED <<state, ws, conn>>
      PROVE  Heard'
  <2>1. state = "connected"
    BY <1>2 DEF Gripped
  <2> QED
    BY <1>0, <1>2, <2>1, PageIsHeard DEF Current, SendCommand
<1>3. ASSUME NEW command \in Drives, Start(command) PROVE Heard'
  BY <1>0, <1>2, <1>3 DEF Start
<1>4. CASE Tick
  <2>1. active \in Drives /\ keys
    BY <1>4 DEF Tick, TypeOK, Gripped
  <2> QED
    BY <1>0, <1>2, <1>4, <2>1 DEF Tick, page
<1>5. CASE LetGo
  BY <1>0, <1>2, <1>5 DEF LetGo
<1>6. CASE Unmount
  <2>1. ws' = "none" /\ state' = "idle" /\ \A c \in Conns : ~Current(c)'
    BY <1>6 DEF Unmount, Current
  <2>2. up' = up \/ (ws = "open" /\ up' = [up EXCEPT ![conn] = Append(@, "bye")])
    BY <1>6 DEF Unmount
  <2> QED
    BY <1>0, <2>1, <2>2, PageIsHeard
<1>7. CASE Commit
  <2>1. CASE held # want
    <3>1. /\ ws' \in {"opening", "none"} /\ (~want => ws' = "none")
          /\ state' \in {"connecting", "idle"}
      BY <1>7, <2>1 DEF Commit
    <3>2. \A c \in Conns : ~Current(c)'
      BY <3>1 DEF Current
    <3>3. up' = up \/ (ws = "open" /\ up' = [up EXCEPT ![conn] = Append(@, "bye")] /\ ws' = "none")
      <4>1. CASE held /\ ~want
        BY <1>7, <3>1, <4>1 DEF Commit
      <4>2. CASE ~held /\ want
        <5>1. ~keys
          BY <4>2 DEF Gripped
        <5> QED
          BY <1>7, <4>2, <5>1 DEF Commit
      <4> QED
        BY <2>1, <4>1, <4>2 DEF TypeOK
    <3> QED
      BY <1>0, <3>1, <3>2, <3>3, PageIsHeard
  <2>2. CASE held = want
    <3>1. UNCHANGED <<ws, state>> /\ conn' = conn
      BY <1>7, <2>2 DEF Commit
    <3>2. up' = up \/ (ws = "open" /\ keys /\ up' = [up EXCEPT ![conn] = Append(@, "stop")])
      BY <1>7, <2>2 DEF Commit
    <3>3. keys => state = "connected"
      BY DEF Gripped
    <3> QED
      BY <1>0, <3>1, <3>2, <3>3, PageIsHeard DEF Current
  <2> QED
    BY <2>1, <2>2
<1> QED
  BY <1>1, <1>3, <1>4, <1>5, <1>6, <1>7 DEF Console

LEMMA HandlerIsHeard ==
  ASSUME TypeOK, Gripped, Unaccepted, slips = {}, slips' = {}, Heard, NEW c \in Conns, Handle(c)
  PROVE  Heard'
<1>0. /\ conn' = conn
      /\ handler \in [Conns -> Commands \cup {"none", "acquire", "greet", "recv", "leave", "done"}]
      /\ up \in [Conns -> Seq(Words)] /\ \A d \in Conns : HeardAt(d)
  BY DEF Handle, Accept, Acquire, Greet, Receive, Publish, Leave, NotBackend, TypeOK, Words, Heard
\* What the other connections and the page see.
<1>1. ASSUME \A d \in Conns \ {c} : handler'[d] = handler[d] /\ up'[d] = up[d],
             \A d \in Conns \ {c} : Current(d)' => Current(d),
             (state' = "connected" => state = "connected") \/ c = conn,
             HeardAt(c)'
      PROVE  Heard'
  <2>1. ASSUME NEW d \in Conns \ {c} PROVE HeardAt(d)'
    <3>1. state' = "connected" /\ Current(d)' => state = "connected"
      BY <1>0, <1>1 DEF Current
    <3> QED
      BY <1>0, <1>1, <3>1 DEF HeardAt, Hears
  <2> QED
    BY <1>1, <2>1 DEF Heard
<1>2. CASE Accept(c)
  <2>1. /\ c = conn /\ ws = "opening" /\ handler' = [handler EXCEPT ![c] = "acquire"]
        /\ UNCHANGED <<up, state>>
    BY <1>2 DEF Accept, NotBackend, Goto
  <2>2. handler[c] = "none" /\ state # "connected"
    BY <2>1 DEF Unaccepted, Gripped
  <2>3. up'[c] = <<>> /\ handler'[c] = "acquire" /\ state' # "connected"
    BY <1>0, <2>1, <2>2 DEF HeardAt
  <2>4. \A d \in Conns \ {c} : ~Current(d)'
    BY <1>0, <2>1 DEF Current
  <2>5. HeardAt(c)'
    BY <2>3, EndEmpty DEF HeardAt
  <2> QED
    BY <1>0, <1>1, <2>1, <2>4, <2>5
<1>3. CASE Acquire(c)
  <2>1. /\ handler[c] = "acquire" /\ up' = up
        /\ \E place \in {"greet", "done"} : handler' = [handler EXCEPT ![c] = place]
        /\ ws' \in {ws, "none"} /\ state' \in {state, "closed"}
    BY <1>3 DEF Acquire, Goto
  <2>2. handler'[c] \in {"greet", "done"} /\ ~Hears(c) /\ \A d \in Conns : Current(d)' => Current(d)
    BY <1>0, <2>1, Strings DEF Current, Hears, Commands
  <2>3. HeardAt(c)'
    BY <1>0, <2>1, <2>2 DEF HeardAt
  <2> QED
    BY <1>0, <1>1, <2>1, <2>2, <2>3
<1>4. CASE Greet(c)
  <2>1. /\ handler[c] = "greet" /\ UNCHANGED <<up, ws>>
        /\ \E place \in {"recv", "done"} :
              /\ handler' = [handler EXCEPT ![c] = place]
              /\ IF Current(c) THEN place = "recv" ELSE state' = state
    BY <1>4 DEF Greet, Goto
  <2>2. \A d \in Conns : Current(d)' <=> Current(d)
    BY <1>0, <2>1 DEF Current
  <2>3. /\ ~Hears(c) /\ handler'[c] \in {"recv", "done"}
        /\ Current(c) => handler'[c] = "recv"
        /\ ~Current(c) => state' = state
    BY <1>0, <2>1, Strings DEF Hears, Commands
  <2>4. HeardAt(c)'
    BY <1>0, <2>1, <2>2, <2>3 DEF HeardAt, Hears
  <2>5. (state' = "connected" => state = "connected") \/ c = conn
    BY <2>3 DEF Current
  <2> QED
    BY <1>0, <1>1, <2>1, <2>2, <2>4, <2>5
\* An answer after which the handler reads on, or there is nothing more to read.
<1>5. ASSUME NEW rest \in Seq(Words), Answer(c, rest), UNCHANGED <<state, ws>>, Hears(c),
             ByeIsLast(rest), HasBye(rest) => HasBye(up[c])
      PROVE  Heard'
  <2>1. /\ handler'[c] \in {"recv", "leave"}
        /\ \/ up'[c] = rest /\ (handler'[c] = "recv" \/ ~Current(c))
           \/ up'[c] = <<>> /\ ~Current(c) /\ handler'[c] = "leave"
        /\ up'[c] = rest /\ handler'[c] = "leave" => ~HasStop(up'[c])
        /\ \A d \in Conns \ {c} : handler'[d] = handler[d] /\ up'[d] = up[d]
    <3>1. ~HasStop(<<>>)
      BY EndEmpty
    <3> QED
      BY <1>0, <1>5, <3>1, AnswerKept DEF Answer, Goto
  <2>2. \A d \in Conns : Current(d)' <=> Current(d)
    BY <1>0, <1>5 DEF Current
  <2>3. handler'[c] # "none" /\ (handler'[c] = "recv" => Hears(c)')
    BY <2>1 DEF Hears
  <2>4. HeardAt(c)'
    BY <1>0, <1>5, <2>1, <2>2, <2>3, EndEmpty DEF HeardAt
  <2> QED
    BY <1>0, <1>1, <1>5, <2>1, <2>2, <2>4
<1>6. CASE Receive(c)
  <2> DEFINE command == Head(up[c])
  <2>1. /\ handler[c] = "recv" /\ up[c] # <<>> /\ up[c] \in Seq(Words) /\ command \in Words
        /\ Tail(up[c]) \in Seq(Words)
    BY <1>0, <1>6, Taken DEF Receive
  <2>2. /\ ByeIsLast(Tail(up[c])) /\ (HasBye(Tail(up[c])) => HasBye(up[c]))
        /\ HasStop(Tail(up[c])) => HasStop(up[c])
        /\ command = "bye" => HasBye(up[c]) /\ ~HasStop(Tail(up[c]))
    BY <1>0, <2>1, EndTaken DEF HeardAt
  <2>3. ASSUME NEW place, Take(c, place),
               (place = "leave" /\ command = "bye") \/ (place = command /\ command \in Commands)
        PROVE  Heard'
    <3>1. /\ up'[c] = Tail(up[c]) /\ handler'[c] = place /\ UNCHANGED <<state, ws>>
          /\ \A d \in Conns \ {c} : handler'[d] = handler[d] /\ up'[d] = up[d]
      BY <1>0, <2>3 DEF Take, Goto
    <3>2. \A d \in Conns : Current(d)' <=> Current(d)
      BY <1>0, <3>1 DEF Current
    <3>3. handler'[c] # "none" /\ (command # "bye" => Hears(c)')
      BY <2>3, <3>1, Strings DEF Hears, Commands
    <3>4. HeardAt(c)'
      BY <1>0, <2>2, <3>1, <3>2, <3>3 DEF HeardAt
    <3> QED
      BY <1>0, <1>1, <3>1, <3>2, <3>4
  <2>4. ASSUME Answer(c, Tail(up[c])), UNCHANGED <<state, ws>> PROVE Heard'
    BY <1>5, <2>1, <2>2, <2>4 DEF Hears
  <2>5. \/ \E place : /\ Take(c, place)
                      /\ (place = "leave" /\ command = "bye") \/ (place = command /\ command \in Commands)
        \/ Answer(c, Tail(up[c])) /\ UNCHANGED <<state, ws>>
    BY <1>6 DEF Receive
  <2> QED
    BY <2>3, <2>4, <2>5
<1>7. CASE Publish(c)
  <2>1. Answer(c, up[c]) /\ UNCHANGED <<state, ws>> /\ Hears(c)
    BY <1>7 DEF Publish, Hears, Commands
  <2>2. up[c] \in Seq(Words) /\ ByeIsLast(up[c])
    BY <1>0 DEF HeardAt
  <2> QED
    BY <1>5, <2>1, <2>2
<1>8. CASE Leave(c)
  <2>1. /\ UNCHANGED <<up, state, ws>> /\ handler[c] = "leave" /\ ~Hears(c)
        /\ handler' = [handler EXCEPT ![c] = "done"]
    BY <1>8, Strings DEF Leave, NotBackend, Goto, Hears, Commands
  <2>2. \A d \in Conns : Current(d)' <=> Current(d)
    BY <1>0, <2>1 DEF Current
  <2>3. HeardAt(c)'
    BY <1>0, <2>1, <2>2 DEF HeardAt, Hears
  <2> QED
    BY <1>0, <1>1, <2>1, <2>2, <2>3
<1> QED
  BY <1>2, <1>3, <1>4, <1>6, <1>7, <1>8 DEF Handle

LEMMA NextKeepsHeard == Inv /\ Heard /\ [Next]_vars => Heard'
<1> SUFFICES ASSUME Inv, Heard, [Next]_vars, slips' = {} PROVE Heard'
  BY DEF Heard
<1>1. slips \subseteq slips'
  <2>1. CASE UNCHANGED vars \/ World \/ SendStop \/ ReceiveCommand \/ Acknowledge
    BY <2>1 DEF vars, World, PollFails, Cut, Lapse, PressStop, SendStop, ReceiveCommand, Acknowledge,
                SendAgain, Lose
  <2>2. CASE Console
    BY <2>2 DEF Console, TakeControl, ReleaseControl, Start, Tick, LetGo, LetGoUnheard, PollWorks, Commit,
                Unmount, Mount
  <2>3. ASSUME NEW c \in Conns, Handle(c) PROVE slips \subseteq slips'
    BY <2>3 DEF Handle, Accept, Acquire, Greet, Receive, Take, Answer, Publish, Leave, Smooth
  <2> QED
    BY <2>1, <2>2, <2>3 DEF Next
<1>2. CASE Cut
  BY <1>2 DEF Cut
<1>3. CASE \/ UNCHANGED vars \/ PollFails \/ Lapse \/ PressStop \/ SendAgain \/ Lose
           \/ SendStop \/ ReceiveCommand \/ Acknowledge
  <2>1. UNCHANGED <<conn, ws, state, up, handler>>
    BY <1>3 DEF vars, PollFails, Lapse, PressStop, SendAgain, Lose, SendStop, ReceiveCommand, Acknowledge,
                NotRoad, page, backend
  <2> QED
    BY <1>1, <2>1 DEF Heard, HeardAt, Hears, Current
<1>4. CASE Console
  BY <1>1, <1>4, ConsoleIsHeard DEF Inv
<1>5. ASSUME NEW c \in Conns, Handle(c) PROVE Heard'
  BY <1>1, <1>5, HandlerIsHeard DEF Inv
<1> QED
  BY <1>2, <1>3, <1>4, <1>5 DEF Next, World

\* A "stop" the robot has yet to be given, or one that a handler has in its hand
\* or will read.
StopAhead ==
    \/ \E j \in (got + 1)..Len(toRobot) : toRobot[j] = "stop"
    \/ \E c \in Conns : Hears(c) /\ StopComing(c)

\* When the driver holds nothing, the robot stands still or its "stop" is on its
\* way, in the hands of somebody who delivers it: no handler has closed before it,
\* none is still waiting for its session, and no session has to be live for it.
\* That it arrives is ReleaseStops (ws/teleop.py:36-70, useThrottledTeleop.ts:32-55).
THEOREM StopIsOnItsWay == Spec => [](grip = "none" /\ slips = {} => vel = Still \/ StopAhead)
<1>1. Init => Heard
  <2>1. ASSUME Init, NEW c \in Conns PROVE up[c] = <<>> /\ handler[c] = "none" /\ ws = "none"
    BY <2>1 DEF Init
  <2>2. ASSUME Init PROVE Heard
    BY <2>2, <2>1, EndEmpty DEF Heard, HeardAt, Current
  <2> QED
    BY <2>2
<1>2. Inv /\ Heard => (grip = "none" /\ slips = {} => vel = Still \/ StopAhead)
  <2> SUFFICES ASSUME Inv, Heard, active = None, slips = {}, vel # Still PROVE StopAhead
    BY DEF Inv, Gripped
  <2>1. CASE LastWordIsStop
    <3>1. /\ toRobot # <<>> /\ toRobot[Len(toRobot)] = "stop" /\ got # Len(toRobot)
          /\ toRobot \in Seq(Commands) /\ got \in 0..Len(toRobot)
      BY <2>1 DEF LastWordIsStop, Inv, TypeOK
    <3>2. Len(toRobot) \in (got + 1)..Len(toRobot)
      BY <3>1
    <3> QED
      BY <3>1, <3>2 DEF StopAhead
  <2>2. ASSUME NEW c \in Conns, StopComing(c) PROVE StopAhead
    <3>1. Hears(c)
      BY <2>2 DEF StopComing, Heard, HeardAt, Hears, Commands
    <3> QED
      BY <2>2, <3>1 DEF StopAhead
  <2> QED
    BY <2>1, <2>2 DEF Inv, Promise
<1> QED
  BY <1>1, <1>2, NextKeepsHeard, InvAlways, PTL DEF Spec
=============================================================================
