--------------------------- MODULE RosBridgeProofs ---------------------------
(***************************************************************************)
(* No fake and no old picture, for any sensors, queues and reopening time, *)
(* and however often cameras come and go.                                  *)
(***************************************************************************)
EXTENDS RosBridge, TLAPS

\* The part of the types that is not about queues.
ScalarsTyped ==
    /\ fallback \in BOOLEAN /\ plugged \in BOOLEAN
    /\ cap \in {"none", "open", "stale"} /\ since \in 0..(Reopen + 1) /\ stamp \in 0..1
    /\ handles = (IF cap = "none" THEN 0 ELSE 1)
    /\ cap = "open" => plugged
    /\ world \in [Sensors -> Values]
    /\ hand \in Frames \cup {None} /\ spin \in {"alive", "dead"}
    /\ latest \in [Sensors -> Values \cup {None}] /\ sent \in [Sensors -> Values \cup {None}]
    /\ phase \in {"bridge", "agent", "closing", "deaf", "draining", "done"}

\* A queue of its topic is well typed and within its depth.
Held(t, q) ==
    /\ Len(q) <= Depth[t]
    /\ IF t = "camera" THEN q \in Seq(Frames) ELSE q \in Seq(Values)

QueueTyped == DOMAIN queue = Topics /\ \A t \in Topics : Held(t, queue[t])

\* What NoFakeVideo says, of that frame.
NoFake ==
    /\ ~fallback => /\ queue["camera"] # <<>> => queue["camera"][1].real
                    /\ hand # None => hand.real
    /\ cap = "open" /\ queue["camera"] # <<>> => queue["camera"][1].real

\* The frame that waits is the last one published.
Newest == queue["camera"] # <<>> => queue["camera"][1].stamp = stamp

Frame == NoFake /\ Newest
Inv == ScalarsTyped /\ QueueTyped /\ Frame
-----------------------------------------------------------------------------
LEMMA AtMostOne == \A n \in Nat : n <= 1 => n = 0 \/ n = 1
  OBVIOUS

LEMMA OneIndex == \A n : n = 1 => 1..n = {1}
  OBVIOUS

LEMMA EmptyIsShort == \A s : s = <<>> => Len(s) # 1
  OBVIOUS

LEMMA OneLess == \A m, n \in Nat : n <= 1 /\ m = n - 1 => m = 0
  OBVIOUS

\* KEEP_LAST keeps the bound and loses nothing but the oldest.
LEMMA KeptLast ==
  ASSUME NEW S, NEW q \in Seq(S), NEW m \in S, NEW d \in Nat \ {0}, Len(q) <= d,
         NEW p, p = IF Len(Append(q, m)) > d THEN Tail(Append(q, m)) ELSE Append(q, m)
  PROVE  /\ p \in Seq(S) /\ Len(p) <= d
         /\ d = 1 => Len(p) = 1 /\ p[1] = m
<1> DEFINE a == Append(q, m)
<1>1. /\ a \in Seq(S) /\ Len(q) \in Nat /\ Len(a) = Len(q) + 1 /\ a[Len(q) + 1] = m
  OBVIOUS
<1>2. CASE Len(a) > d
  <2>1. p = Tail(a) /\ Tail(a) \in Seq(S) /\ Len(Tail(a)) = Len(a) - 1
    BY <1>1, <1>2
  <2>2. ASSUME d = 1 PROVE Len(q) = 1 /\ Tail(a)[1] = a[2]
    <3>1. Len(q) = 1 /\ Len(a) = 2
      <4>1. Len(q) <= 1 /\ Len(q) # 0
        BY <1>1, <1>2, <2>2
      <4>2. Len(q) = 1
        BY <1>1, <4>1, AtMostOne
      <4> QED
        BY <1>1, <4>2
    <3>2. Len(Tail(a)) = 1 /\ Tail(a)[1] = a[1 + 1]
      BY <1>1, <2>1, <3>1
    <3> QED
      BY <3>1, <3>2
  <2> HIDE DEF a
  <2> QED
    BY <1>1, <1>2, <2>1, <2>2
<1>3. CASE ~(Len(a) > d)
  <2>1. p = a
    BY <1>3
  <2> HIDE DEF a
  <2> QED
    BY <1>1, <1>3, <2>1
<1> QED
  BY <1>2, <1>3

LEMMA Taken ==
  ASSUME NEW S, NEW q \in Seq(S), q # <<>>
  PROVE  /\ Head(q) = q[1] /\ Head(q) \in S /\ 1 \in 1..Len(q)
         /\ Tail(q) \in Seq(S) /\ Len(q) \in Nat /\ Len(Tail(q)) = Len(q) - 1
<1>1. Len(q) \in Nat \ {0} /\ Tail(q) \in Seq(S) /\ Len(Tail(q)) = Len(q) - 1
  OBVIOUS
<1> QED
  BY <1>1

LEMMA PublishKeepsQueues ==
  ASSUME QueueTyped, NEW t \in Topics, NEW m,
         IF t = "camera" THEN m \in Frames ELSE m \in Values,
         Publish(t, m)
  PROVE  /\ QueueTyped' /\ \A u \in Topics \ {t} : queue'[u] = queue[u]
         /\ t = "camera" => Len(queue'[t]) = 1 /\ queue'[t][1] = m
<1> DEFINE q == queue[t]
           p == IF Len(Append(q, m)) > Depth[t] THEN Tail(Append(q, m)) ELSE Append(q, m)
<1>1. queue' = [queue EXCEPT ![t] = p]
  BY DEF Publish
<1>2. DOMAIN queue' = Topics /\ queue'[t] = p /\ \A u \in Topics \ {t} : queue'[u] = queue[u]
  BY <1>1 DEF QueueTyped
<1>3. Depth[t] \in Nat \ {0} /\ (t = "camera" => Depth[t] = 1) /\ Len(q) <= Depth[t]
  BY DepthAssumption DEF QueueTyped, Held
<1>4. Held(t, p) /\ (t = "camera" => Len(p) = 1 /\ p[1] = m)
  <2>1. CASE t = "camera"
    <3>1. q \in Seq(Frames) /\ m \in Frames
      BY <2>1 DEF QueueTyped, Held
    <3> QED
      BY <1>3, <2>1, <3>1, KeptLast DEF Held
  <2>2. CASE t # "camera"
    <3>1. q \in Seq(Values) /\ m \in Values
      BY <2>2 DEF QueueTyped, Held
    <3> QED
      BY <1>3, <2>2, <3>1, KeptLast DEF Held
  <2> QED
    BY <2>1, <2>2
<1> HIDE DEF p
<1> QED
  BY <1>2, <1>4 DEF QueueTyped

LEMMA PopKeepsQueues ==
  ASSUME QueueTyped, NEW t \in Topics, queue[t] # <<>>, Pop(t)
  PROVE  /\ QueueTyped' /\ (\A u \in Topics \ {t} : queue'[u] = queue[u])
         /\ t = "camera" => queue'[t] = <<>> /\ Head(queue[t]) = queue[t][1] /\ queue[t][1] \in Frames
         /\ t # "camera" => Head(queue[t]) \in Values
<1>1. DOMAIN queue' = Topics /\ queue'[t] = Tail(queue[t])
      /\ \A u \in Topics \ {t} : queue'[u] = queue[u]
  BY DEF Pop, QueueTyped
<1>2. Depth[t] \in Nat \ {0} /\ (t = "camera" => Depth[t] = 1) /\ Len(queue[t]) <= Depth[t]
  BY DepthAssumption DEF QueueTyped, Held
<1>3. CASE t = "camera"
  <2>1. queue[t] \in Seq(Frames)
    BY <1>3 DEF QueueTyped, Held
  <2>2. /\ Tail(queue[t]) \in Seq(Frames) /\ Len(Tail(queue[t])) = Len(queue[t]) - 1
        /\ Len(queue[t]) \in Nat /\ Head(queue[t]) = queue[t][1] /\ Head(queue[t]) \in Frames
    BY <2>1, Taken
  <2>3. Tail(queue[t]) = <<>>
    <3>1. PICK r \in Seq(Frames) : r = Tail(queue[t])
      BY <2>2
    <3>2. Len(r) \in Nat /\ Len(queue[t]) \in Nat /\ Len(queue[t]) <= 1 /\ Len(r) = Len(queue[t]) - 1
      BY <1>2, <1>3, <2>2, <3>1
    <3>3. Len(r) = 0
      BY <3>2, OneLess
    <3>4. r = <<>>
      BY <3>3
    <3> QED
      BY <3>1, <3>4
  <2> QED
    BY <1>1, <1>2, <1>3, <2>2, <2>3 DEF QueueTyped, Held
<1>4. CASE t # "camera"
  <2>1. queue[t] \in Seq(Values)
    BY <1>4 DEF QueueTyped, Held
  <2>2. /\ Tail(queue[t]) \in Seq(Values) /\ Len(Tail(queue[t])) = Len(queue[t]) - 1
        /\ Len(queue[t]) \in Nat /\ Head(queue[t]) \in Values
    BY <2>1, Taken
  <2> QED
    BY <1>1, <1>2, <1>4, <2>2 DEF QueueTyped, Held
<1> QED
  BY <1>3, <1>4
-----------------------------------------------------------------------------
\* A frame is published in place of the one that waits.
LEMMA PublishKeepsFrame ==
  ASSUME ScalarsTyped, QueueTyped, Frame, NEW real \in BOOLEAN, PublishFrame(real),
         UNCHANGED <<fallback, hand>>, ~fallback => real, cap' = "open" => real
  PROVE  QueueTyped' /\ Frame' /\ stamp' \in 0..1
<1>1. stamp' = 1 - stamp /\ stamp' \in 0..1 /\ Publish("camera", [real |-> real, stamp |-> stamp'])
  BY DEF PublishFrame, ScalarsTyped
<1>2. PICK m \in Frames : m = [real |-> real, stamp |-> stamp']
  BY <1>1 DEF Frames
<1>3. "camera" \in Topics /\ Publish("camera", m)
  BY <1>1, <1>2 DEF Topics
<1>4. QueueTyped' /\ queue'["camera"][1] = m
  BY <1>3, PublishKeepsQueues
<1> QED
  BY <1>1, <1>2, <1>4 DEF Frame, NoFake, Newest

LEMMA DriverKeepsInv == ASSUME Inv, OnTimer PROVE Inv'
<1>0. /\ ScalarsTyped /\ QueueTyped /\ Frame
      /\ UNCHANGED <<fallback, plugged, world, hand, spin, latest, sent, phase>>
  BY DEF Inv, OnTimer, NoCamera, Open, Read, ReadFails, NotDriver, simulator, agent
<1> DEFINE Device == /\ since' \in 0..(Reopen + 1) /\ handles' = (IF cap' = "none" THEN 0 ELSE 1)
                     /\ cap' \in {"none", "open", "stale"} /\ (cap' = "open" => plugged)
           Picture == QueueTyped' /\ Frame' /\ stamp' \in 0..1
<1>1. ASSUME NoFrame, cap' = "open" => cap = "open" PROVE Picture
  BY <1>0, <1>1 DEF NoFrame, QueueTyped, Frame, NoFake, Newest, ScalarsTyped
<1>2. CASE NoCamera
  <2>1. Device
    BY <1>0, <1>2, ReopenAssumption DEF NoCamera, ScalarsTyped
  <2>2. cap' # "open" /\ (NoFrame \/ (fallback /\ PublishFrame(FALSE)))
    BY <1>2 DEF NoCamera
  <2>3. Picture
    BY <1>0, <1>1, <2>2, PublishKeepsFrame
  <2> QED
    BY <1>0, <2>1, <2>3 DEF Inv, ScalarsTyped
<1>3. CASE Open \/ Read
  <2>1. Device
    <3>1. CASE Open
      <4>1. cap = "none" /\ cap' = "open" /\ plugged /\ handles' = handles + 1 /\ since' = 0
        BY <3>1 DEF Open
      <4>2. handles = 0
        BY <1>0, <4>1 DEF ScalarsTyped
      <4> QED
        BY <4>1, <4>2, ReopenAssumption
    <3>2. CASE Read
      BY <1>0, <3>2 DEF Read, ScalarsTyped
    <3> QED
      BY <1>3, <3>1, <3>2
  <2>2. PublishFrame(TRUE)
    BY <1>3 DEF Open, Read
  <2>3. Picture
    BY <1>0, <2>2, PublishKeepsFrame
  <2> QED
    BY <1>0, <2>1, <2>3 DEF Inv, ScalarsTyped
<1>4. CASE ReadFails
  <2>1. Device
    BY <1>0, <1>4 DEF ReadFails, ScalarsTyped
  <2>2. Picture
    BY <1>1, <1>4 DEF ReadFails
  <2> QED
    BY <1>0, <2>1, <2>2 DEF Inv, ScalarsTyped
<1> QED
  BY <1>2, <1>3, <1>4 DEF OnTimer

LEMMA ExecutorKeepsInv == ASSUME Inv, Executor PROVE Inv'
<1>0. ScalarsTyped /\ QueueTyped /\ Frame
  BY DEF Inv
<1>1. CASE TakeFrame
  <2>1. /\ queue["camera"] # <<>> /\ Pop("camera") /\ "camera" \in Topics
        /\ UNCHANGED <<driver, simulator, spin, agent, phase>>
        /\ hand' = Head(queue["camera"]) \/ hand' = None
    BY <1>1 DEF TakeFrame, Topics
  <2>2. /\ QueueTyped' /\ queue'["camera"] = <<>> /\ queue["camera"][1] \in Frames
        /\ Head(queue["camera"]) = queue["camera"][1]
    BY <1>0, <2>1, PopKeepsQueues
  <2>3. ScalarsTyped'
    BY <1>0, <2>1, <2>2 DEF ScalarsTyped, driver, simulator, agent
  <2>4. Frame'
    BY <1>0, <2>1, <2>2 DEF Frame, NoFake, Newest, driver
  <2> QED
    BY <2>2, <2>3, <2>4 DEF Inv
<1>2. CASE Pushed \/ PushFails
  BY <1>0, <1>2 DEF Inv, Pushed, PushFails, Frame, NoFake, Newest, ScalarsTyped, QueueTyped, driver,
                           simulator, agent
<1>3. ASSUME NEW s \in Sensors, TakeSample(s) PROVE Inv'
  <2>1. /\ queue[s] # <<>> /\ Pop(s) /\ s \in Topics /\ s # "camera" /\ "camera" \in Topics
        /\ UNCHANGED <<driver, simulator, hand, spin, sent, phase>>
        /\ latest' = latest \/ latest' = [latest EXCEPT ![s] = Head(queue[s])]
    BY <1>3, SensorsAssumption DEF TakeSample, Topics
  <2>2. QueueTyped' /\ queue'["camera"] = queue["camera"] /\ Head(queue[s]) \in Values
    BY <1>0, <2>1, PopKeepsQueues
  <2>3. ScalarsTyped'
    BY <1>0, <2>1, <2>2 DEF ScalarsTyped, driver, simulator
  <2>4. Frame'
    BY <1>0, <2>1, <2>2 DEF Frame, NoFake, Newest, driver
  <2> QED
    BY <2>2, <2>3, <2>4 DEF Inv
<1> QED
  BY <1>1, <1>2, <1>3 DEF Executor

LEMMA NextKeepsInv == Inv /\ [Next]_vars => Inv'
<1> SUFFICES ASSUME Inv, [Next]_vars PROVE Inv'
  OBVIOUS
<1>0. ScalarsTyped /\ QueueTyped /\ Frame
  BY DEF Inv
<1> USE DEF driver, simulator, agent
<1>1. CASE UNCHANGED vars
  BY <1>0, <1>1 DEF Inv, vars, ScalarsTyped, QueueTyped, Frame, NoFake, Newest
<1>2. CASE Plug \/ Unplug \/ Glitch \/ Tick
  <2>1. UNCHANGED <<fallback, stamp, queue, hand>> /\ (cap' = "open" => cap = "open")
    BY <1>2 DEF Plug, Unplug, Glitch, Tick
  <2>2. Frame' /\ QueueTyped'
    BY <1>0, <2>1 DEF Frame, NoFake, Newest, QueueTyped
  <2>3. ScalarsTyped'
    <3>1. CASE Tick
      <4>1. since' \in 0..(Reopen + 1)
        BY <1>0, <3>1, ReopenAssumption DEF Tick, ScalarsTyped
      <4> QED
        BY <1>0, <3>1, <4>1 DEF Tick, ScalarsTyped
    <3>2. CASE Plug
      BY <1>0, <3>2 DEF Plug, ScalarsTyped
    <3>3. CASE Unplug
      BY <1>0, <3>3 DEF Unplug, ScalarsTyped
    <3>4. CASE Glitch
      BY <1>0, <3>4 DEF Glitch, ScalarsTyped
    <3> QED
      BY <1>2, <3>1, <3>2, <3>3, <3>4
  <2> QED
    BY <2>2, <2>3 DEF Inv
<1>3. ASSUME NEW s \in Sensors, Change(s) \/ Report(s) PROVE Inv'
  <2>1. UNCHANGED <<fallback, cap, stamp, queue, hand>>
    BY <1>3 DEF Change, Report
  <2>2. Frame' /\ QueueTyped'
    BY <1>0, <2>1 DEF Frame, NoFake, Newest, QueueTyped
  <2>3. ScalarsTyped'
    BY <1>0, <1>3 DEF Change, Report, ScalarsTyped
  <2> QED
    BY <2>2, <2>3 DEF Inv
<1>4. ASSUME NEW s \in Sensors, Measure(s) PROVE Inv'
  <2>1. /\ Publish(s, world[s]) /\ s \in Topics /\ s # "camera" /\ "camera" \in Topics
        /\ world[s] \in Values /\ UNCHANGED <<driver, simulator, hand, spin, agent, phase>>
    BY <1>0, <1>4, SensorsAssumption DEF Measure, Topics, ScalarsTyped
  <2>2. QueueTyped' /\ queue'["camera"] = queue["camera"]
    BY <1>0, <2>1, PublishKeepsQueues
  <2>3. Frame'
    BY <1>0, <2>1, <2>2 DEF Frame, NoFake, Newest
  <2>4. ScalarsTyped'
    BY <1>0, <2>1 DEF ScalarsTyped
  <2> QED
    BY <2>2, <2>3, <2>4 DEF Inv
<1>5. CASE Main
  <2>1. UNCHANGED <<driver, simulator, queue, hand, spin, agent>>
        /\ phase' \in {"agent", "closing", "deaf", "draining", "done"}
    BY <1>5 DEF Main, Shutdown, Subscribe, Stop, StopVideo, StopExecutor, Stopped, Advance
  <2>2. Frame' /\ QueueTyped'
    BY <1>0, <2>1 DEF Frame, NoFake, Newest, QueueTyped
  <2>3. ScalarsTyped'
    BY <1>0, <2>1 DEF ScalarsTyped
  <2> QED
    BY <2>2, <2>3 DEF Inv
<1> QED
  BY <1>1, <1>2, <1>3, <1>4, <1>5, DriverKeepsInv, ExecutorKeepsInv DEF Next, Camera

LEMMA InitInv == Init => Inv
<1> SUFFICES ASSUME Init PROVE Inv
  OBVIOUS
<1>1. ScalarsTyped
  BY ReopenAssumption DEF Init, ScalarsTyped
<1>2. \A t \in Topics : queue[t] = <<>> /\ Held(t, queue[t])
  BY DepthAssumption DEF Init, Held
<1>3. QueueTyped
  BY <1>2 DEF Init, QueueTyped
<1>4. Frame
  BY <1>2 DEF Init, Frame, NoFake, Newest, Topics
<1> QED
  BY <1>1, <1>3, <1>4 DEF Inv

LEMMA InvAlways == Spec => []Inv
<1> QED
  BY InitInv, NextKeepsInv, PTL DEF Spec

\* At most one frame waits, and it is the first.
LEMMA OneFrame ==
  ASSUME QueueTyped
  PROVE  /\ queue["camera"] \in Seq(Frames) /\ Len(queue["camera"]) \in {0, 1}
         /\ {queue["camera"][i] : i \in 1..Len(queue["camera"])}
               = IF queue["camera"] = <<>> THEN {} ELSE {queue["camera"][1]}
<1>1. queue["camera"] \in Seq(Frames) /\ Len(queue["camera"]) \in Nat /\ Len(queue["camera"]) <= 1
  BY DepthAssumption DEF QueueTyped, Held, Topics
<1>2. Len(queue["camera"]) \in {0, 1}
  BY <1>1, AtMostOne
<1>3. CASE Len(queue["camera"]) = 0
  <2>1. queue["camera"] = <<>> /\ 1..Len(queue["camera"]) = {}
    BY <1>1, <1>3
  <2> QED
    BY <1>1, <1>3, <2>1
<1>4. CASE Len(queue["camera"]) = 1
  <2>0. queue["camera"] # <<>>
    BY <1>4, EmptyIsShort
  <2>1. queue["camera"] # <<>> /\ 1..Len(queue["camera"]) = {1}
    BY <1>4, <2>0, OneIndex
  <2> QED
    BY <1>1, <1>4, <2>1
<1> QED
  BY <1>2, <1>3, <1>4

\* The invariant has TypeOK and NoFakeVideo in it, queue by queue.
LEMMA InvIsEnough == Inv => TypeOK /\ NoFakeVideo
<1> SUFFICES ASSUME Inv PROVE TypeOK /\ NoFakeVideo
  OBVIOUS
<1>1. /\ DOMAIN queue = Topics /\ \A t \in Topics : Len(queue[t]) <= Depth[t]
      /\ queue["camera"] \in Seq(Frames) /\ \A s \in Sensors : queue[s] \in Seq(Values)
  BY SensorsAssumption DEF Inv, QueueTyped, Held, Topics
<1>2. TypeOK
  BY <1>1 DEF Inv, ScalarsTyped, TypeOK
<1> DEFINE waiting == {queue["camera"][i] : i \in 1..Len(queue["camera"])}
<1>3. waiting = IF queue["camera"] = <<>> THEN {} ELSE {queue["camera"][1]}
  BY OneFrame DEF Inv
<1>4. NoFakeVideo <=> /\ ~fallback => \A f \in waiting \cup ({hand} \ {None}) : f.real
                      /\ cap = "open" => \A f \in waiting : f.real
  BY DEF NoFakeVideo
<1> HIDE DEF waiting
<1>5. NoFakeVideo
  BY <1>3, <1>4 DEF Inv, Frame, NoFake
<1> QED
  BY <1>2, <1>5
-----------------------------------------------------------------------------
\* Every reachable state is well typed: the driver holds one device open at
\* most, and every queue keeps its depth (webcam_driver.py:124-143).
THEOREM TypeCorrectness == Spec => []TypeOK
<1>1. Inv => TypeOK
  BY InvIsEnough
<1> QED
  BY <1>1, InvAlways, PTL

\* Fake video is seen only where it was asked for, and never behind a camera
\* that is open (webcam_driver.py:43-47).
THEOREM NoFakeVideoEver == Spec => []NoFakeVideo
<1>1. Inv => NoFakeVideo
  BY InvIsEnough
<1> QED
  BY <1>1, InvAlways, PTL

\* The executor takes the newest frame, however long it was kept from it
\* (real_ros_adapter.py:72-73).
THEOREM NewestFrameAlways == Spec => NewestFrame
<1> DEFINE Latest == hand' # hand /\ hand' # None => hand'.stamp = stamp
<1>1. ASSUME Inv, [Next]_vars PROVE Latest
  <2> SUFFICES ASSUME hand' # hand, hand' # None PROVE hand'.stamp = stamp
    OBVIOUS
  <2>1. TakeFrame
    BY <1>1 DEF vars, Next, Camera, Executor, Main, Plug, Unplug, Glitch, Tick, OnTimer, NoCamera, Open, Read,
                ReadFails, NotDriver, Pushed, PushFails, TakeSample, Change, Measure, Report, Shutdown,
                Subscribe, Stop, StopVideo, StopExecutor, Stopped, Advance
  <2>2. queue["camera"] # <<>> /\ hand' = Head(queue["camera"]) /\ Pop("camera")
    BY <2>1 DEF TakeFrame
  <2>3. QueueTyped /\ Newest /\ "camera" \in Topics
    BY <1>1 DEF Inv, Frame, Topics
  <2>4. hand' = queue["camera"][1]
    BY <2>2, <2>3, PopKeepsQueues
  <2> QED
    BY <2>2, <2>3, <2>4 DEF Newest
<1>2. Inv /\ [Next]_vars => [Latest]_vars
  BY <1>1
<1> QED
  BY <1>2, InvAlways, PTL DEF Spec, NewestFrame
=============================================================================
