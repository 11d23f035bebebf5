-------------------------- MODULE StatusFeedProofs --------------------------
(***************************************************************************)
(* What the fleet may believe of a robot, for any number of messages, of   *)
(* tasks, of broken connections, dead processes and failed writes.         *)
(***************************************************************************)
EXTENDS StatusFeed, TLAPS

\* Every time that is written anywhere is one at which the robot spoke.
Dated ==
    /\ born <= spoke /\ spoke <= clock /\ retained.ts <= spoke
    /\ \A i \in 1..Len(wire) : wire[i].ts <= spoke
    /\ \A h \in Handlers : task[h] # Idle => task[h].ts <= spoke
    /\ db.seen <= spoke

\* A status is past its handler's first step, in Redis, in the snapshot of a
\* reader or on the screen only if the robot has its row.
RowFirst ==
    /\ \A h \in Handlers : IsStatus(h) /\ task[h].at # "insert" => registered
    /\ db.status # 0 \/ reader.n # 0 \/ shown # 0 => registered

Inv == TypeOK /\ Dated /\ RowFirst

\* As long as no two statuses were handled at the same time, they come down
\* the line in the order in which they were said: the screen, a reader's
\* snapshot, Redis (or 0), the one task that handles a status, the wire.
Seen == {peak, reader.n, db.status}
InOrder ==
    /\ retained.n = said
    /\ crossed = "no" =>
          /\ \A k \in Seen : k <= said
          /\ reader.n # 0 => peak <= reader.n
          /\ db.status # 0 => peak <= db.status /\ reader.n <= db.status
          /\ \A g, h \in Handlers : IsStatus(g) /\ IsStatus(h) => g = h
          /\ \A h \in Handlers : IsStatus(h) =>
                task[h].n <= said /\ \A k \in Seen : k <= task[h].n
          /\ \A i \in 1..Len(wire) : wire[i].kind = "status" =>
                /\ wire[i].n <= said /\ \A k \in Seen : k <= wire[i].n
                /\ \A h \in Handlers : IsStatus(h) => task[h].n <= wire[i].n
          /\ \A i, j \in 1..Len(wire) :
                i < j /\ wire[i].kind = "status" /\ wire[j].kind = "status" =>
                   wire[i].n <= wire[j].n

\* Whatever order they came in, no status is known that was not said; and the
\* truth is still on its way, at the end of the wire, or has arrived.
Numbered ==
    /\ retained.n = said /\ (retained = Unseen <=> said = 0)
    /\ db.status <= said /\ (lost = "flushed" => db.status = 0)
    /\ \A h \in Handlers : IsStatus(h) => task[h].n \in 1..said
    /\ \A i \in 1..Len(wire) : wire[i].kind = "status" => wire[i].n \in 1..said

Coming == \E i \in 1..Len(wire) : wire[i].kind = "status"
NewestLast ==
    \A i \in 1..Len(wire) :
        wire[i].kind = "status" /\ (\A j \in (i + 1)..Len(wire) : wire[j].kind # "status") =>
            wire[i].n = said
Arrived ==
    Listening /\ ~Coming /\ crossed # "now" =>
        /\ \A h \in Handlers : IsStatus(h) => task[h].n = said
        /\ (\A h \in Handlers : IsStatus(h) => task[h].at = "touch") => Current(db.status)

Truth == Numbered /\ NewestLast /\ Arrived
-----------------------------------------------------------------------------
LEMMA Appended ==
  ASSUME NEW S, NEW q \in Seq(S), NEW e \in S
  PROVE  /\ Append(q, e) \in Seq(S)
         /\ \A i \in 1..Len(Append(q, e)) : Append(q, e)[i] = e \/ \E j \in 1..Len(q) : Append(q, e)[i] = q[j]
<1>1. /\ Append(q, e) \in Seq(S) /\ Len(q) \in Nat /\ Len(Append(q, e)) = Len(q) + 1
      /\ \A i \in 1..Len(q) : Append(q, e)[i] = q[i]
      /\ Append(q, e)[Len(q) + 1] = e
  OBVIOUS
<1>2. \A i \in 1..Len(Append(q, e)) : i \in 1..Len(q) \/ i = Len(q) + 1
  BY <1>1
<1> QED
  BY <1>1, <1>2

LEMMA Taken ==
  ASSUME NEW S, NEW q \in Seq(S), q # <<>>
  PROVE  /\ Head(q) \in S /\ Tail(q) \in Seq(S) /\ \E j \in 1..Len(q) : Head(q) = q[j]
         /\ \A i \in 1..Len(Tail(q)) : \E j \in 1..Len(q) : Tail(q)[i] = q[j]
<1>1. Len(q) \in Nat \ {0} /\ Tail(q) \in Seq(S) /\ Len(Tail(q)) = Len(q) - 1
  OBVIOUS
<1>2. Head(q) = q[1] /\ q[1] \in S /\ 1 \in 1..Len(q)
  BY <1>1
<1>3. \A i \in 1..Len(Tail(q)) : i + 1 \in 1..Len(q) /\ Tail(q)[i] = q[i + 1]
  BY <1>1
<1> QED
  BY <1>1, <1>2, <1>3

LEMMA InitInv == Init => Inv
<1> SUFFICES ASSUME Init PROVE Inv
  OBVIOUS
<1>1. /\ wire = <<>> /\ Len(wire) = 0 /\ wire \in Seq(Message)
      /\ \A h \in Handlers : task[h] = Idle
  BY DEF Init
<1>2. task \in [Handlers -> Task \cup {Idle}] /\ spent \in Nat
  BY DEF Init
<1>3. TypeOK
  BY <1>1, <1>2 DEF Init, TypeOK, Unseen, NoReader
<1>4. Dated /\ RowFirst
  BY <1>1 DEF Init, Dated, RowFirst, IsStatus, Unseen, NoReader
<1> QED
  BY <1>3, <1>4 DEF Inv
-----------------------------------------------------------------------------
\* A message leaves with a time at which the robot spoke.
LEMMA Sent ==
  ASSUME Inv, NEW kind \in {"status", "heartbeat", "sample"}, NEW n \in Nat, NEW ts \in Nat,
         Send(kind, n, ts), spoke <= spoke', spoke' \in Nat, ts <= spoke'
  PROVE  /\ wire' \in Seq(Message) /\ (wire' # <<>> => Listening)
         /\ \A i \in 1..Len(wire') : wire'[i].ts <= spoke'
<1> DEFINE m == [kind |-> kind, n |-> n, ts |-> ts]
<1>1. wire \in Seq(Message) /\ m \in Message /\ spoke \in Nat
  BY DEF Inv, TypeOK, Message
<1>2. \A j \in 1..Len(wire) : wire[j].ts \in Nat /\ wire[j].ts <= spoke
  <2>1. \A j \in 1..Len(wire) : wire[j] \in Message
    BY <1>1
  <2> QED
    BY <2>1 DEF Inv, Dated, Message
<1>3. CASE Listening /\ wire' = Append(wire, m)
  <2>1. wire' \in Seq(Message) /\ \A i \in 1..Len(wire') : wire'[i] = m \/ \E j \in 1..Len(wire) : wire'[i] = wire[j]
    BY <1>1, <1>3, Appended
  <2>2. m.ts = ts
    OBVIOUS
  <2> QED
    BY <1>1, <1>2, <1>3, <2>1, <2>2
<1>4. CASE ~Listening /\ wire' = wire
  BY <1>1, <1>2, <1>4 DEF Inv, TypeOK
<1> QED
  BY <1>3, <1>4 DEF Send

LEMMA RobotKeepsInv == ASSUME Inv, Robot PROVE Inv'
<1> USE DEF Inv
<1> DEFINE Fine == /\ NotRobot /\ born' \in Nat /\ said' \in Nat /\ clock' \in Nat
                   /\ spoke' \in Nat /\ up' \in BOOLEAN /\ spoke <= spoke' /\ spoke' <= clock'
                   /\ born' <= spoke' /\ retained' \in [n : Nat, ts : Nat]
                   /\ retained'.ts <= spoke'
           Says(kind, n, ts) == Send(kind, n, ts) /\ n \in Nat /\ ts \in Nat /\ ts <= spoke'
<1>1. Fine /\ \E kind \in {"status", "heartbeat", "sample"}, n \in Nat, ts \in Nat :
                 Says(kind, n, ts)
  <2>0. /\ born \in Nat /\ said \in Nat /\ clock \in Nat /\ spoke \in Nat
        /\ born <= spoke /\ spoke <= clock
    BY DEF TypeOK, Dated
  <2>1. CASE Online
    <3>1. Fine /\ Says("status", said + 1, clock + 1)
      BY <2>0, <2>1 DEF Online, SayStatus
    <3> QED
      BY <3>1
  <2>2. CASE Leave
    <3>1. /\ born' = born /\ spoke' = clock + 1 /\ clock' = clock + 1 /\ said' = said + 1
          /\ up' = FALSE /\ retained' = [n |-> said + 1, ts |-> clock + 1]
          /\ Send("status", said + 1, clock + 1) /\ NotRobot
      BY <2>2 DEF Leave, SayStatus
    <3>2. Fine
      <4>1. born' \in Nat /\ said' \in Nat /\ clock' \in Nat /\ spoke' \in Nat
        BY <2>0, <3>1
      <4>2. spoke <= spoke' /\ spoke' <= clock' /\ born' <= spoke'
        BY <2>0, <3>1
      <4>3. retained' \in [n : Nat, ts : Nat] /\ retained'.ts <= spoke'
        BY <2>0, <3>1
      <4>4. up' \in BOOLEAN
        BY <3>1
      <4> QED
        BY <3>1, <4>1, <4>2, <4>3, <4>4
    <3>3. Says("status", said + 1, clock + 1)
      BY <2>0, <3>1
    <3> QED
      BY <3>2, <3>3
  <2>3. CASE Die
    <3>1. /\ born' = born /\ spoke' = spoke /\ clock' = clock + 1 /\ said' = said + 1
          /\ up' = up /\ retained' = [n |-> said + 1, ts |-> born]
          /\ Send("status", said + 1, born) /\ NotRobot
      BY <2>3 DEF Die, SayStatus
    <3>2. Fine
      <4>1. born' \in Nat /\ said' \in Nat /\ clock' \in Nat /\ spoke' \in Nat
        BY <2>0, <3>1
      <4>2. spoke <= spoke' /\ spoke' <= clock' /\ born' <= spoke'
        BY <2>0, <3>1
      <4>3. retained' \in [n : Nat, ts : Nat] /\ retained'.ts <= spoke'
        BY <2>0, <3>1
      <4>4. up' \in BOOLEAN
        BY <3>1 DEF TypeOK
      <4> QED
        BY <3>1, <4>1, <4>2, <4>3, <4>4
    <3>3. Says("status", said + 1, born)
      BY <2>0, <3>1
    <3> QED
      BY <3>2, <3>3
  <2>4. ASSUME NEW kind \in {"heartbeat", "sample"}, Publish(kind)
        PROVE  Fine /\ Says(kind, 0, clock + 1)
    BY <2>0, <2>4 DEF Publish, TypeOK, Dated
  <2> QED
    BY <2>1, <2>2, <2>3, <2>4 DEF Robot
<1> HIDE DEF Fine
<1>2. /\ wire' \in Seq(Message) /\ (wire' # <<>> => Listening)
      /\ \A i \in 1..Len(wire') : wire'[i].ts <= spoke'
  <2>1. spoke <= spoke' /\ spoke' \in Nat
    BY <1>1 DEF Fine
  <2>2. PICK kind \in {"status", "heartbeat", "sample"}, n \in Nat, ts \in Nat :
           Send(kind, n, ts) /\ ts <= spoke'
    BY <1>1
  <2> QED
    BY <2>1, <2>2, Sent
<1>3. /\ UNCHANGED <<backend, sock, task, registered, db, reader, shown, peak, crossed, lost, spent>>
      /\ born' \in Nat /\ said' \in Nat /\ clock' \in Nat
      /\ spoke' \in Nat /\ up' \in BOOLEAN /\ spoke <= spoke' /\ spoke' <= clock'
      /\ born' <= spoke' /\ retained' \in [n : Nat, ts : Nat]
      /\ retained'.ts <= spoke'
  BY <1>1 DEF Fine, NotRobot, storeVars, viewVars, historyVars
<1>4. TypeOK'
  <2>1. /\ Listening' = Listening
        /\ backend' = "off" => sock' = "none" /\ reader'.at = "off" /\ \A h \in Handlers : task'[h] = Idle
    BY <1>3 DEF TypeOK, Listening
  <2>2. /\ backend' \in {"off", "starting", "serving"}
        /\ sock' \in {"none", "syn", "up", "subscribed"}
        /\ task' \in [Handlers -> Task \cup {Idle}]
        /\ registered' \in BOOLEAN /\ db' \in [status : Nat, seen : Nat]
        /\ reader' \in [at : {"off", "rows", "status", "push"}, n : Nat]
        /\ shown' \in Nat /\ peak' \in Nat /\ crossed' \in {"no", "now", "past"} /\ lost' \in {"no", "failed", "flushed"}
        /\ spent' \in Nat
    BY <1>3 DEF TypeOK
  <2> QED
    BY <1>2, <1>3, <2>1, <2>2 DEF TypeOK
<1>5. Dated'
  <2>1. \A h \in Handlers : task[h] # Idle => task[h].ts \in Nat
    BY DEF TypeOK, Task
  <2>2. db.seen \in Nat /\ spoke \in Nat
    BY DEF TypeOK
  <2> QED
    BY <1>2, <1>3, <2>1, <2>2 DEF Dated
<1>6. RowFirst'
  BY <1>3 DEF RowFirst, IsStatus
<1> QED
  BY <1>4, <1>5, <1>6
-----------------------------------------------------------------------------
LEMMA Spent ==
  ASSUME TypeOK, Spend
  PROVE  spent' \in Nat
  BY DEF TypeOK, Spend

LEMMA LinkKeepsInv == ASSUME Inv, Link \/ Drop \/ Stop PROVE Inv'
<1> USE DEF Inv, TypeOK, Dated, RowFirst, IsStatus, NotLink, robotVars, storeVars, viewVars,
            historyVars, Listening
<1>1. CASE Boot
  BY <1>1 DEF Boot
<1>2. CASE Dial
  BY <1>2 DEF Dial
<1>3. CASE Serve
  BY <1>3 DEF Serve
<1>4. CASE HandleConnect
  BY <1>4 DEF HandleConnect
<1>5. CASE Subscribe
  <2>1. wire' \in Seq(Message) /\ \A i \in 1..Len(wire') : wire'[i].ts <= spoke
    <3>1. CASE wire' = <<>>
      BY <3>1
    <3>2. CASE wire' = <<[kind |-> "status", n |-> retained.n, ts |-> retained.ts]>>
      <4>1. [kind |-> "status", n |-> retained.n, ts |-> retained.ts] \in Message
        BY DEF Message
      <4>2. Len(wire') = 1 /\ wire'[1].ts = retained.ts
        BY <3>2
      <4>3. wire' \in Seq(Message)
        BY <3>2, <4>1
      <4> QED
        BY <4>2, <4>3
    <3> QED
      BY <1>5, <3>1, <3>2 DEF Subscribe
  <2> QED
    BY <1>5, <2>1 DEF Subscribe
<1>6. CASE Drop
  <2>1. spent' \in Nat
    BY <1>6, Spent DEF Drop
  <2>2. wire' = <<>> /\ wire' \in Seq(Message) /\ Len(wire') = 0
    BY <1>6 DEF Drop
  <2> QED
    BY <1>6, <2>1, <2>2 DEF Drop
<1>7. CASE Stop
  <2>1. spent' \in Nat
    BY <1>7, Spent DEF Stop
  <2>2. wire' = <<>> /\ wire' \in Seq(Message) /\ Len(wire') = 0
    BY <1>7 DEF Stop
  <2>3. task' \in [Handlers -> Task \cup {Idle}] /\ \A h \in Handlers : task'[h] = Idle
    BY <1>7 DEF Stop
  <2> QED
    BY <1>7, <2>1, <2>2, <2>3 DEF Stop, NoReader
<1> QED
  BY <1>1, <1>2, <1>3, <1>4, <1>5, <1>6, <1>7 DEF Link

LEMMA ViewKeepsInv == ASSUME Inv, View \/ Close PROVE Inv'
<1> USE DEF Inv, TypeOK, Dated, RowFirst, IsStatus, NotView, robotVars, brokerVars, storeVars,
            historyVars, Listening, NoReader
<1>1. CASE Open
  BY <1>1 DEF Open
<1>2. CASE ReadRows
  BY <1>2 DEF ReadRows
<1>3. CASE ReadStatus
  BY <1>3 DEF ReadStatus
<1>4. CASE Push
  BY <1>4 DEF Push
<1>5. CASE Close
  <2>1. spent' \in Nat
    BY <1>5, Spent DEF Close
  <2> QED
    BY <1>5, <2>1 DEF Close
<1> QED
  BY <1>1, <1>2, <1>3, <1>4, <1>5 DEF View
-----------------------------------------------------------------------------
LEMMA DispatchKeepsInv == ASSUME Inv, NEW h \in Handlers, Dispatch(h) PROVE Inv'
<1> USE DEF Inv
<1> DEFINE m == Head(wire)
<1>1. PICK e \in Message : /\ e = Head(wire) /\ e.ts <= spoke
                           /\ Tail(wire) \in Seq(Message)
                           /\ \A i \in 1..Len(Tail(wire)) : Tail(wire)[i].ts <= spoke
  BY Taken DEF Dispatch, TypeOK, Dated
<1>2. /\ UNCHANGED <<robotVars, retained, backend, sock, registered, db, reader, shown, peak, lost, spent>>
      /\ wire # <<>> /\ wire' = Tail(wire) /\ task[h] = Idle
      /\ task' = [task EXCEPT ![h] = [kind |-> e.kind, n |-> e.n, ts |-> e.ts,
                                      at |-> FirstStep(e.kind)]]
  BY <1>1 DEF Dispatch, NotTask, storeVars, viewVars
<1>3. crossed' \in {"no", "now", "past"}
  BY DEF Dispatch, TypeOK
<1>4. /\ [kind |-> e.kind, n |-> e.n, ts |-> e.ts, at |-> FirstStep(e.kind)] \in Task
      /\ e.kind = "status" => FirstStep(e.kind) = "insert"
  BY DEF Message, Task, FirstStep
<1>5. TypeOK'
  BY <1>1, <1>2, <1>3, <1>4 DEF TypeOK, Listening, robotVars
<1>6. Dated'
  <2>1. task' \in [Handlers -> Task \cup {Idle}] /\ task'[h].ts = e.ts
        /\ \A g \in Handlers \ {h} : task'[g] = task[g]
    BY <1>2, <1>4 DEF TypeOK
  <2> QED
    BY <1>1, <1>2, <2>1 DEF Dated, robotVars
<1>7. RowFirst'
  <2>1. /\ \A g \in Handlers \ {h} : task'[g] = task[g]
        /\ task'[h].kind = e.kind /\ task'[h].at = FirstStep(e.kind)
    BY <1>2 DEF TypeOK
  <2> QED
    BY <1>2, <1>4, <2>1 DEF RowFirst, IsStatus
<1> QED
  BY <1>5, <1>6, <1>7

LEMMA StepKeepsInv == ASSUME Inv, NEW h \in Handlers, Step(h) \/ Fail(h) PROVE Inv'
<1> USE DEF Inv
<1>1. UNCHANGED <<up, born, said, clock, spoke, retained, backend, sock, reader, shown, peak, wire>>
  BY DEF Step, Insert, Set, Touch, Fail, NotTask, robotVars, viewVars
<1>2. task[h] # Idle /\ task[h] \in Task
  BY DEF Step, Insert, Set, Touch, Fail, At, TypeOK
<1>3. CASE Insert(h)
  <2>1. /\ task' = [task EXCEPT ![h] = [task[h] EXCEPT !.at = "set"]]
        /\ registered' = TRUE /\ UNCHANGED <<db, crossed, lost, spent>>
    BY <1>3 DEF Insert, Goto, historyVars
  <2>2. task' \in [Handlers -> Task \cup {Idle}] /\ task'[h].ts = task[h].ts
    BY <1>2, <2>1 DEF TypeOK, Task
  <2>3. TypeOK'
    BY <1>1, <1>2, <2>1, <2>2 DEF TypeOK, Listening
  <2>4. Dated' /\ RowFirst'
    BY <1>1, <1>2, <2>1, <2>2 DEF Dated, RowFirst, TypeOK
  <2> QED
    BY <2>3, <2>4
<1>4. CASE Set(h)
  <2>1. /\ task' = [task EXCEPT ![h] = [task[h] EXCEPT !.at = "touch"]] /\ task[h].at = "set"
        /\ UNCHANGED <<registered, crossed, spent>> /\ lost' \in {"no", "failed", "flushed"}
        /\ \/ IsStatus(h) /\ db' = [db EXCEPT !.status = task[h].n]
           \/ db' = db
    BY <1>4 DEF Set, Goto, At, TypeOK
  <2>2. task' \in [Handlers -> Task \cup {Idle}] /\ task'[h].ts = task[h].ts
        /\ task'[h].kind = task[h].kind /\ \A g \in Handlers \ {h} : task'[g] = task[g]
    BY <1>2, <2>1 DEF TypeOK, Task
  <2>3. db' \in [status : Nat, seen : Nat] /\ db'.seen = db.seen
        /\ (IsStatus(h) \/ db'.status = db.status)
    BY <1>2, <2>1 DEF TypeOK, Task
  <2>4. TypeOK'
    BY <1>1, <1>2, <2>1, <2>2, <2>3 DEF TypeOK, Listening
  <2>5. Dated'
    BY <1>1, <1>2, <2>1, <2>2, <2>3 DEF Dated
  <2>6. RowFirst'
    BY <1>1, <1>2, <2>1, <2>2, <2>3 DEF RowFirst, IsStatus
  <2> QED
    BY <2>4, <2>5, <2>6
<1>5. CASE Touch(h)
  <2>1. /\ task' = [task EXCEPT ![h] = Idle] /\ db' = [db EXCEPT !.seen = task[h].ts]
        /\ UNCHANGED <<registered, crossed, lost, spent>>
    BY <1>5 DEF Touch, End, historyVars
  <2>2. db' \in [status : Nat, seen : Nat] /\ db'.seen = task[h].ts /\ db'.status = db.status
    BY <1>2, <2>1 DEF TypeOK, Task
  <2>3. TypeOK'
    BY <1>1, <1>2, <2>1, <2>2 DEF TypeOK, Listening
  <2>4. Dated' /\ RowFirst'
    BY <1>1, <1>2, <2>1, <2>2 DEF Dated, RowFirst, IsStatus, TypeOK
  <2> QED
    BY <2>3, <2>4
<1>6. CASE Fail(h)
  <2>1. /\ task' = [task EXCEPT ![h] = Idle] /\ UNCHANGED <<registered, db, crossed>>
        /\ lost' \in {"no", "failed", "flushed"} /\ Spend
    BY <1>6 DEF Fail, End, Losing, storeVars, TypeOK
  <2>2. spent' \in Nat
    BY <2>1, Spent
  <2>3. TypeOK'
    BY <1>1, <1>2, <2>1, <2>2 DEF TypeOK, Listening
  <2>4. Dated' /\ RowFirst'
    BY <1>1, <1>2, <2>1 DEF Dated, RowFirst, IsStatus, TypeOK
  <2> QED
    BY <2>3, <2>4
<1> QED
  BY <1>3, <1>4, <1>5, <1>6 DEF Step

LEMMA FlushKeepsInv == ASSUME Inv, Flush PROVE Inv'
<1>1. /\ UNCHANGED <<robotVars, retained, backend, sock, reader, shown, peak, wire, registered, crossed,
                     task>>
      /\ db' = [status |-> 0, seen |-> 0] /\ lost' = "flushed"
  BY DEF Flush, NotTask, viewVars
<1>2. spent' \in Nat
  BY Spent DEF Flush, Inv
<1> QED
  BY <1>1, <1>2 DEF Inv, TypeOK, Dated, RowFirst, IsStatus, Listening, robotVars

LEMMA NextKeepsInv == Inv /\ [Next]_vars => Inv'
<1>1. ASSUME Inv, UNCHANGED vars PROVE Inv'
  BY <1>1 DEF vars, robotVars, brokerVars, storeVars, viewVars, historyVars, Inv, TypeOK, Dated,
              RowFirst, IsStatus, Listening
<1> QED
  BY <1>1, RobotKeepsInv, LinkKeepsInv, ViewKeepsInv, DispatchKeepsInv, StepKeepsInv, FlushKeepsInv
  DEF Next, Faults

LEMMA InvAlways == Spec => []Inv
  BY InitInv, NextKeepsInv, PTL DEF Spec
-----------------------------------------------------------------------------
(* The order of the statuses *)

LEMMA Numbers ==
  ASSUME TypeOK
  PROVE  /\ peak \in Nat /\ reader.n \in Nat /\ db.status \in Nat /\ said \in Nat
         /\ \A h \in Handlers : IsStatus(h) => task[h].n \in Nat
         /\ \A i \in 1..Len(wire) : wire[i].n \in Nat
<1>1. \A i \in 1..Len(wire) : wire[i] \in Message
  BY DEF TypeOK
<1> QED
  BY <1>1 DEF TypeOK, IsStatus, Task, Message

\* What a step must leave in order if it sends nothing and starts no task.
LEMMA OrderKept ==
  ASSUME TypeOK, TypeOK', InOrder, UNCHANGED said, retained'.n = said, crossed' = crossed,
         \A k \in Seen' : k = 0 \/ k \in Seen
                       \/ \E h \in Handlers : IsStatus(h) /\ k = task[h].n,
         crossed = "no" =>
            /\ reader'.n # 0 => peak' <= reader'.n
            /\ db'.status # 0 => peak' <= db'.status /\ reader'.n <= db'.status,
         \A h \in Handlers : IsStatus(h)' => IsStatus(h) /\ task'[h].n = task[h].n,
         wire' \in {wire, <<>>}
  PROVE  InOrder'
<1> SUFFICES ASSUME crossed = "no"
             PROVE  /\ \A k \in Seen' : k <= said
                    /\ \A h \in Handlers : IsStatus(h)' =>
                          task'[h].n <= said /\ \A k \in Seen' : k <= task'[h].n
                    /\ \A i \in 1..Len(wire') : wire'[i].kind = "status" =>
                          /\ wire'[i].n <= said /\ \A k \in Seen' : k <= wire'[i].n
                          /\ \A h \in Handlers : IsStatus(h)' => task'[h].n <= wire'[i].n
                    /\ \A i, j \in 1..Len(wire') :
                          i < j /\ wire'[i].kind = "status" /\ wire'[j].kind = "status" =>
                             wire'[i].n <= wire'[j].n
  BY DEF InOrder
<1>1. \A k \in Seen : k \in Nat /\ k <= said /\ \A h \in Handlers : IsStatus(h) => k <= task[h].n
  BY Numbers DEF Seen, InOrder
<1>2. \A h \in Handlers : IsStatus(h) => task[h].n \in Nat /\ task[h].n <= said
  BY Numbers DEF InOrder
<1>3. ASSUME NEW k \in Seen' PROVE k <= said
  <2>1. CASE k = 0
    BY <2>1, Numbers
  <2>2. CASE k \in Seen
    BY <1>1, <2>2
  <2>3. CASE \E h \in Handlers : IsStatus(h) /\ k = task[h].n
    BY <1>2, <2>3
  <2> QED
    BY <1>3, <2>1, <2>2, <2>3
<1>4. ASSUME NEW k \in Seen', NEW h \in Handlers, IsStatus(h) PROVE k <= task[h].n
  <2>1. CASE k = 0
    BY <1>2, <1>4, <2>1
  <2>2. CASE k \in Seen
    BY <1>1, <1>4, <2>2
  <2>3. ASSUME NEW g \in Handlers, IsStatus(g), k = task[g].n PROVE k <= task[h].n
    <3>1. g = h
      BY <1>4, <2>3 DEF InOrder
    <3> QED
      BY <1>2, <2>3, <3>1
  <2> QED
    BY <1>4, <2>1, <2>2, <2>3
<1>5. ASSUME NEW k \in Seen', NEW i \in 1..Len(wire), wire[i].kind = "status"
      PROVE  k <= wire[i].n
  <2>1. CASE k = 0
    BY <2>1, Numbers
  <2>2. CASE k \in Seen
    BY <1>5, <2>2 DEF InOrder
  <2>3. CASE \E h \in Handlers : IsStatus(h) /\ k = task[h].n
    BY <1>5, <2>3 DEF InOrder
  <2> QED
    BY <1>5, <2>1, <2>2, <2>3
<1>6. CASE wire' = wire
  BY <1>2, <1>3, <1>4, <1>5, <1>6 DEF InOrder
<1>7. CASE wire' = <<>>
  <2>1. Len(wire') = 0
    BY <1>7
  <2> QED
    BY <1>2, <1>3, <1>4, <2>1
<1> QED
  BY <1>6, <1>7

LEMMA SayingInOrder ==
  ASSUME Inv, Inv', InOrder, Robot
  PROVE  InOrder'
<1> USE DEF Inv
<1>1. UNCHANGED <<shown, peak, reader, db, task, crossed, registered>>
  BY DEF Robot, Online, Leave, Die, Publish, NotRobot, storeVars, viewVars, historyVars
<1>2. Seen' = Seen /\ \A h \in Handlers : IsStatus(h)' = IsStatus(h)
  BY <1>1 DEF Seen, IsStatus
<1>3. ASSUME NEW ts, SayStatus(ts) PROVE InOrder'
  <2> DEFINE m == [kind |-> "status", n |-> said + 1, ts |-> ts]
  <2>1. /\ said' = said + 1 /\ retained'.n = said + 1 /\ said \in Nat /\ said' \in Nat
        /\ wire' = wire \/ wire' = Append(wire, m)
    BY <1>3 DEF SayStatus, Send, TypeOK
  <2> SUFFICES ASSUME crossed = "no" PROVE InOrder'
    BY <1>1, <2>1 DEF InOrder
  <2>2. /\ \A k \in Seen : k \in Nat /\ k <= said
        /\ \A h \in Handlers : IsStatus(h) => task[h].n \in Nat /\ task[h].n <= said
        /\ \A i \in 1..Len(wire) : wire[i].n \in Nat /\ (wire[i].kind = "status" => wire[i].n <= said)
    BY Numbers DEF InOrder, Seen
  <2>3. CASE wire' = wire
    BY <1>1, <1>2, <2>1, <2>2, <2>3 DEF InOrder
  <2>4. CASE wire' = Append(wire, m)
    <3>1. /\ Len(wire) \in Nat /\ Len(wire') = Len(wire) + 1
          /\ \A i \in 1..Len(wire) : wire'[i] = wire[i]
          /\ wire'[Len(wire) + 1].n = said + 1
      <4>1. wire \in Seq(Message)
        BY DEF TypeOK
      <4> QED
        BY <2>4, <4>1
    <3>2. \A i \in 1..Len(wire') : i \in 1..Len(wire) \/ i = Len(wire) + 1
      BY <3>1
    <3>3. ASSUME NEW i \in 1..Len(wire'), wire'[i].kind = "status"
          PROVE  /\ wire'[i].n <= said' /\ \A k \in Seen : k <= wire'[i].n
                 /\ \A h \in Handlers : IsStatus(h) => task[h].n <= wire'[i].n
      <4>1. CASE i \in 1..Len(wire)
        BY <2>1, <2>2, <3>1, <3>3, <4>1 DEF InOrder
      <4>2. CASE i = Len(wire) + 1
        BY <2>1, <2>2, <3>1, <4>2
      <4> QED
        BY <3>2, <4>1, <4>2
    <3>4. ASSUME NEW i \in 1..Len(wire'), NEW j \in 1..Len(wire'), i < j,
                 wire'[i].kind = "status", wire'[j].kind = "status"
          PROVE  wire'[i].n <= wire'[j].n
      <4>1. i \in 1..Len(wire)
        BY <3>1, <3>4
      <4>2. CASE j \in 1..Len(wire)
        BY <3>1, <3>4, <4>1, <4>2 DEF InOrder
      <4>3. CASE j = Len(wire) + 1
        <5>1. wire[i].n \in Nat /\ wire[i].n <= said /\ wire'[i] = wire[i]
          BY <2>2, <3>1, <3>4, <4>1
        <5>2. wire'[j].n = said + 1 /\ said \in Nat
          BY <2>1, <3>1, <4>3
        <5> QED
          BY <5>1, <5>2
      <4> QED
        BY <3>2, <4>2, <4>3
    <3>5. /\ \A k \in Seen : k <= said'
          /\ \A h \in Handlers : IsStatus(h) => task[h].n <= said'
      BY <2>1, <2>2
    <3> QED
      BY <1>1, <1>2, <2>1, <3>3, <3>4, <3>5 DEF InOrder
  <2> QED
    BY <2>1, <2>3, <2>4
<1>4. ASSUME NEW kind \in {"heartbeat", "sample"}, Publish(kind) PROVE InOrder'
  <2> DEFINE m == [kind |-> kind, n |-> 0, ts |-> clock + 1]
  <2>1. said' = said /\ retained' = retained /\ (wire' = wire \/ wire' = Append(wire, m))
    BY <1>4 DEF Publish, Send
  <2>2. CASE wire' = wire
    BY <1>1, <1>2, <2>1, <2>2 DEF InOrder
  <2>3. CASE wire' = Append(wire, m)
    <3>1. /\ Len(wire) \in Nat /\ Len(wire') = Len(wire) + 1
          /\ \A i \in 1..Len(wire) : wire'[i] = wire[i]
          /\ wire'[Len(wire) + 1].kind # "status"
      <4>1. wire \in Seq(Message)
        BY DEF TypeOK
      <4> QED
        BY <2>3, <4>1
    <3>2. \A i \in 1..Len(wire') : wire'[i].kind = "status" => i \in 1..Len(wire) /\ wire'[i] = wire[i]
      BY <3>1
    <3> QED
      BY <1>1, <1>2, <2>1, <3>2 DEF InOrder
  <2> QED
    BY <2>1, <2>2, <2>3
<1> QED
  BY <1>3, <1>4 DEF Robot, Online, Leave, Die

LEMMA LinkInOrder ==
  ASSUME Inv, Inv', InOrder, Link \/ Drop \/ Stop
  PROVE  InOrder'
<1> USE DEF Inv
<1>1. UNCHANGED <<said, retained, shown, peak, db, crossed>>
  BY DEF Link, Drop, Stop, Boot, Dial, Serve, HandleConnect, Subscribe, NotLink, robotVars,
         viewVars, storeVars, historyVars
<1>2. CASE Subscribe
  <2>1. UNCHANGED <<reader, task>> /\ (wire' = <<>> \/ (Len(wire') = 1 /\ wire'[1].n = said))
    BY <1>2 DEF Subscribe, NotLink, viewVars, InOrder
  <2>2. Seen' = Seen /\ \A h \in Handlers : IsStatus(h)' = IsStatus(h)
    BY <1>1, <2>1 DEF Seen, IsStatus
  <2>3. said \in Nat /\ \A i \in 1..Len(wire') : wire'[i].n = said /\ i = 1
    <3>1. CASE wire' = <<>>
      <4>1. Len(wire') = 0
        BY <3>1
      <4> QED
        BY <4>1 DEF TypeOK
    <3>2. CASE Len(wire') = 1 /\ wire'[1].n = said
      <4>1. \A i \in 1..Len(wire') : i = 1
        BY <3>2
      <4> QED
        BY <3>2, <4>1 DEF TypeOK
    <3> QED
      BY <2>1, <3>1, <3>2
  <2> QED
    BY <1>1, <2>1, <2>2, <2>3 DEF InOrder
<1>3. CASE ~Subscribe
  <2>1. /\ wire' \in {wire, <<>>} /\ reader'.n \in {reader.n, 0}
        /\ \A h \in Handlers : IsStatus(h)' => IsStatus(h) /\ task'[h] = task[h]
    BY <1>3 DEF Link, Drop, Stop, Boot, Dial, Serve, HandleConnect, NotLink, viewVars, NoReader,
                IsStatus
  <2>2. \A k \in Seen' : k = 0 \/ k \in Seen
    BY <1>1, <2>1 DEF Seen
  <2>3. crossed = "no" => /\ reader'.n # 0 => peak' <= reader'.n
                          /\ db'.status # 0 => peak' <= db'.status /\ reader'.n <= db'.status
    BY <1>1, <2>1, Numbers DEF InOrder
  <2> QED
    BY <1>1, <2>1, <2>2, <2>3, OrderKept DEF InOrder
<1> QED
  BY <1>2, <1>3

LEMMA ViewInOrder ==
  ASSUME Inv, Inv', InOrder, View \/ Close
  PROVE  InOrder'
<1> USE DEF Inv
<1>1. UNCHANGED <<said, retained, db, task, crossed, wire>>
  BY DEF View, Close, Open, ReadRows, ReadStatus, Push, NotView, robotVars, brokerVars, storeVars,
         historyVars
<1>2. \/ UNCHANGED peak /\ reader'.n \in {0, reader.n, db.status}
      \/ peak' \in {reader.n, peak} /\ reader'.n = 0
  <2>1. CASE Open \/ Close \/ ReadRows
    <3>1. UNCHANGED peak /\ reader' \in {[at |-> "rows", n |-> 0], [at |-> "off", n |-> 0],
                                         [at |-> "status", n |-> 0], [at |-> "push", n |-> 0]}
      BY <2>1 DEF Open, Close, ReadRows, NoReader
    <3> QED
      BY <3>1
  <2>2. CASE ReadStatus
    BY <2>2 DEF ReadStatus
  <2>3. CASE Push
    BY <2>3 DEF Push, NoReader
  <2> QED
    BY <2>1, <2>2, <2>3 DEF View
<1>3. \A k \in Seen' : k = 0 \/ k \in Seen
  BY <1>1, <1>2 DEF Seen
<1>4. crossed = "no" => /\ reader'.n # 0 => peak' <= reader'.n
                        /\ db'.status # 0 => peak' <= db'.status /\ reader'.n <= db'.status
  BY <1>1, <1>2, Numbers DEF InOrder
<1> QED
  BY <1>1, <1>3, <1>4, OrderKept DEF InOrder, IsStatus

LEMMA StoresInOrder ==
  ASSUME Inv, Inv', InOrder, NEW h \in Handlers, Step(h) \/ Fail(h)
  PROVE  InOrder'
<1> USE DEF Inv
<1>1. UNCHANGED <<said, retained, shown, peak, reader, crossed, wire>>
  BY DEF Step, Insert, Set, Touch, Fail, NotTask, robotVars, viewVars, historyVars, TypeOK, storeVars
<1>2. \A g \in Handlers : IsStatus(g)' => IsStatus(g) /\ task'[g].n = task[g].n
  <2>1. task \in [Handlers -> Task \cup {Idle}] /\ (task[h] # Idle => task[h] \in Task)
    BY DEF TypeOK
  <2>2. CASE Touch(h) \/ Fail(h)
    <3>1. task'[h] = Idle /\ \A g \in Handlers \ {h} : task'[g] = task[g]
      BY <2>1, <2>2 DEF Touch, Fail, End
    <3> QED
      BY <3>1 DEF IsStatus
  <2>3. CASE Insert(h) \/ Set(h)
    <3>1. /\ task[h] # Idle
          /\ task' = [task EXCEPT ![h].at = "set"] \/ task' = [task EXCEPT ![h].at = "touch"]
      BY <2>3 DEF Insert, Set, Goto, At
    <3>2. task[h] \in Task /\ \A g \in Handlers \ {h} : task'[g] = task[g]
      BY <2>1, <3>1
    <3>3. task'[h] = [task[h] EXCEPT !.at = "set"] \/ task'[h] = [task[h] EXCEPT !.at = "touch"]
      BY <2>1, <3>1
    <3>4. task'[h].kind = task[h].kind /\ task'[h].n = task[h].n
      BY <3>2, <3>3 DEF Task
    <3> QED
      BY <3>1, <3>2, <3>4 DEF IsStatus
  <2> QED
    BY <2>2, <2>3 DEF Step
<1>3. \/ db'.status \in {0, db.status}
      \/ IsStatus(h) /\ db'.status = task[h].n
  <2>1. CASE Insert(h) \/ Fail(h)
    BY <2>1 DEF Insert, Fail, storeVars
  <2>2. CASE Set(h)
    BY <2>2 DEF Set, TypeOK
  <2>3. CASE Touch(h)
    BY <2>3 DEF Touch, TypeOK
  <2> QED
    BY <2>1, <2>2, <2>3 DEF Step
<1>4. \A k \in Seen' : k = 0 \/ k \in Seen \/ \E g \in Handlers : IsStatus(g) /\ k = task[g].n
  BY <1>1, <1>3 DEF Seen
<1>5. crossed = "no" => /\ reader'.n # 0 => peak' <= reader'.n
                        /\ db'.status # 0 => peak' <= db'.status /\ reader'.n <= db'.status
  BY <1>1, <1>3, Numbers DEF InOrder, Seen
<1> QED
  BY <1>1, <1>2, <1>4, <1>5, OrderKept DEF InOrder

LEMMA DispatchInOrder ==
  ASSUME Inv, Inv', InOrder, NEW h \in Handlers, Dispatch(h)
  PROVE  InOrder'
<1> USE DEF Inv
<1>1. UNCHANGED <<said, retained, shown, peak, reader, db>> /\ wire # <<>> /\ wire' = Tail(wire)
  BY DEF Dispatch, NotTask, robotVars, viewVars, storeVars
<1>2. /\ 1 \in 1..Len(wire) /\ Head(wire) = wire[1] /\ wire[1] \in Message /\ Len(wire) \in Nat
      /\ Len(wire') = Len(wire) - 1
      /\ \A i \in 1..Len(wire') : i + 1 \in 1..Len(wire) /\ 1 < i + 1 /\ wire'[i] = wire[i + 1]
  <2>1. wire \in Seq(Message)
    BY DEF TypeOK
  <2>2. Len(wire) \in Nat \ {0}
    BY <1>1, <2>1
  <2> QED
    BY <1>1, <2>1, <2>2
<1>3. PICK m \in Message : /\ m = wire[1] /\ m.n \in Nat
                           /\ task' = [task EXCEPT ![h] = [kind |-> m.kind, n |-> m.n, ts |-> m.ts,
                                                           at |-> FirstStep(m.kind)]]
  BY <1>2 DEF Dispatch, Message
<1>4. /\ task'[h].kind = m.kind /\ task'[h].n = m.n
      /\ \A g \in Handlers \ {h} : task'[g] = task[g]
      /\ task[h] = Idle
  <2>1. task \in [Handlers -> Task \cup {Idle}] /\ task[h] = Idle
    BY DEF TypeOK, Dispatch
  <2>2. task'[h] = [kind |-> m.kind, n |-> m.n, ts |-> m.ts, at |-> FirstStep(m.kind)]
        /\ \A g \in Handlers \ {h} : task'[g] = task[g]
    BY <1>3, <2>1
  <2> QED
    BY <2>1, <2>2
<1>5. Seen' = Seen
  BY <1>1 DEF Seen
<1> SUFFICES ASSUME crossed' = "no" PROVE InOrder'
  BY <1>1 DEF InOrder
<1>6. crossed = "no" /\ (m.kind = "status" => \A g \in Handlers : ~IsStatus(g))
  BY <1>2, <1>3 DEF Dispatch
<1>7. \A g \in Handlers : IsStatus(g)' =>
         \/ IsStatus(g) /\ g # h /\ task'[g].n = task[g].n /\ m.kind # "status"
         \/ g = h /\ m.kind = "status" /\ task'[g].n = m.n
  BY <1>4, <1>6 DEF IsStatus
<1>8. m.kind = "status" => m.n <= said /\ \A k \in Seen : k <= m.n
  BY <1>2, <1>3, <1>6 DEF InOrder
<1>9. ASSUME NEW i \in 1..Len(wire'), wire'[i].kind = "status"
      PROVE  /\ wire'[i].n <= said /\ \A k \in Seen : k <= wire'[i].n
             /\ \A g \in Handlers : IsStatus(g)' => task'[g].n <= wire'[i].n
  <2>1. i + 1 \in 1..Len(wire) /\ wire'[i] = wire[i + 1]
    BY <1>2
  <2>2. m.kind = "status" => m.n <= wire'[i].n
    BY <1>2, <1>3, <1>6, <1>9, <2>1 DEF InOrder
  <2> QED
    BY <1>6, <1>7, <1>9, <2>1, <2>2 DEF InOrder
<1>10. ASSUME NEW i \in 1..Len(wire'), NEW j \in 1..Len(wire'), i < j,
              wire'[i].kind = "status", wire'[j].kind = "status"
       PROVE  wire'[i].n <= wire'[j].n
  <2>1. i + 1 \in 1..Len(wire) /\ j + 1 \in 1..Len(wire) /\ i + 1 < j + 1
        /\ wire'[i] = wire[i + 1] /\ wire'[j] = wire[j + 1]
    BY <1>2, <1>10
  <2> QED
    BY <1>6, <1>10, <2>1 DEF InOrder
<1>11. \A f, g \in Handlers : IsStatus(f)' /\ IsStatus(g)' => f = g
  BY <1>6, <1>7 DEF InOrder
<1>12. \A g \in Handlers : IsStatus(g)' => task'[g].n <= said /\ \A k \in Seen : k <= task'[g].n
  BY <1>6, <1>7, <1>8 DEF InOrder
<1> QED
  BY <1>1, <1>5, <1>6, <1>9, <1>10, <1>11, <1>12 DEF InOrder

LEMMA NextInOrder == Inv /\ Inv' /\ InOrder /\ [Next]_vars => InOrder'
<1>1. ASSUME InOrder, UNCHANGED vars PROVE InOrder'
  BY <1>1 DEF vars, robotVars, brokerVars, storeVars, viewVars, historyVars, InOrder, Seen, IsStatus
<1>2. ASSUME Inv, Inv', InOrder, Flush PROVE InOrder'
  <2>1. UNCHANGED <<said, retained, shown, peak, reader, crossed, wire, task>> /\ db'.status = 0
    BY <1>2 DEF Flush, NotTask, robotVars, viewVars
  <2>2. \A k \in Seen' : k = 0 \/ k \in Seen
    BY <2>1 DEF Seen
  <2> QED
    BY <1>2, <2>1, <2>2, OrderKept DEF InOrder, IsStatus, Inv
<1> QED
  BY <1>1, <1>2, SayingInOrder, LinkInOrder, ViewInOrder, StoresInOrder, DispatchInOrder
  DEF Next, Faults

LEMMA InOrderAlways == Spec => [](Inv /\ InOrder)
<1>1. Init => InOrder
  <2> SUFFICES ASSUME Init PROVE InOrder
    OBVIOUS
  <2>1. Len(wire) = 0 /\ (\A h \in Handlers : ~IsStatus(h)) /\ Seen = {0} /\ said = 0 /\ retained.n = 0
    BY DEF Init, IsStatus, Seen, NoReader, Unseen
  <2>2. reader.n = 0 /\ db.status = 0
    BY DEF Init, NoReader
  <2> QED
    BY <2>1, <2>2 DEF InOrder
<1>2. Spec => []Inv
  BY InvAlways
<1> QED
  BY <1>1, <1>2, NextInOrder, PTL DEF Spec
-----------------------------------------------------------------------------
(* The truth arrives *)

\* A message at the end of the wire: the newest status, or no status.
LEMMA AppendKeepsTruth ==
  ASSUME Inv, Inv', Truth, NEW m \in Message, wire' = Append(wire, m),
         UNCHANGED <<db, task, sock, crossed, lost>>,
         retained'.n = said' /\ (retained' = Unseen <=> said' = 0),
         \/ m.kind = "status" /\ said' = said + 1 /\ m.n = said'
         \/ m.kind # "status" /\ said' = said
  PROVE  Truth'
<1>1. wire \in Seq(Message) /\ said \in Nat /\ said' \in Nat /\ db.status \in Nat
  BY DEF Inv, TypeOK
<1>2. /\ Len(wire) \in Nat /\ Len(wire') = Len(wire) + 1 /\ wire'[Len(wire) + 1] = m
      /\ \A i \in 1..Len(wire) : wire'[i] = wire[i]
  BY <1>1
<1>3. \A i \in 1..Len(wire') : i \in 1..Len(wire) \/ i = Len(wire) + 1
  BY <1>2
<1>4. Numbered'
  <2>1. \A k \in 1..said : k \in 1..said'
    BY <1>1
  <2>2. db'.status <= said' /\ (lost' = "flushed" => db'.status = 0)
    BY <1>1 DEF Truth, Numbered
  <2>3. \A h \in Handlers : IsStatus(h)' => task'[h].n \in 1..said'
    BY <2>1 DEF Truth, Numbered, IsStatus
  <2>4. \A i \in 1..Len(wire') : wire'[i].kind = "status" => wire'[i].n \in 1..said'
    BY <1>1, <1>2, <1>3, <2>1 DEF Truth, Numbered
  <2> QED
    BY <2>2, <2>3, <2>4 DEF Numbered
<1>5. CASE m.kind = "status"
  <2>1. Len(wire) + 1 \in 1..Len(wire')
    BY <1>2
  <2>2. Coming'
    BY <1>2, <1>5, <2>1 DEF Coming
  <2>3. ASSUME NEW i \in 1..Len(wire'), \A j \in (i + 1)..Len(wire') : wire'[j].kind # "status"
        PROVE  i = Len(wire) + 1
    <3>1. CASE i \in 1..Len(wire)
      <4>1. Len(wire) + 1 \in (i + 1)..Len(wire')
        BY <1>2, <3>1
      <4> QED
        BY <1>2, <1>5, <2>3, <4>1
    <3> QED
      BY <1>3, <3>1
  <2>4. m.n = said'
    BY <1>5
  <2>5. NewestLast'
    BY <1>2, <2>3, <2>4 DEF NewestLast
  <2> QED
    BY <1>4, <2>2, <2>5 DEF Truth, Arrived, Current
<1>6. CASE m.kind # "status"
  <2>1. said' = said
    BY <1>6
  <2>2. Coming' <=> Coming
    <3>1. \A i \in 1..Len(wire) : i \in 1..Len(wire')
      BY <1>2
    <3> QED
      BY <1>2, <1>3, <1>6, <3>1 DEF Coming
  <2>3. ASSUME NEW i \in 1..Len(wire'), wire'[i].kind = "status",
               \A j \in (i + 1)..Len(wire') : wire'[j].kind # "status"
        PROVE  wire'[i].n = said'
    <3>1. i \in 1..Len(wire) /\ wire'[i] = wire[i]
      BY <1>2, <1>3, <1>6, <2>3
    <3>2. \A j \in (i + 1)..Len(wire) : j \in (i + 1)..Len(wire') /\ wire'[j] = wire[j]
      BY <1>2, <3>1
    <3> QED
      BY <2>1, <2>3, <3>1, <3>2 DEF Truth, NewestLast
  <2> QED
    BY <1>4, <2>1, <2>2, <2>3 DEF Truth, NewestLast, Arrived, Current, Listening, IsStatus
<1> QED
  BY <1>5, <1>6

LEMMA RobotKeepsTruth == ASSUME Inv, Inv', Truth, Robot PROVE Truth'
<1>1. UNCHANGED <<db, task, sock, crossed, lost>>
  BY DEF Robot, Online, Leave, Die, Publish, NotRobot, storeVars, historyVars
<1>2. said \in Nat /\ clock \in Nat /\ born \in Nat
  BY DEF Inv, TypeOK
<1>3. ASSUME NEW ts \in Nat, SayStatus(ts) PROVE Truth'
  <2>1. /\ said' = said + 1 /\ retained' = [n |-> said + 1, ts |-> ts]
        /\ Send("status", said + 1, ts)
    BY <1>3 DEF SayStatus
  <2>2. retained'.n = said' /\ (retained' = Unseen <=> said' = 0)
    <3>1. said' # 0 /\ Unseen.n = 0 /\ retained'.n = said'
      BY <1>2, <2>1 DEF Unseen
    <3> QED
      BY <3>1
  <2>3. CASE Listening
    <3>0. [kind |-> "status", n |-> said + 1, ts |-> ts] \in Message
      BY <1>2 DEF Message
    <3>1. PICK m \in Message : m = [kind |-> "status", n |-> said + 1, ts |-> ts]
      BY <3>0
    <3> QED
      BY <1>1, <2>1, <2>2, <2>3, <3>1, AppendKeepsTruth DEF Send
  <2>4. CASE ~Listening
    <3>1. wire' = wire /\ wire = <<>>
      BY <2>1, <2>4 DEF Send, Inv, TypeOK
    <3>2. \A k \in 1..said : k \in 1..said'
      BY <1>2, <2>1
    <3>3. db'.status <= said'
      <4>1. db' = db /\ said' = said + 1
        BY <1>1, <2>1
      <4>2. db.status \in Nat /\ db.status <= said
        <5>1. db.status \in Nat
          BY DEF Inv, TypeOK
        <5> QED
          BY <5>1 DEF Truth, Numbered
      <4> QED
        BY <1>2, <4>1, <4>2
    <3> QED
      BY <1>1, <2>2, <2>4, <3>1, <3>2, <3>3 DEF Truth, Numbered, NewestLast, Arrived, Current, Listening, IsStatus
  <2> QED
    BY <2>3, <2>4
<1>4. ASSUME NEW kind \in {"heartbeat", "sample"}, Publish(kind) PROVE Truth'
  <2>1. UNCHANGED <<said, retained>> /\ Send(kind, 0, clock + 1)
    BY <1>4 DEF Publish
  <2>2. CASE Listening
    <3>0. [kind |-> kind, n |-> 0, ts |-> clock + 1] \in Message
      BY <1>2 DEF Message
    <3>1. PICK m \in Message : m = [kind |-> kind, n |-> 0, ts |-> clock + 1] /\ m.kind # "status"
      BY <3>0
    <3>2. retained'.n = said' /\ (retained' = Unseen <=> said' = 0)
      BY <2>1 DEF Truth, Numbered
    <3> QED
      BY <1>1, <2>1, <2>2, <3>1, <3>2, AppendKeepsTruth DEF Send
  <2>3. CASE ~Listening
    BY <1>1, <2>1, <2>3 DEF Send, Truth, Numbered, NewestLast, Arrived, Current, Listening, IsStatus
  <2> QED
    BY <2>2, <2>3
<1>5. clock + 1 \in Nat
  BY <1>2
<1> QED
  BY <1>2, <1>3, <1>4, <1>5 DEF Robot, Online, Leave, Die

LEMMA LinkKeepsTruth == ASSUME Inv, Inv', Truth, Link \/ Drop \/ Stop PROVE Truth'
<1>1. UNCHANGED <<said, retained, db, crossed, lost>>
  BY DEF Link, Drop, Stop, Boot, Dial, Serve, HandleConnect, Subscribe, NotLink, robotVars,
         storeVars, historyVars
<1>2. \A h \in Handlers : IsStatus(h)' => IsStatus(h) /\ task'[h] = task[h]
  BY DEF Link, Drop, Stop, Boot, Dial, Serve, HandleConnect, Subscribe, NotLink, IsStatus
<1>3. CASE wire' = <<>> /\ ~Listening'
  <2>1. Len(wire') = 0
    BY <1>3
  <2> QED
    BY <1>1, <1>2, <1>3, <2>1 DEF Truth, Numbered, NewestLast, Arrived, Current
<1>4. CASE Subscribe
  <2>1. task' = task /\ said \in Nat /\ db.status \in Nat
    BY <1>4 DEF Subscribe, NotLink, Inv, TypeOK
  <2>2. CASE retained = Unseen
    <3>1. said = 0 /\ db.status = 0 /\ (\A h \in Handlers : ~IsStatus(h)) /\ Len(wire') = 0
      BY <1>4, <2>1, <2>2 DEF Subscribe, Truth, Numbered
    <3> QED
      BY <1>1, <2>1, <3>1, <2>2 DEF Truth, Numbered, NewestLast, Arrived, Current, IsStatus
  <2>3. CASE retained # Unseen
    <3>1. /\ Len(wire') = 1 /\ wire'[1].kind = "status" /\ wire'[1].n = said
          /\ said \in 1..said
      BY <1>4, <2>1, <2>3 DEF Subscribe, Truth, Numbered
    <3>2. \A i \in 1..Len(wire') : i = 1
      BY <3>1
    <3>3. Coming'
      BY <3>1 DEF Coming
    <3> QED
      BY <1>1, <2>1, <2>3, <3>1, <3>2, <3>3 DEF Truth, Numbered, NewestLast, Arrived, Current, IsStatus
  <2> QED
    BY <2>2, <2>3
<1>5. CASE Serve \/ Boot
  BY <1>1, <1>2, <1>5 DEF Serve, Boot, NotLink, Truth, Numbered, NewestLast, Arrived, Current, Coming, Listening,
                          IsStatus
<1>6. CASE Dial \/ HandleConnect \/ Drop \/ Stop
  <2>1. ~Listening' /\ (wire' = <<>>)
    BY <1>6 DEF Dial, HandleConnect, Drop, Stop, Listening, Inv, TypeOK
  <2> QED
    BY <1>3, <2>1
<1> QED
  BY <1>4, <1>5, <1>6 DEF Link

LEMMA ViewKeepsTruth == ASSUME Truth, View \/ Close \/ UNCHANGED vars PROVE Truth'
<1>1. UNCHANGED <<said, retained, wire, sock, task, db, crossed, lost>>
  BY DEF View, Close, Open, ReadRows, ReadStatus, Push, NotView, vars, robotVars, brokerVars,
         storeVars, historyVars
<1> QED
  BY <1>1 DEF Truth, Numbered, NewestLast, Arrived, Current, Coming, Listening, IsStatus

LEMMA FlushKeepsTruth == ASSUME Inv, Truth, Flush PROVE Truth'
<1>1. /\ UNCHANGED <<said, retained, wire, sock, task, crossed>>
      /\ db'.status = 0 /\ lost' = "flushed" /\ said \in Nat
  BY DEF Flush, NotTask, robotVars, Inv, TypeOK
<1> QED
  BY <1>1 DEF Truth, Numbered, NewestLast, Arrived, Current, Coming, Listening, IsStatus

LEMMA StepKeepsTruth ==
  ASSUME Inv, Inv', Truth, NEW h \in Handlers, Step(h) \/ Fail(h)
  PROVE  Truth'
<1>1. UNCHANGED <<said, retained, wire, sock, crossed>>
  BY DEF Step, Insert, Set, Touch, Fail, NotTask, robotVars, historyVars
<1>2. /\ task \in [Handlers -> Task \cup {Idle}] /\ (task[h] # Idle => task[h] \in Task)
      /\ db \in [status : Nat, seen : Nat]
  BY DEF Inv, TypeOK
<1>3. CASE Touch(h) \/ Fail(h)
  <2>1. /\ task[h] # Idle /\ task'[h] = Idle /\ \A g \in Handlers \ {h} : task'[g] = task[g]
        /\ db'.status = db.status
    BY <1>2, <1>3 DEF Touch, Fail, End, At, storeVars
  <2>2. \A g \in Handlers : IsStatus(g)' => g # h /\ IsStatus(g) /\ task'[g] = task[g]
    BY <2>1 DEF IsStatus
  <2>3. /\ IsStatus(h) => task[h].at = "touch" \/ lost' = "failed" \/ lost' = "flushed"
        /\ lost' = lost \/ lost' = "failed"
    <3>1. CASE Touch(h)
      BY <3>1 DEF Touch, At, historyVars
    <3>2. CASE Fail(h)
      <4>1. Losing(h)
        BY <3>2 DEF Fail
      <4>2. lost \in {"no", "failed", "flushed"}
        BY DEF Inv, TypeOK
      <4> QED
        BY <4>1, <4>2 DEF Losing
    <3> QED
      BY <1>3, <3>1, <3>2
  <2>4. (\A g \in Handlers : IsStatus(g)' => task'[g].at = "touch") =>
           lost' = "failed" \/ lost' = "flushed" \/ (\A g \in Handlers : IsStatus(g) => task[g].at = "touch")
    BY <2>1, <2>2, <2>3 DEF IsStatus
  <2> QED
    BY <1>1, <2>1, <2>2, <2>3, <2>4 DEF Truth, Numbered, NewestLast, Arrived, Current, Coming, Listening
<1>4. CASE Insert(h) \/ Set(h)
  <2>1. PICK step \in {"set", "touch"} :
           /\ task[h] # Idle /\ task' = [task EXCEPT ![h].at = step]
           /\ Insert(h) => step = "set"
    BY <1>4 DEF Insert, Set, At, Goto
  <2>2. task[h] \in Task /\ task'[h] = [task[h] EXCEPT !.at = step]
        /\ \A g \in Handlers \ {h} : task'[g] = task[g]
    BY <1>2, <2>1
  <2>3. task'[h].kind = task[h].kind /\ task'[h].n = task[h].n /\ task'[h].at = step /\ task'[h] # Idle
    BY <2>2, IdleAssumption DEF Task
  <2>4. \A g \in Handlers : (IsStatus(g)' <=> IsStatus(g)) /\ (IsStatus(g) => task'[g].n = task[g].n)
    BY <2>1, <2>2, <2>3 DEF IsStatus
  <2>5. CASE ~IsStatus(h)
    <3>1. db' = db /\ lost' = lost
      BY <1>4, <2>5 DEF Insert, Set, historyVars
    <3>2. \A g \in Handlers : IsStatus(g) => task'[g] = task[g]
      BY <2>2, <2>5
    <3> QED
      BY <1>1, <2>4, <3>1, <3>2 DEF Truth, Numbered, NewestLast, Arrived, Current, Coming, Listening
  <2>6. CASE IsStatus(h) /\ Insert(h)
    <3>1. db' = db /\ lost' = lost /\ task'[h].at # "touch" /\ IsStatus(h)'
      BY <2>1, <2>3, <2>4, <2>6 DEF Insert, historyVars
    <3> QED
      BY <1>1, <2>4, <3>1 DEF Truth, Numbered, NewestLast, Arrived, Current, Coming, Listening
  <2>7. CASE IsStatus(h) /\ Set(h)
    <3>1. db'.status = task[h].n /\ task[h].n \in 1..said /\ said \in Nat
      BY <1>2, <2>7 DEF Set, Truth, Numbered, Inv, TypeOK
    <3>2. db'.status <= said /\ lost' = "no"
      BY <2>7, <3>1 DEF Set
    <3> QED
      BY <1>1, <2>4, <2>7, <3>1, <3>2 DEF Truth, Numbered, NewestLast, Arrived, Current, Coming, Listening
  <2> QED
    BY <1>4, <2>5, <2>6, <2>7
<1> QED
  BY <1>3, <1>4 DEF Step

LEMMA DispatchKeepsTruth ==
  ASSUME Inv, Inv', Truth, NEW h \in Handlers, Dispatch(h)
  PROVE  Truth'
<1>1. UNCHANGED <<said, retained, sock, db, lost>> /\ wire # <<>> /\ wire' = Tail(wire) /\ task[h] = Idle
  BY DEF Dispatch, NotTask, robotVars, storeVars
<1>2. /\ 1 \in 1..Len(wire) /\ Head(wire) = wire[1] /\ wire[1] \in Message /\ Len(wire) \in Nat
      /\ Len(wire') = Len(wire) - 1
      /\ \A i \in 1..Len(wire') : i + 1 \in 1..Len(wire) /\ wire'[i] = wire[i + 1]
      /\ \A i \in 2..Len(wire) : i \in 1..Len(wire) /\ i - 1 \in 1..Len(wire') /\ wire'[i - 1] = wire[i]
  <2>1. wire \in Seq(Message)
    BY DEF Inv, TypeOK
  <2>2. Len(wire) \in Nat \ {0}
    BY <1>1, <2>1
  <2>3. Len(wire') = Len(wire) - 1 /\ \A i \in 1..Len(wire') : wire'[i] = wire[i + 1]
    BY <1>1, <2>1, <2>2
  <2>4. ASSUME NEW i \in 2..Len(wire) PROVE i - 1 \in 1..Len(wire') /\ wire'[i - 1] = wire[i]
    <3>1. i - 1 \in 1..Len(wire') /\ (i - 1) + 1 = i
      BY <2>2, <2>3
    <3> QED
      BY <2>3, <3>1
  <2> QED
    BY <1>1, <2>1, <2>2, <2>3, <2>4
<1>3. PICK m \in Message : /\ m = wire[1]
                           /\ task' = [task EXCEPT ![h] = [kind |-> m.kind, n |-> m.n, ts |-> m.ts,
                                                           at |-> FirstStep(m.kind)]]
  BY <1>2 DEF Dispatch
<1>4. /\ task'[h].kind = m.kind /\ task'[h].n = m.n /\ task'[h].at = FirstStep(m.kind)
      /\ \A g \in Handlers \ {h} : task'[g] = task[g]
  <2>1. task \in [Handlers -> Task \cup {Idle}]
    BY DEF Inv, TypeOK
  <2>2. task'[h] = [kind |-> m.kind, n |-> m.n, ts |-> m.ts, at |-> FirstStep(m.kind)]
        /\ \A g \in Handlers \ {h} : task'[g] = task[g]
    BY <1>3, <2>1
  <2> QED
    BY <2>2
<1>5. \A g \in Handlers : IsStatus(g)' =>
         \/ IsStatus(g) /\ g # h /\ task'[g] = task[g]
         \/ g = h /\ m.kind = "status"
  BY <1>4 DEF IsStatus
<1>6. /\ m.kind = "status" => m.n \in 1..said
      /\ m.kind = "status" /\ (\A j \in (1 + 1)..Len(wire) : wire[j].kind # "status") => m.n = said
  BY <1>2, <1>3 DEF Truth, Numbered, NewestLast
<1>7. Numbered'
  <2>1. \A g \in Handlers : IsStatus(g)' => task'[g].n \in 1..said
    BY <1>4, <1>5, <1>6 DEF Truth, Numbered
  <2> QED
    BY <1>1, <1>2, <2>1 DEF Truth, Numbered
<1>8. ASSUME NEW i \in 1..Len(wire'), wire'[i].kind = "status",
             \A j \in (i + 1)..Len(wire') : wire'[j].kind # "status"
      PROVE  wire'[i].n = said
  <2>1. i + 1 \in 1..Len(wire) /\ wire'[i] = wire[i + 1]
    BY <1>2
  <2>2. ASSUME NEW j \in ((i + 1) + 1)..Len(wire) PROVE wire[j].kind # "status"
    <3>1. j \in 2..Len(wire) /\ j - 1 \in (i + 1)..Len(wire')
      BY <1>2, <2>2
    <3> QED
      BY <1>2, <1>8, <3>1
  <2> QED
    BY <1>8, <2>1, <2>2 DEF Truth, NewestLast
<1>9. Coming' <=> \E j \in 2..Len(wire) : wire[j].kind = "status"
  <2>1. \A i \in 1..Len(wire') : i + 1 \in 2..Len(wire)
    BY <1>2
  <2> QED
    BY <1>2, <2>1 DEF Coming
<1>10. CASE m.kind = "status"
  <2>1. crossed' # "now" => \A g \in Handlers : ~IsStatus(g)
    BY <1>2, <1>3, <1>10 DEF Dispatch
  <2>2. ~Coming' => m.n = said
    BY <1>6, <1>9, <1>10
  <2>3. IsStatus(h)' /\ task'[h].at # "touch"
    <3>1. task'[h] # Idle
      <4>1. [kind |-> m.kind, n |-> m.n, ts |-> m.ts, at |-> "insert"] \in Task
        BY <1>10 DEF Message, Task
      <4> QED
        BY <1>3, <1>10, <4>1, IdleAssumption DEF FirstStep, Inv, TypeOK
    <3> QED
      BY <1>4, <1>10, <3>1 DEF IsStatus, FirstStep
  <2>4. Arrived'
    BY <1>4, <1>5, <2>1, <2>2, <2>3, <1>1 DEF Arrived, Current
  <2> QED
    BY <1>1, <1>7, <1>8, <2>4 DEF Truth, NewestLast
<1>11. CASE m.kind # "status"
  <2>1. crossed' = crossed /\ \A g \in Handlers : IsStatus(g)' <=> IsStatus(g)
    <3>1. crossed' = crossed
      BY <1>2, <1>3, <1>11 DEF Dispatch
    <3> QED
      BY <1>1, <1>4, <1>11, <3>1 DEF IsStatus
  <2>2. Coming' <=> Coming
    <3>1. \A i \in 1..Len(wire) : i = 1 \/ i \in 2..Len(wire)
      BY <1>2
    <3> QED
      BY <1>2, <1>3, <1>9, <1>11, <3>1 DEF Coming
  <2>3. \A g \in Handlers : IsStatus(g)' => IsStatus(g) /\ task'[g] = task[g]
    BY <1>5, <1>11
  <2>4. Arrived'
    BY <1>1, <2>1, <2>2, <2>3 DEF Truth, Arrived, Current, Listening
  <2> QED
    BY <1>1, <1>7, <1>8, <2>4 DEF Truth, NewestLast
<1> QED
  BY <1>10, <1>11

LEMMA TruthAlways == Spec => [](Inv /\ Truth)
<1>1. Init => Truth
  <2> SUFFICES ASSUME Init PROVE Truth
    OBVIOUS
  <2>1. Len(wire) = 0 /\ (\A h \in Handlers : ~IsStatus(h)) /\ ~Listening
    BY DEF Init, IsStatus, Listening
  <2>2. said = 0 /\ retained.n = said /\ retained = Unseen /\ db.status <= said /\ lost = "no"
    BY DEF Init, Unseen
  <2> QED
    BY <2>1, <2>2 DEF Truth, Numbered, NewestLast, Arrived, Current
<1>2. Inv /\ Inv' /\ Truth /\ [Next]_vars => Truth'
  BY RobotKeepsTruth, LinkKeepsTruth, ViewKeepsTruth, FlushKeepsTruth, StepKeepsTruth, DispatchKeepsTruth
  DEF Next, Faults
<1>3. Spec => []Inv
  BY InvAlways
<1> QED
  BY <1>1, <1>2, <1>3, PTL DEF Spec
-----------------------------------------------------------------------------
\* Every reachable state is well typed, and a process that is off has left
\* nothing behind (main.py:85-90).
THEOREM TypeCorrectness == Spec => []TypeOK
<1>1. Inv => TypeOK
  BY DEF Inv
<1> QED
  BY <1>1, InvAlways, PTL

\* A robot whose status is in Redis or on a screen has its row in Postgres
\* (registry/store.py:4-7), whatever crashed or failed.
THEOREM RowsComeFirst == Spec => []KnownBeforeSeen
<1>1. Inv => KnownBeforeSeen
  BY DEF Inv, RowFirst, KnownBeforeSeen
<1> QED
  BY <1>1, InvAlways, PTL

\* last_seen claims no more than the robot said (registry/store.py:65-66).
THEOREM SightingsAreTrue == Spec => []NoFalseSighting
<1>1. Inv => NoFalseSighting
  BY DEF Inv, Dated, NoFalseSighting
<1> QED
  BY <1>1, InvAlways, PTL

\* When nothing is under way, Redis has the status said last: the retained message
\* makes up for every status that no connection carried (docs/03-mqtt-layer.md:59,
\* mqtt/service.py:76-108).  It has none if it came back empty since a status was
\* last written, which samples and heartbeats do not mend; and it may have
\* an older one if a status's own write failed, or if the last two were handled at
\* the same time.
THEOREM RetainedCatchesUp == Spec => []CaughtUp
<1>1. Inv /\ Truth => CaughtUp
  <2> SUFFICES ASSUME Inv, Truth, Listening, wire = <<>>, \A h \in Handlers : ~IsStatus(h),
                      crossed # "now"
               PROVE  Current(db.status)
    BY DEF CaughtUp, Current
  <2>1. Len(wire) = 0
    OBVIOUS
  <2>2. ~Coming
    BY <2>1 DEF Coming
  <2> QED
    BY <2>2 DEF Truth, Arrived, Current
<1> QED
  BY <1>1, TruthAlways, PTL

\* The screen never goes back to an older status while statuses are handled one
\* after the other, through any reconnection, restart, failed write or flush
\* (mqtt/service.py:123-139, useStatusSocket.ts:27-56).
THEOREM ScreenNeverGoesBack == Spec => NeverGoesBack
<1> DEFINE Forward == shown' # shown => shown' = 0 \/ peak <= shown' \/ crossed # "no"
<1>1. ASSUME Inv, InOrder, [Next]_vars PROVE Forward
  <2> SUFFICES ASSUME shown' # shown, crossed = "no" PROVE shown' = 0 \/ peak <= shown'
    OBVIOUS
  <2>1. Push
    BY <1>1 DEF vars, robotVars, brokerVars, storeVars, viewVars, historyVars, Next, Robot,
       Online, Leave, Die, Publish, NotRobot, Link, Boot, Dial, Serve, HandleConnect, Subscribe,
       NotLink, View, Open, ReadRows, ReadStatus, Faults, Drop, Stop, Flush, Close, Fail,
       Dispatch, Step, Insert, Set, Touch, NotTask
  <2>2. shown' = reader.n
    BY <2>1 DEF Push
  <2>3. reader.n # 0 => peak <= reader.n
    BY <1>1 DEF InOrder
  <2> QED
    BY <2>2, <2>3
<1>2. Spec => [][Forward]_vars
  BY <1>1, InOrderAlways, PTL DEF Spec
<1> QED
  BY <1>2 DEF NeverGoesBack
=============================================================================
