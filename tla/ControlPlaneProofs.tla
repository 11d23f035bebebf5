------------------------- MODULE ControlPlaneProofs -------------------------
(***************************************************************************)
(* What holds of ControlPlane for any number of robots, operators,         *)
(* requests and session ids, and for any TTL.                              *)
(***************************************************************************)
EXTENDS ControlPlane, TLAPS

-----------------------------------------------------------------------------
(* Type correctness.  TypeOK alone is not inductive: a step reads fields of *)
(* the request and of the session its task has in hand, so these must be    *)
(* there whenever the task is at a place that reads them.                   *)

\* A handler that is over has no request and no session: every proof may see so.
USE DEF Over

HandOK ==
    \A t \in Tasks :
        /\ pc[t] \notin Over => req[t] \in Req
        /\ pc[t] \in CommandPCs => req[t].cmd \in Commands
        /\ pc[t] \in {"acq_audit", "rel_del", "rel_audit"} => local[t] \in Session

TypeInv == TypeOK /\ HandOK

\* Every place a handler can be suspended at.
Places == Quiet \cup AcquirePCs \cup CommandPCs \cup ReleasePCs

LEMMA InitType == Init => TypeInv
BY TTLAssumption
   DEF Init, TypeInv, TypeOK, HandOK, NoLock, NoReq, NoCommand, Sids, Quiet, CommandPCs

\* A handler returning, or going back to receive_json(), keeps the tasks well typed.
LEMMA EndingType ==
    ASSUME TypeInv, NEW t \in Tasks, pc[t] \notin Over,
           Finish(t) \/ Return(t) \/ Fail(t)
    PROVE  /\ pc' \in [Tasks -> Places]
           /\ req' \in [Tasks -> Req \cup {NoReq}]
           /\ local' \in [Tasks -> Session \cup {NoLock}]
           /\ HandOK'
<1>1. CASE Return(t) \/ Fail(t)
  BY <1>1 DEF TypeInv, TypeOK, HandOK, Return, Fail, Goto, Places, Quiet, AcquirePCs,
              CommandPCs, ReleasePCs
<1>2. CASE Finish(t) /\ req[t].ws
  <2>1. req[t] \in Req
    BY DEF TypeInv, HandOK
  <2>2. [req[t] EXCEPT !.cmd = "none"] \in Req
    BY <2>1 DEF Req
  <2>3. req' = [req EXCEPT ![t] = [req[t] EXCEPT !.cmd = "none"]]
    BY <1>2 DEF Finish
  <2>4. /\ pc' = [pc EXCEPT ![t] = "open"]
        /\ local' = [local EXCEPT ![t] = NoLock]
    BY <1>2 DEF Finish, Goto
  <2> QED
    BY <2>2, <2>3, <2>4 DEF TypeInv, TypeOK, HandOK, Places, Quiet, AcquirePCs,
              CommandPCs, ReleasePCs
<1> QED BY <1>1, <1>2 DEF Finish

\* Moving a task on without touching what it has in hand.
LEMMA MovingType ==
    ASSUME TypeInv, NEW t \in Tasks, NEW place \in Places,
           pc[t] \notin Over, Goto(t, place), UNCHANGED <<req, local>>,
           place \in CommandPCs => req[t].cmd \in Commands,
           place \in {"acq_audit", "rel_del", "rel_audit"} => local[t] \in Session
    PROVE  /\ pc' \in [Tasks -> Places]
           /\ req' \in [Tasks -> Req \cup {NoReq}]
           /\ local' \in [Tasks -> Session \cup {NoLock}]
           /\ HandOK'
BY DEF TypeInv, TypeOK, HandOK, Goto, Places, Quiet, AcquirePCs, CommandPCs, ReleasePCs

LEMMA RunType == ASSUME TypeInv, NEW t \in Tasks, Run(t) PROVE TypeInv'
<1> USE TTLAssumption
<1>0. /\ pc[t] \notin Over => req[t] \in Req
      /\ pc[t] \notin Over => req[t].robot \in Robots /\ req[t].op \in Operators
  BY DEF TypeInv, HandOK, Req
<1>1. CASE AcquireGet(t)
  <2> DEFINE r == req[t].robot
  <2>1. pc[t] \notin Over
    BY <1>1 DEF AcquireGet
  <2>2. CASE Return(t)
    BY <1>1, <2>1, <2>2, EndingType
       DEF AcquireGet, TypeInv, TypeOK, store, rows, Places
  <2>3. CASE ~Return(t)
    <3>1. /\ pc' = [pc EXCEPT ![t] = "acq_set"]
          /\ local' = [local EXCEPT ![t] = lock[r]]
          /\ UNCHANGED <<req, registered, store, rows, lastCmd>>
      BY <1>1, <2>3 DEF AcquireGet, Goto
    <3> QED
      BY <1>0, <2>1, <3>1 DEF TypeInv, TypeOK, HandOK, store, rows, Quiet,
         AcquirePCs, CommandPCs, ReleasePCs
  <2> QED BY <2>2, <2>3
<1>2. CASE AcquireSet(t)
  <2> DEFINE r == req[t].robot
             value == IF local[t] = NoLock
                         THEN [sid |-> nextSid, op |-> req[t].op]
                         ELSE local[t]
             next == IF local[t] = NoLock THEN "acq_audit" ELSE "acq_info"
  <2>1. /\ pc[t] = "acq_set"
        /\ lock' = [lock EXCEPT ![r] = value]
        /\ ttl' = [ttl EXCEPT ![r] = TTL]
        /\ age' = [age EXCEPT ![r] = 0]
        /\ nextSid' = IF local[t] = NoLock THEN nextSid + 1 ELSE nextSid
        /\ pc' = [pc EXCEPT ![t] = next]
        /\ local' = [local EXCEPT ![t] = value]
        /\ UNCHANGED <<registered, rows, lastCmd, req>>
    BY <1>2 DEF AcquireSet, Goto
  <2>2. value \in Session
    BY <1>0, <2>1 DEF TypeInv, TypeOK, Session
  <2>3. nextSid' \in Sids
    BY <2>1 DEF TypeInv, TypeOK, Sids
  <2> HIDE DEF value
  <2> QED
    BY <1>0, <2>1, <2>2, <2>3 DEF TypeInv, TypeOK, HandOK, rows, Quiet,
       AcquirePCs, CommandPCs, ReleasePCs
<1>3. CASE AcquireAudit(t)
  <2>1. pc[t] = "acq_audit" /\ local[t] \in Session
    BY <1>3 DEF AcquireAudit, TypeInv, HandOK
  <2>2. audit' \subseteq [sid : Sids, robot : Robots, op : Operators]
    BY <1>0, <1>3, <2>1 DEF AcquireAudit, TypeInv, TypeOK, Session
  <2> QED
    BY <1>3, <2>1, <2>2, MovingType
       DEF AcquireAudit, TypeInv, TypeOK, store, Places, Quiet, AcquirePCs,
           CommandPCs, ReleasePCs
<1>4. CASE AcquireInfo(t)
  BY <1>4, EndingType DEF AcquireInfo, TypeInv, TypeOK, store, rows, Places
<1>5. CASE CommandStart(t)
  <2>1. pc[t] = "cmd_start" /\ req[t].cmd \in Commands
    BY <1>5 DEF CommandStart, TypeInv, HandOK, CommandPCs
  <2> QED
    BY <1>5, <2>1, MovingType
       DEF CommandStart, TypeInv, TypeOK, store, rows, Places, Quiet, AcquirePCs,
           CommandPCs, ReleasePCs
<1>6. ASSUME NEW here \in CommandPCs, NEW next \in CommandPCs, HolderRead(t, here, next)
      PROVE  TypeInv'
  <2>1. pc[t] \in CommandPCs /\ pc[t] \notin Over /\ req[t].cmd \in Commands
    BY <1>6 DEF HolderRead, TypeInv, HandOK, CommandPCs
  <2>2. CASE Finish(t)
    BY <1>6, <2>1, <2>2, EndingType DEF HolderRead, TypeInv, TypeOK, store, rows, Places
  <2>3. CASE ~Finish(t)
    BY <1>6, <2>1, <2>3, MovingType
       DEF HolderRead, TypeInv, TypeOK, store, rows, Places, CommandPCs
  <2> QED BY <2>2, <2>3
<1>7. CASE CommandExpire(t)
  <2>1. pc[t] = "cmd_expire" /\ req[t].cmd \in Commands
    BY <1>7 DEF CommandExpire, TypeInv, HandOK, CommandPCs
  <2>2. ttl' \in [Robots -> 0..TTL]
    BY <1>0, <1>7 DEF CommandExpire, TypeInv, TypeOK
  <2> QED
    BY <1>7, <2>1, <2>2, MovingType
       DEF CommandExpire, TypeInv, TypeOK, rows, Places, Quiet, AcquirePCs,
           CommandPCs, ReleasePCs
<1>8. CASE CommandPublish(t)
  <2>1. pc[t] = "cmd_publish" /\ req[t].cmd \in Commands
    BY <1>8 DEF CommandPublish, TypeInv, HandOK, CommandPCs
  <2>2. /\ lastCmd' \in [Robots -> [op : Operators, cmd : Commands] \cup {NoCommand}]
        /\ age' \in [Robots -> 0..TTL]
    BY <1>0, <1>8, <2>1 DEF CommandPublish, TypeInv, TypeOK
  <2> QED
    BY <1>8, <2>1, <2>2, EndingType DEF CommandPublish, TypeInv, TypeOK, rows, Places
<1>9. CASE ReleaseGet(t)
  <2> DEFINE current == lock[req[t].robot]
  <2>1. pc[t] = "rel_get"
    BY <1>9 DEF ReleaseGet
  <2>2. CASE Return(t)
    BY <1>9, <2>1, <2>2, EndingType DEF ReleaseGet, TypeInv, TypeOK, store, rows, Places
  <2>3. CASE ~Return(t)
    <3>1. /\ Owns(current, req[t].op)
          /\ pc' = [pc EXCEPT ![t] = "rel_del"]
          /\ local' = [local EXCEPT ![t] = current]
          /\ UNCHANGED <<req, registered, store, rows, lastCmd>>
      BY <1>9, <2>3 DEF ReleaseGet, Goto
    <3>2. current \in Session
      BY <1>0, <2>1, <3>1 DEF Owns, TypeInv, TypeOK
    <3> QED
      BY <1>0, <2>1, <3>1, <3>2 DEF TypeInv, TypeOK, HandOK, store, rows, Quiet,
         AcquirePCs, CommandPCs, ReleasePCs
  <2> QED BY <2>2, <2>3
<1>10. CASE ReleaseDelete(t)
  <2>1. pc[t] = "rel_del" /\ local[t] \in Session
    BY <1>10 DEF ReleaseDelete, TypeInv, HandOK
  <2>2. lock' \in [Robots -> Session \cup {NoLock}]
    BY <1>10 DEF ReleaseDelete, TypeInv, TypeOK
  <2>0. 0 \in 0..TTL
    OBVIOUS
  <2>3. ttl' \in [Robots -> 0..TTL]
    BY <1>10, <2>0 DEF ReleaseDelete, TypeInv, TypeOK
  <2>4. age' \in [Robots -> 0..TTL]
    BY <1>10, <2>0 DEF ReleaseDelete, TypeInv, TypeOK
  <2> QED
    BY <1>10, <2>1, <2>2, <2>3, <2>4, MovingType
       DEF ReleaseDelete, TypeInv, TypeOK, rows, Places, Quiet, AcquirePCs,
           CommandPCs, ReleasePCs
<1>11. CASE ReleaseAudit(t)
  <2>1. pc[t] = "rel_audit"
    BY <1>11 DEF ReleaseAudit
  <2>2. ended' \subseteq Sids
    BY <1>11 DEF ReleaseAudit, TypeInv, TypeOK
  <2> QED
    BY <1>11, <2>1, <2>2, EndingType DEF ReleaseAudit, TypeInv, TypeOK, store, Places
<1> QED
  BY <1>1, <1>2, <1>3, <1>4, <1>5, <1>6, <1>7, <1>8, <1>9, <1>10, <1>11
     DEF Run, CommandCheck, CommandRenew, CommandPCs

LEMMA AskType == ASSUME TypeInv, NEW t \in Tasks, Ask(t) PROVE TypeInv'
<1>1. ASSUME NEW ws \in BOOLEAN, NEW r \in Robots, NEW o \in Operators,
             NEW c \in Commands \cup {"none"},
             NEW place \in {"acq_get", "rel_get", "cmd_start"},
             place = "cmd_start" => c \in Commands,
             Arrive(t, ws, r, o, c, place)
      PROVE  TypeInv'
  <2>1. [ws |-> ws, robot |-> r, op |-> o, cmd |-> c] \in Req
    BY DEF Req
  <2> QED
    BY <1>1, <2>1 DEF Arrive, Goto, TypeInv, TypeOK, HandOK, store, rows, Quiet,
       AcquirePCs, CommandPCs, ReleasePCs
<1>2. ASSUME NEW r \in Robots, NEW o \in Operators,
             \/ PostSession(t, r, o) \/ DeleteSession(t, r, o) \/ Connect(t, r, o)
      PROVE  TypeInv'
  BY <1>1, <1>2 DEF PostSession, DeleteSession, Connect
<1>3. ASSUME NEW r \in Robots, NEW o \in Operators, NEW c \in Commands,
             PostCommand(t, r, o, c)
      PROVE  TypeInv'
  BY <1>1, <1>3 DEF PostCommand
<1>4. ASSUME NEW c \in Commands, Receive(t, c) PROVE TypeInv'
  <2>1. pc[t] = "open" /\ req[t] \in Req
    BY <1>4 DEF Receive, TypeInv, HandOK
  <2>2. [req[t] EXCEPT !.cmd = c] \in Req
    BY <2>1 DEF Req
  <2>3. [req[t] EXCEPT !.cmd = c].cmd = c
    BY <2>1 DEF Req
  <2>4. req' = [req EXCEPT ![t] = [req[t] EXCEPT !.cmd = c]]
    BY <1>4 DEF Receive
  <2> QED
    BY <1>4, <2>2, <2>3, <2>4 DEF Receive, Goto, TypeInv, TypeOK, HandOK, store, rows,
       Quiet, AcquirePCs, CommandPCs, ReleasePCs
<1>5. CASE Disconnect(t)
  BY <1>5, MovingType DEF Disconnect, TypeInv, TypeOK, store, rows, Places, Quiet,
     AcquirePCs, CommandPCs, ReleasePCs
<1> QED BY <1>2, <1>3, <1>4, <1>5 DEF Ask

LEMMA WorldType ==
    ASSUME TypeInv,
           \/ \E t \in Tasks : StoreError(t)
           \/ \E r \in Robots : Register(r) \/ Tick(r)
           \/ Crash
    PROVE  TypeInv'
<1>1. ASSUME NEW t \in Tasks, StoreError(t) PROVE TypeInv'
  <2>1. pc[t] \notin Over
    BY <1>1 DEF StoreError, Busy, Quiet
  <2>0. unlogged' \subseteq Sids
    BY <1>1 DEF StoreError, Inserting, TypeInv, TypeOK, HandOK, Session
  <2>2. CASE Fail(t)
    BY <1>1, <2>0, <2>1, <2>2, EndingType DEF StoreError, TypeInv, TypeOK, store, Places
  <2>3. CASE Goto(t, "rel_get") /\ UNCHANGED <<req, local>>
    BY <1>1, <2>0, <2>1, <2>3, MovingType DEF StoreError, TypeInv, TypeOK, store, Places,
       CommandPCs, ReleasePCs
  <2> QED BY <1>1, <2>2, <2>3 DEF StoreError
<1>2. ASSUME NEW r \in Robots, Register(r) PROVE TypeInv'
  BY <1>2 DEF Register, TypeInv, TypeOK, HandOK, store, rows, task
<1>3. ASSUME NEW r \in Robots, Tick(r) PROVE TypeInv'
  <2>1. /\ ttl[r] \in 0..TTL /\ ttl[r] > 0
        /\ age[r] \in 0..TTL
    BY <1>3 DEF Tick, TypeInv, TypeOK
  <2>2. /\ ttl[r] - 1 \in 0..TTL
        /\ (IF age[r] < TTL THEN age[r] + 1 ELSE age[r]) \in 0..TTL
        /\ 0 \in 0..TTL
    BY <2>1, TTLAssumption
  <2>3. age' \in [Robots -> 0..TTL]
    BY <1>3, <2>2 DEF Tick, TypeInv, TypeOK
  <2>4. ttl' \in [Robots -> 0..TTL]
    BY <1>3, <2>2 DEF Tick, TypeInv, TypeOK
  <2>5. lock' \in [Robots -> Session \cup {NoLock}]
    BY <1>3 DEF Tick, TypeInv, TypeOK
  <2> QED
    BY <1>3, <2>3, <2>4, <2>5 DEF Tick, TypeInv, TypeOK, HandOK, rows, task
<1>4. CASE Crash
  <2>1. unlogged' \subseteq Sids
    BY <1>4 DEF Crash, Inserting, TypeInv, TypeOK, HandOK, Session
  <2> QED BY <1>4, <2>1 DEF Crash, TypeInv, TypeOK, HandOK, store, Quiet, CommandPCs
<1> QED BY <1>1, <1>2, <1>3, <1>4

LEMMA NextType == TypeInv /\ [Next]_vars => TypeInv'
<1> SUFFICES ASSUME TypeInv, [Next]_vars PROVE TypeInv'
  OBVIOUS
<1>1. CASE UNCHANGED vars
  BY <1>1 DEF vars, store, rows, task, TypeInv, TypeOK, HandOK
<1>2. CASE Next
  BY <1>2, RunType, AskType, WorldType DEF Next
<1> QED BY <1>1, <1>2

\* Every variable of the control plane stays within its type, for any TTL, any
\* number of handlers and any bound on the session ids, and a handler that is
\* suspended always has the request and the session its next step reads.
THEOREM TypeCorrect == Spec => []TypeInv
BY InitType, NextType, PTL DEF Spec

THEOREM TypeCorrectness == Spec => []TypeOK
<1>1. TypeInv => TypeOK
  BY DEF TypeInv
<1> QED BY <1>1, TypeCorrect, PTL
-----------------------------------------------------------------------------
(* Requests for one robot that do not overlap.  What a handler read before  *)
(* its last await still says who may own the key: nobody else is at work on *)
(* the robot, and eviction only ever frees the key.                         *)

Exclusive ==
    \A t, u \in Tasks :
        t # u /\ Busy(t) /\ Busy(u) => req[t].robot # req[u].robot

StillTrue(t) ==
    LET now == lock[req[t].robot]
        o == req[t].op
    IN  /\ pc[t] = "acq_set" =>
             \/ local[t] = NoLock /\ now = NoLock
             \/ Owns(local[t], o) /\ now \in {NoLock, local[t]}
        /\ \/ pc[t] \in {"cmd_renew", "cmd_expire"}
           \/ pc[t] = "cmd_publish" /\ req[t].cmd # "stop"
           => now = NoLock \/ Owns(now, o)
        /\ pc[t] = "rel_del" => Owns(local[t], o) /\ now \in {NoLock, local[t]}
        /\ pc[t] = "rel_audit" => now = NoLock

SerialInv == Exclusive /\ \A t \in Tasks : StillTrue(t)

\* A step of one handler leaves the other handlers alone, and the keys of other robots.
LEMMA OwnBusiness ==
    ASSUME TypeInv, NEW t \in Tasks, Run(t) \/ StoreError(t)
    PROVE  /\ Busy(t)
           /\ \A u \in Tasks \ {t} :
                 pc'[u] = pc[u] /\ req'[u] = req[u] /\ local'[u] = local[u]
           /\ \A r \in Robots \ {req[t].robot} : lock'[r] = lock[r]
           /\ Busy(t)' => req'[t] = req[t]
<1> USE DEF Goto, Busy, Quiet, TypeInv, TypeOK, store
<1>0. ASSUME Finish(t) \/ Return(t) \/ Fail(t)
      PROVE  /\ pc'[t] \in Quiet
             /\ \A u \in Tasks \ {t} :
                   pc'[u] = pc[u] /\ req'[u] = req[u] /\ local'[u] = local[u]
  BY <1>0 DEF Finish, Return, Fail
<1>1. CASE AcquireGet(t) BY <1>0, <1>1 DEF AcquireGet
<1>2. CASE AcquireSet(t) BY <1>2 DEF AcquireSet
<1>3. CASE AcquireAudit(t) BY <1>3 DEF AcquireAudit
<1>4. CASE AcquireInfo(t) BY <1>0, <1>4 DEF AcquireInfo
<1>5. CASE CommandStart(t) BY <1>5 DEF CommandStart
<1>6. CASE CommandCheck(t) BY <1>0, <1>6 DEF CommandCheck, HolderRead
<1>7. CASE CommandRenew(t) BY <1>0, <1>7 DEF CommandRenew, HolderRead
<1>8. CASE CommandExpire(t) BY <1>8 DEF CommandExpire
<1>9. CASE CommandPublish(t) BY <1>0, <1>9 DEF CommandPublish
<1>10. CASE ReleaseGet(t) BY <1>0, <1>10 DEF ReleaseGet
<1>11. CASE ReleaseDelete(t) BY <1>11 DEF ReleaseDelete
<1>12. CASE ReleaseAudit(t) BY <1>0, <1>12 DEF ReleaseAudit
<1>13. CASE StoreError(t) BY <1>0, <1>13 DEF StoreError
<1> QED
  BY <1>1, <1>2, <1>3, <1>4, <1>5, <1>6, <1>7, <1>8, <1>9, <1>10, <1>11, <1>12, <1>13
     DEF Run

\* ... so that what the others have read is as true as before.
LEMMA OthersUndisturbed ==
    ASSUME TypeInv, SerialInv, NEW t \in Tasks, Run(t) \/ StoreError(t)
    PROVE  Exclusive' /\ \A u \in Tasks \ {t} : StillTrue(u)'
<1>1. Exclusive'
  BY OwnBusiness DEF SerialInv, Exclusive, Busy
<1>2. ASSUME NEW u \in Tasks \ {t} PROVE StillTrue(u)'
  <2>1. pc'[u] = pc[u] /\ req'[u] = req[u] /\ local'[u] = local[u]
    BY OwnBusiness
  <2>2. CASE ~Busy(u)
    BY <2>1, <2>2 DEF Busy, Quiet, StillTrue
  <2>3. CASE Busy(u)
    <3>1. req[u].robot \in Robots \ {req[t].robot}
      BY <2>3, OwnBusiness DEF SerialInv, Exclusive, TypeInv, HandOK, Req, Busy, Quiet
    <3>2. lock'[req[u].robot] = lock[req[u].robot]
      BY <3>1, OwnBusiness
    <3> QED BY <2>1, <3>2 DEF SerialInv, StillTrue, Owns, NoLock
  <2> QED BY <2>2, <2>3
<1> QED BY <1>1, <1>2

LEMMA RunSerial ==
    ASSUME TypeInv, SerialInv, NEW t \in Tasks, Run(t) \/ StoreError(t)
    PROVE  SerialInv'
<1> SUFFICES StillTrue(t)'
  BY OthersUndisturbed DEF SerialInv
<1> USE DEF Goto
<1>0. /\ StillTrue(t)
      /\ pc[t] \notin Quiet /\ req[t].robot \in Robots /\ req[t].op \in Operators
      /\ pc \in [Tasks -> Places]
  BY OwnBusiness DEF SerialInv, TypeInv, TypeOK, HandOK, Req, Busy, Quiet, Places
<1>1. ASSUME pc'[t] \notin {"acq_set", "cmd_renew", "cmd_expire", "cmd_publish",
                            "rel_del", "rel_audit"}
      PROVE  StillTrue(t)'
  BY <1>1 DEF StillTrue
<1>2. ASSUME Finish(t) \/ Return(t) \/ Fail(t) PROVE StillTrue(t)'
  <2>1. pc'[t] \in Quiet
    BY <1>0, <1>2 DEF Finish, Return, Fail, Quiet
  <2> QED BY <2>1, <1>1 DEF Quiet
<1>3. CASE AcquireGet(t)
  BY <1>0, <1>2, <1>3 DEF AcquireGet, StillTrue, store, TypeInv, TypeOK
<1>4. CASE AcquireSet(t)
  BY <1>0, <1>1, <1>4 DEF AcquireSet
<1>5. CASE AcquireAudit(t) \/ AcquireInfo(t)
  BY <1>0, <1>1, <1>2, <1>5 DEF AcquireAudit, AcquireInfo
<1>6. CASE CommandStart(t)
  BY <1>0, <1>6 DEF CommandStart, StillTrue
<1>7. CASE CommandCheck(t) \/ CommandRenew(t)
  BY <1>0, <1>2, <1>7 DEF CommandCheck, CommandRenew, HolderRead, StillTrue, store
<1>8. CASE CommandExpire(t)
  BY <1>0, <1>8 DEF CommandExpire, StillTrue
<1>9. CASE CommandPublish(t)
  BY <1>2, <1>9 DEF CommandPublish
<1>10. CASE ReleaseGet(t)
  BY <1>0, <1>2, <1>10 DEF ReleaseGet, StillTrue, store, TypeInv, TypeOK
<1>11. CASE ReleaseDelete(t)
  BY <1>0, <1>11 DEF ReleaseDelete, StillTrue, TypeInv, TypeOK
<1>12. CASE ReleaseAudit(t)
  BY <1>2, <1>12 DEF ReleaseAudit
<1>13. CASE StoreError(t)
  BY <1>0, <1>1, <1>2, <1>13 DEF StoreError
<1> QED
  BY <1>3, <1>4, <1>5, <1>6, <1>7, <1>8, <1>9, <1>10, <1>11, <1>12, <1>13 DEF Run

\* A request that arrives has read nothing yet, and finds its robot's others at rest.
LEMMA AskSerial ==
    ASSUME TypeInv, SerialInv, Serialized, NEW t \in Tasks, Ask(t)
    PROVE  SerialInv' /\ UNCHANGED <<lock, lastCmd>>
<1> DEFINE r == req'[t].robot
           Arrived ==
             /\ Clear(t, r)
             /\ pc'[t] \in {"acq_get", "rel_get", "cmd_start"}
             /\ \A u \in Tasks \ {t} :
                   pc'[u] = pc[u] /\ req'[u] = req[u] /\ local'[u] = local[u]
             /\ UNCHANGED <<lock, lastCmd>>
<1>1. Arrived
  <2> USE DEF Goto, store, TypeInv, TypeOK
  <2>1. ASSUME NEW ws, NEW q \in Robots, NEW o, NEW c,
               NEW place \in {"acq_get", "rel_get", "cmd_start"},
               Arrive(t, ws, q, o, c, place)
        PROVE  Arrived
    BY <2>1 DEF Arrive
  <2>2. ASSUME NEW c \in Commands, Receive(t, c) PROVE Arrived
    <3>1. req[t] \in Req
      BY <2>2 DEF Receive, HandOK
    <3> QED BY <2>2, <3>1 DEF Receive, Req
  <2>3. ASSUME Disconnect(t) PROVE Arrived
    BY <2>3 DEF Disconnect
  <2>4. ASSUME NEW q \in Robots, NEW o \in Operators,
               \/ PostSession(t, q, o) \/ DeleteSession(t, q, o) \/ Connect(t, q, o)
               \/ \E c \in Commands : PostCommand(t, q, o, c)
        PROVE  Arrived
    BY <2>1, <2>4 DEF PostSession, DeleteSession, Connect, PostCommand
  <2> QED BY <2>2, <2>3, <2>4 DEF Ask
<1>2. Exclusive'
  BY <1>1 DEF SerialInv, Exclusive, Clear, Busy
<1>3. ASSUME NEW u \in Tasks PROVE StillTrue(u)'
  BY <1>1 DEF SerialInv, StillTrue, Owns, NoLock
<1> QED BY <1>1, <1>2, <1>3 DEF SerialInv

LEMMA WorldSerial ==
    ASSUME TypeInv, SerialInv,
           (\E r \in Robots : Register(r) \/ Tick(r)) \/ Crash \/ UNCHANGED vars
    PROVE  SerialInv'
<1>1. ASSUME UNCHANGED task, \A r \in Robots : lock'[r] \in {lock[r], NoLock}
      PROVE  SerialInv'
  <2>1. Exclusive'
    BY <1>1 DEF SerialInv, Exclusive, Busy, task
  <2>2. ASSUME NEW u \in Tasks PROVE StillTrue(u)'
    <3>1. CASE pc[u] \in Over
      BY <1>1, <3>1 DEF StillTrue, task
    <3>2. CASE pc[u] \notin Over
      <4>1. req[u].robot \in Robots
        BY <3>2 DEF TypeInv, HandOK, Req
      <4> QED BY <1>1, <4>1 DEF SerialInv, StillTrue, Owns, NoLock, task
    <3> QED BY <3>1, <3>2
  <2> QED BY <2>1, <2>2 DEF SerialInv
<1>2. ASSUME NEW r \in Robots, Register(r) PROVE SerialInv'
  BY <1>1, <1>2 DEF Register, store
<1>3. ASSUME NEW r \in Robots, Tick(r) PROVE SerialInv'
  BY <1>1, <1>3 DEF Tick, TypeInv, TypeOK
<1>4. CASE Crash
  BY <1>4 DEF Crash, SerialInv, Exclusive, StillTrue, Busy, Quiet
<1>5. CASE UNCHANGED vars
  BY <1>1, <1>5 DEF vars, store
<1> QED BY <1>2, <1>3, <1>4, <1>5

LEMMA SerialInductive ==
    Serialized => (Spec => [](TypeInv /\ SerialInv))
<1> SUFFICES ASSUME Serialized PROVE Spec => [](TypeInv /\ SerialInv)
  OBVIOUS
<1>1. Init => SerialInv
  BY DEF Init, SerialInv, Exclusive, StillTrue, Busy, Quiet
<1>2. TypeInv /\ SerialInv /\ [Next]_vars => SerialInv'
  BY RunSerial, AskSerial, WorldSerial DEF Next
<1> QED BY <1>1, <1>2, TypeCorrect, PTL DEF Spec

\* No handler overwrites, prolongs, deletes or drives under the session of another
\* operator, as long as the requests for one robot do not overlap.
THEOREM OwnSessionOnly == Serialized => (Spec => []WritesHitOwnSession)
<1>1. SerialInv => WritesHitOwnSession
  BY DEF SerialInv, StillTrue, WritesHitOwnSession, Owns, NoLock
<1> QED BY <1>1, SerialInductive, PTL
-----------------------------------------------------------------------------
(* ControlPlane implements ControlLock: each step of the control plane is a *)
(* step of the abstract lock or leaves it as it is.                         *)

LEMMA InitPromise == Init => Promise!Init
BY DEF Init, Promise!Init, NoCommand, Promise!NoCommand, NoLock

\* Handler steps that touch neither the key nor the robot's topic.
LEMMA Invisible ==
    ASSUME UNCHANGED <<lock, lastCmd>> PROVE UNCHANGED Promise!vars
BY DEF Promise!vars

LEMMA StepPromise ==
    ASSUME Serialized, TypeInv, SerialInv, [Next]_vars
    PROVE  [Promise!Next]_(Promise!vars)
<1> DEFINE holder == [r \in Robots |-> lock[r].op]
<1>1. ASSUME NEW t \in Tasks, Run(t) \/ StoreError(t)
      PROVE  [Promise!Next]_(Promise!vars)
  <2>0. PICK r \in Robots, o \in Operators :
            r = req[t].robot /\ o = req[t].op /\ StillTrue(t)
    BY <1>1, OwnBusiness DEF SerialInv, TypeInv, HandOK, Req, Busy, Quiet
  <2>1. CASE AcquireSet(t)
    <3>1. PICK value : /\ value.op = o
                       /\ lock' = [lock EXCEPT ![r] = value]
                       /\ lastCmd' = lastCmd
                       /\ lock[r] = NoLock \/ lock[r].op = o
      BY <2>0, <2>1 DEF AcquireSet, StillTrue, Owns
    <3>2. holder' = [holder EXCEPT ![r] = o]
      BY <2>0, <3>1 DEF TypeInv, TypeOK
    <3>3. CASE lock[r] = NoLock
      <4>1. Promise!Grant(r, o)
        BY <2>0, <3>1, <3>2, <3>3 DEF Promise!Grant, NoLock
      <4> QED BY <2>0, <4>1 DEF Promise!Next
    <3>4. CASE lock[r].op = o
      BY <2>0, <3>1, <3>2, <3>4 DEF Promise!vars
    <3> QED BY <3>1, <3>3, <3>4
  <2>2. CASE CommandPublish(t)
    <3>1. /\ lock' = lock
          /\ lastCmd' = [lastCmd EXCEPT ![r] = [op |-> o, cmd |-> req[t].cmd]]
          /\ req[t].cmd \in Commands
          /\ req[t].cmd = "stop" \/ lock[r] = NoLock \/ Owns(lock[r], o)
      BY <2>0, <2>2 DEF CommandPublish, StillTrue, TypeInv, HandOK, CommandPCs
    <3>2. Promise!Drive(r, o, req[t].cmd)
      BY <2>0, <3>1 DEF Promise!Drive, Owns, NoLock
    <3> QED BY <2>0, <3>1, <3>2 DEF Promise!Next
  <2>3. CASE ReleaseDelete(t)
    <3>1. lock' = [lock EXCEPT ![r] = NoLock] /\ lastCmd' = lastCmd
      BY <2>0, <2>3 DEF ReleaseDelete
    <3>2. Promise!Free(r)
      BY <2>0, <3>1 DEF Promise!Free, NoLock, TypeInv, TypeOK
    <3> QED BY <2>0, <3>2 DEF Promise!Next
  <2>4. CASE \/ AcquireGet(t) \/ AcquireAudit(t) \/ AcquireInfo(t)
             \/ CommandStart(t) \/ CommandCheck(t) \/ CommandRenew(t)
             \/ CommandExpire(t) \/ ReleaseGet(t) \/ ReleaseAudit(t) \/ StoreError(t)
    <3>1. UNCHANGED <<lock, lastCmd>>
      BY <2>4 DEF AcquireGet, AcquireAudit, AcquireInfo, CommandStart, CommandCheck,
         CommandRenew, HolderRead, CommandExpire, ReleaseGet, ReleaseAudit, StoreError,
         store
    <3> QED BY <3>1, Invisible
  <2> QED BY <1>1, <2>1, <2>2, <2>3, <2>4 DEF Run
<1>2. ASSUME NEW t \in Tasks, Ask(t) PROVE [Promise!Next]_(Promise!vars)
  BY <1>2, AskSerial, Invisible
<1>3. ASSUME NEW r \in Robots, Tick(r) PROVE [Promise!Next]_(Promise!vars)
  <2>1. CASE lock' = [lock EXCEPT ![r] = NoLock]
    <3>1. lastCmd' = lastCmd
      BY <1>3 DEF Tick
    <3>2. Promise!Free(r)
      BY <2>1, <3>1 DEF Promise!Free, NoLock, TypeInv, TypeOK
    <3> QED BY <3>2 DEF Promise!Next
  <2>2. CASE lock' = lock
    BY <1>3, <2>2, Invisible DEF Tick
  <2> QED BY <1>3, <2>1, <2>2 DEF Tick, TypeInv, TypeOK
<1>4. CASE (\E r \in Robots : Register(r)) \/ Crash \/ UNCHANGED vars
  BY <1>4, Invisible DEF Register, Crash, vars, store
<1> QED BY <1>1, <1>2, <1>3, <1>4 DEF Next

\* Control of a robot is exclusive and passes only through "nobody", and a driving
\* command is never published under another operator's session, as long as the
\* requests for one robot do not overlap.
THEOREM ImplementsLock == Serialized => (Spec => ImplementsControlLock)
<1> SUFFICES ASSUME Serialized PROVE Spec => ImplementsControlLock
  OBVIOUS
<1>1. Spec => [](TypeInv /\ SerialInv)
  BY SerialInductive
<1>2. TypeInv /\ SerialInv /\ [Next]_vars => [Promise!Next]_(Promise!vars)
  BY StepPromise
<1> QED BY <1>1, <1>2, InitPromise, PTL DEF Spec, ImplementsControlLock, Promise!Spec

\* What overlapping acquires refute (sessions/manager.py:3-6) holds of every other
\* history: no step replaces an operator's session by a different operator's, as
\* long as the requests for one robot do not overlap.
THEOREM HolderIsNotReplaced == Serialized => (Spec => HolderNeverReplaced)
<1> SUFFICES ASSUME Serialized PROVE Spec => HolderNeverReplaced
  OBVIOUS
<1> DEFINE Keeps == \A r \in Robots :
                       lock[r] # NoLock /\ lock'[r] # NoLock => lock'[r].op = lock[r].op
<1>1. ASSUME TypeInv, TypeInv', SerialInv, [Next]_vars PROVE Keeps
  <2> SUFFICES ASSUME NEW r \in Robots, lock[r] # NoLock, lock'[r] # NoLock
               PROVE  lock'[r].op = lock[r].op
    OBVIOUS
  <2> DEFINE holder == [q \in Robots |-> lock[q].op]
  <2>1. holder[r] \in Operators /\ holder'[r] \in Operators
    BY <1>1 DEF TypeInv, TypeOK, Session
  <2>2. holder[r] # Nobody /\ holder'[r] # Nobody
    BY <2>1, NamesAssumption
  <2>3. [Promise!Next]_(Promise!vars)
    BY <1>1, StepPromise
  <2>4. ASSUME NEW q \in Robots, NEW o \in Operators, Promise!Grant(q, o)
        PROVE  holder'[r] = holder[r]
    BY <2>2, <2>4 DEF Promise!Grant
  <2>5. ASSUME NEW q \in Robots, Promise!Free(q) PROVE holder'[r] = holder[r]
    BY <2>2, <2>5 DEF Promise!Free
  <2>6. ASSUME NEW q \in Robots, NEW o \in Operators, NEW c \in Commands, Promise!Drive(q, o, c)
        PROVE  holder'[r] = holder[r]
    BY <2>6 DEF Promise!Drive
  <2>7. ASSUME UNCHANGED Promise!vars PROVE holder'[r] = holder[r]
    BY <2>7 DEF Promise!vars
  <2>8. holder'[r] = holder[r]
    BY <2>3, <2>4, <2>5, <2>6, <2>7 DEF Promise!Next
  <2> QED BY <2>8
<1>2. Spec => [][Keeps]_vars
  BY <1>1, SerialInductive, TypeCorrect, PTL DEF Spec
<1> QED BY <1>2 DEF HolderNeverReplaced
-----------------------------------------------------------------------------
(* The audit log.  A session id names one session of one operator on one    *)
(* robot, wherever it turns up: in Redis, in the hands of a handler, or in  *)
(* a row.  This needs no assumption on how requests overlap.                *)

\* Session s is, or was, a session of robot r.
Seen(s, r) ==
    /\ s # NoLock
    /\ \/ lock[r] = s
       \/ \E t \in Tasks : req[t].robot = r /\ local[t] = s
       \/ [sid |-> s.sid, robot |-> r, op |-> s.op] \in audit

OneOwner ==
    \A r, q \in Robots, s, z \in Session :
        Seen(s, r) /\ Seen(z, q) /\ s.sid = z.sid => r = q /\ s = z

Minted == \A r \in Robots, s \in Session : Seen(s, r) => s.sid < nextSid

\* A session about to be inserted has no row, and nobody else is to insert it.
Uninserted ==
    \A t \in Tasks :
        /\ pc[t] = "acq_audit" =>
              /\ local[t].op = req[t].op
              /\ \A a \in audit : a.sid # local[t].sid
              /\ \A u \in Tasks \ {t} :
                    pc[u] = "acq_audit" => local[u].sid # local[t].sid
        /\ pc[t] = "acq_set" /\ local[t] # NoLock => local[t].op = req[t].op
        /\ pc[t] \in Quiet \cup {"acq_get"} => local[t] = NoLock

AuditInv == OneOwner /\ Minted /\ Uninserted

\* Steps that bring no new session into the world keep ids unique.
LEMMA NothingNew ==
    ASSUME OneOwner, Minted, nextSid' = nextSid,
           \A r \in Robots, s \in Session : Seen(s, r)' => Seen(s, r)
    PROVE  OneOwner' /\ Minted'
BY DEF OneOwner, Minted

\* The same when keys and rows are as before or fewer, and no handler
\* carries over what it holds to another robot.
LEMMA NothingSeen ==
    ASSUME OneOwner, Minted, nextSid' = nextSid, audit' = audit,
           \A r \in Robots : lock'[r] \in {lock[r], NoLock},
           \A u \in Tasks :
               \/ local'[u] = NoLock
               \/ local'[u] = local[u] /\ req'[u].robot = req[u].robot
               \/ local'[u] = lock[req[u].robot] /\ req'[u].robot = req[u].robot
    PROVE  OneOwner' /\ Minted'
<1>1. ASSUME NEW r \in Robots, NEW s \in Session, Seen(s, r)' PROVE Seen(s, r)
  BY <1>1 DEF Seen, NoLock
<1> QED BY <1>1, NothingNew

LEMMA SetAudit ==
    ASSUME TypeInv, AuditInv, NEW t \in Tasks, AcquireSet(t)
    PROVE  AuditInv'
<1> DEFINE r == req[t].robot
           value == IF local[t] = NoLock
                       THEN [sid |-> nextSid, op |-> req[t].op]
                       ELSE local[t]
<1>1. /\ pc[t] = "acq_set"
      /\ lock' = [lock EXCEPT ![r] = value]
      /\ nextSid' = IF local[t] = NoLock THEN nextSid + 1 ELSE nextSid
      /\ pc' = [pc EXCEPT ![t] = IF local[t] = NoLock THEN "acq_audit" ELSE "acq_info"]
      /\ local' = [local EXCEPT ![t] = value]
      /\ UNCHANGED <<audit, req>>
  BY DEF AcquireSet, Goto, rows
<1>2. /\ r \in Robots /\ req[t].op \in Operators /\ nextSid \in Sids
      /\ lock \in [Robots -> Session \cup {NoLock}]
      /\ local \in [Tasks -> Session \cup {NoLock}]
      /\ pc \in [Tasks -> Places]
      /\ value.op = req[t].op
  BY <1>1 DEF TypeInv, TypeOK, HandOK, Req, Places, AuditInv, Uninserted
<1>3. \A q \in Robots, s \in Session :
         Seen(s, q)' => Seen(s, q) \/ (s = value /\ q = r)
  <2> HIDE DEF value
  <2> QED BY <1>1, <1>2 DEF Seen
<1>4. CASE local[t] # NoLock
  <2>1. Seen(value, r)
    BY <1>4 DEF Seen
  <2>2. OneOwner' /\ Minted'
    BY <1>1, <1>3, <1>4, <2>1, NothingNew DEF AuditInv
  <2>3. Uninserted'
    BY <1>1, <1>2, <1>4 DEF AuditInv, Uninserted, Quiet
  <2> QED BY <2>2, <2>3 DEF AuditInv
<1>5. CASE local[t] = NoLock
  <2>1. value = [sid |-> nextSid, op |-> req[t].op] /\ value \in Session
    BY <1>2, <1>5 DEF Session
  <2>2. nextSid' = nextSid + 1 /\ nextSid \in Nat
    BY <1>1, <1>2, <1>5 DEF Sids
  <2>3. \A q \in Robots, s \in Session : Seen(s, q) => s.sid < nextSid /\ s.sid \in Nat
    BY DEF AuditInv, Minted, Session, Sids
  <2>4. Minted'
    <3> SUFFICES ASSUME NEW q \in Robots, NEW s \in Session, Seen(s, q)'
                 PROVE  s.sid < nextSid + 1
      BY <2>2 DEF Minted
    <3>1. CASE Seen(s, q)
      BY <2>2, <2>3, <3>1
    <3>2. CASE s = value
      BY <2>1, <2>2, <3>2
    <3> QED BY <1>3, <3>1, <3>2
  <2>5. OneOwner'
    <3> SUFFICES ASSUME NEW q1 \in Robots, NEW q2 \in Robots,
                        NEW s \in Session, NEW z \in Session,
                        Seen(s, q1)', Seen(z, q2)', s.sid = z.sid
                 PROVE  q1 = q2 /\ s = z
      BY DEF OneOwner
    <3>1. CASE Seen(s, q1) /\ Seen(z, q2)
      BY <3>1 DEF AuditInv, OneOwner
    <3>2. CASE Seen(s, q1) /\ z = value
      BY <2>1, <2>2, <2>3, <3>2
    <3>3. CASE Seen(z, q2) /\ s = value
      BY <2>1, <2>2, <2>3, <3>3
    <3> QED BY <1>3, <3>1, <3>2, <3>3
  <2>6. \A a \in audit : a.sid < nextSid /\ a.sid \in Nat
    <3> SUFFICES ASSUME NEW a \in audit PROVE a.sid < nextSid /\ a.sid \in Nat
      OBVIOUS
    <3>1. a \in [sid : Sids, robot : Robots, op : Operators]
      BY DEF TypeInv, TypeOK
    <3>2. [sid |-> a.sid, op |-> a.op] \in Session /\ a.robot \in Robots
      BY <3>1 DEF Session
    <3>3. a = [sid |-> a.sid, robot |-> a.robot, op |-> a.op] /\ a.sid # 0
      BY <3>1 DEF Sids
    <3>4. Seen([sid |-> a.sid, op |-> a.op], a.robot)
      BY <3>3 DEF Seen, NoLock
    <3> QED BY <2>3, <3>2, <3>4
  <2>7. \A u \in Tasks : pc[u] = "acq_audit" =>
            local[u].sid < nextSid /\ local[u].sid \in Nat
    <3> SUFFICES ASSUME NEW u \in Tasks, pc[u] = "acq_audit"
                 PROVE  local[u].sid < nextSid /\ local[u].sid \in Nat
      OBVIOUS
    <3>1. local[u] \in Session /\ req[u].robot \in Robots
      BY DEF TypeInv, HandOK, Req
    <3>2. Seen(local[u], req[u].robot)
      BY <3>1 DEF Seen, NoLock, Session, Sids
    <3> QED BY <2>3, <3>1, <3>2
  <2>8. Uninserted'
    <3>1. /\ pc'[t] = "acq_audit" /\ local'[t].sid = nextSid
          /\ local'[t].op = req'[t].op
          /\ \A u \in Tasks \ {t} :
                pc'[u] = pc[u] /\ local'[u] = local[u] /\ req'[u] = req[u]
      BY <1>1, <1>2, <1>5, <2>1
    <3> HIDE DEF value
    <3>2. \A a \in audit : a.sid # nextSid
      BY <2>2, <2>6
    <3>3. \A u \in Tasks : pc[u] = "acq_audit" => local[u].sid # nextSid
      BY <2>2, <2>7
    <3> QED BY <1>1, <3>1, <3>2, <3>3 DEF AuditInv, Uninserted, Quiet
  <2> QED BY <2>4, <2>5, <2>8 DEF AuditInv
<1> QED BY <1>4, <1>5

LEMMA InsertAudit ==
    ASSUME TypeInv, AuditInv, NEW t \in Tasks, AcquireAudit(t)
    PROVE  AuditInv'
<1> DEFINE r == req[t].robot
           row == [sid |-> local[t].sid, robot |-> r, op |-> req[t].op]
<1>1. /\ pc[t] = "acq_audit" /\ pc' = [pc EXCEPT ![t] = "acq_info"]
      /\ audit' = audit \cup {row}
      /\ UNCHANGED <<lock, nextSid, req, local>>
  BY DEF AcquireAudit, Goto, store
<1>2. /\ local[t] \in Session /\ local[t].op = req[t].op
      /\ pc \in [Tasks -> Places]
  BY <1>1 DEF TypeInv, TypeOK, HandOK, Places, AuditInv, Uninserted
<1>3. ASSUME NEW q \in Robots, NEW s \in Session, Seen(s, q)' PROVE Seen(s, q)
  <2>1. CASE [sid |-> s.sid, robot |-> q, op |-> s.op] = row
    <3>1. s.sid = local[t].sid /\ s.op = local[t].op /\ q = r
      BY <1>2, <2>1
    <3>2. s = local[t]
      BY <1>2, <3>1 DEF Session
    <3> QED BY <1>3, <3>1, <3>2 DEF Seen
  <2> QED BY <1>1, <1>3, <2>1 DEF Seen
<1>4. OneOwner' /\ Minted'
  BY <1>1, <1>3, NothingNew DEF AuditInv
<1>5. Uninserted'
  BY <1>1, <1>2 DEF AuditInv, Uninserted, Quiet
<1> QED BY <1>4, <1>5 DEF AuditInv

\* Handler steps other than the two that create a session and its row.
LEMMA QuietAudit ==
    ASSUME TypeInv, AuditInv, NEW t \in Tasks, Run(t) \/ StoreError(t),
           ~AcquireSet(t), ~AcquireAudit(t)
    PROVE  AuditInv'
<1> USE DEF Goto, store, rows
<1>0. /\ pc \in [Tasks -> Places] /\ req[t].robot \in Robots
      /\ lock \in [Robots -> Session \cup {NoLock}]
      /\ req \in [Tasks -> Req \cup {NoReq}]
      /\ local \in [Tasks -> Session \cup {NoLock}]
      /\ req[t] \in Req
  BY OwnBusiness DEF TypeInv, TypeOK, HandOK, Req, Busy, Quiet, Places
<1>1. /\ nextSid' = nextSid /\ audit' = audit
      /\ \A q \in Robots : lock'[q] \in {lock[q], NoLock}
  BY <1>0 DEF Run, AcquireGet, AcquireInfo, CommandStart, CommandCheck, CommandRenew,
     HolderRead, CommandExpire, CommandPublish, ReleaseGet, ReleaseDelete, ReleaseAudit,
     StoreError
<1>2. ASSUME Finish(t) \/ Return(t) \/ Fail(t)
      PROVE  /\ local'[t] = NoLock /\ pc'[t] \in Quiet
  BY <1>0, <1>2 DEF Finish, Return, Fail, Quiet
<1>3. \/ /\ local'[t] = NoLock
         /\ pc'[t] \in Quiet
      \/ /\ local'[t] = local[t] /\ req'[t] = req[t]
         /\ pc'[t] \notin {"acq_audit", "acq_set", "acq_get"} \cup Quiet
      \/ /\ local'[t] = lock[req[t].robot] /\ req'[t] = req[t]
         /\ \/ pc'[t] \notin {"acq_audit", "acq_set", "acq_get"} \cup Quiet
            \/ pc'[t] = "acq_set" /\ (local'[t] # NoLock => local'[t].op = req[t].op)
  <2> USE <1>0 DEF Quiet
  <2>1. CASE AcquireGet(t)
    BY <1>2, <2>1 DEF AcquireGet, Owns
  <2>2. CASE AcquireInfo(t) \/ CommandPublish(t) \/ ReleaseAudit(t)
    BY <1>2, <2>2 DEF AcquireInfo, CommandPublish, ReleaseAudit
  <2>3. CASE CommandStart(t) \/ CommandExpire(t) \/ ReleaseDelete(t)
    BY <2>3 DEF CommandStart, CommandExpire, ReleaseDelete
  <2>4. CASE CommandCheck(t) \/ CommandRenew(t)
    BY <1>2, <2>4 DEF CommandCheck, CommandRenew, HolderRead
  <2>5. CASE ReleaseGet(t)
    BY <1>2, <2>5 DEF ReleaseGet
  <2>6. CASE StoreError(t)
    BY <1>2, <2>6 DEF StoreError
  <2> QED BY <2>1, <2>2, <2>3, <2>4, <2>5, <2>6 DEF Run
<1>4. \A u \in Tasks \ {t} : pc'[u] = pc[u] /\ req'[u] = req[u] /\ local'[u] = local[u]
  BY OwnBusiness
<1>5. OneOwner' /\ Minted'
  BY <1>1, <1>3, <1>4, NothingSeen DEF AuditInv
<1>6. Uninserted'
  BY <1>1, <1>3, <1>4 DEF AuditInv, Uninserted, Quiet
<1> QED BY <1>5, <1>6 DEF AuditInv

LEMMA AskAudit ==
    ASSUME TypeInv, AuditInv, NEW t \in Tasks, Ask(t)
    PROVE  AuditInv' /\ UNCHANGED rows
<1> DEFINE Arrived ==
             /\ pc[t] \in Quiet
             /\ pc'[t] \in {"acq_get", "rel_get", "cmd_start"}
             /\ \A u \in Tasks \ {t} : pc'[u] = pc[u] /\ req'[u] = req[u]
             /\ UNCHANGED <<lock, nextSid, rows, local>>
<1>1. Arrived
  <2> USE DEF Goto, store, TypeInv, TypeOK, Quiet
  <2>1. ASSUME NEW ws, NEW q, NEW o, NEW c,
               NEW place \in {"acq_get", "rel_get", "cmd_start"},
               Arrive(t, ws, q, o, c, place)
        PROVE  Arrived
    BY <2>1 DEF Arrive
  <2>2. ASSUME NEW c, Receive(t, c) PROVE Arrived
    BY <2>2 DEF Receive
  <2>3. ASSUME Disconnect(t) PROVE Arrived
    BY <2>3 DEF Disconnect
  <2> QED BY <2>1, <2>2, <2>3 DEF Ask, PostSession, DeleteSession, Connect, PostCommand
<1>2. local[t] = NoLock
  BY <1>1 DEF AuditInv, Uninserted
<1>3. OneOwner' /\ Minted'
  BY <1>1, <1>2, NothingSeen DEF AuditInv, rows
<1>4. Uninserted'
  BY <1>1, <1>2 DEF AuditInv, Uninserted, rows, Quiet
<1> QED BY <1>1, <1>3, <1>4 DEF AuditInv

LEMMA WorldAudit ==
    ASSUME TypeInv, AuditInv,
           (\E r \in Robots : Register(r) \/ Tick(r)) \/ Crash \/ UNCHANGED vars
    PROVE  AuditInv' /\ UNCHANGED <<audit, ended>>
<1>1. /\ nextSid' = nextSid /\ UNCHANGED <<audit, ended>>
      /\ \A r \in Robots : lock'[r] \in {lock[r], NoLock}
      /\ UNCHANGED task \/ Crash
  BY DEF Register, Tick, Crash, vars, store, rows, task, TypeInv, TypeOK
<1>2. OneOwner' /\ Minted'
  BY <1>1, NothingSeen DEF AuditInv, rows, task, Crash
<1>3. Uninserted'
  BY <1>1 DEF AuditInv, Uninserted, Crash, rows, task, Quiet
<1> QED BY <1>1, <1>2, <1>3 DEF AuditInv

LEMMA InitAudit == Init => AuditInv
BY DEF Init, AuditInv, OneOwner, Minted, Uninserted, Seen, Quiet, NoLock

\* No minted id is forgotten: it passes from the handler that is to insert its row
\* to the row, or to those whose INSERT failed.
AllAccounted == \A s \in 1..nextSid - 1 : Accounted(s)

LEMMA KeepsAccounted ==
    ASSUME AllAccounted, nextSid' = nextSid,
           audit \subseteq audit', unlogged \subseteq unlogged',
           \A t \in Inserting :
               \/ t \in Inserting' /\ local'[t] = local[t]
               \/ \E a \in audit' : a.sid = local[t].sid
               \/ local[t].sid \in unlogged'
    PROVE  AllAccounted'
<1> SUFFICES ASSUME NEW s \in 1..nextSid - 1 PROVE Accounted(s)'
  BY DEF AllAccounted
<1>1. Accounted(s)
  BY DEF AllAccounted
<1> QED BY <1>1 DEF Accounted

LEMMA StepAccounted ==
    ASSUME TypeInv, AllAccounted, [Next]_vars PROVE AllAccounted'
<1> USE DEF Goto, Inserting
<1>0. pc \in [Tasks -> Places] /\ nextSid \in Nat
  BY DEF TypeInv, TypeOK, Places, Sids
<1>1. ASSUME NEW t \in Tasks, AcquireSet(t) PROVE AllAccounted'
  <2>1. /\ pc[t] = "acq_set" /\ UNCHANGED <<audit, unlogged>>
        /\ \A u \in Inserting : u \in Inserting' /\ local'[u] = local[u]
    BY <1>0, <1>1 DEF AcquireSet, rows
  <2>2. CASE local[t] # NoLock
    BY <1>1, <2>1, <2>2, KeepsAccounted DEF AcquireSet
  <2>3. CASE local[t] = NoLock
    <3>1. /\ nextSid' = nextSid + 1 /\ pc'[t] = "acq_audit"
          /\ local'[t] = [sid |-> nextSid, op |-> req[t].op]
      BY <1>0, <1>1, <2>3 DEF AcquireSet, TypeInv, TypeOK
    <3>2. ASSUME NEW s, s = nextSid PROVE Accounted(s)'
      <4>1. t \in Inserting' /\ local'[t].sid = nextSid
        BY <3>1
      <4> HIDE DEF Inserting
      <4> QED BY <3>2, <4>1 DEF Accounted
    <3>3. ASSUME NEW s \in 1..nextSid - 1 PROVE Accounted(s)'
      <4>1. Accounted(s)
        BY DEF AllAccounted
      <4> HIDE DEF Inserting
      <4> QED BY <2>1, <4>1 DEF Accounted
    <3>4. \A s \in 1..nextSid' - 1 : s = nextSid \/ s \in 1..nextSid - 1
      BY <1>0, <3>1
    <3> HIDE DEF Inserting
    <3>5. ASSUME NEW s \in 1..nextSid' - 1 PROVE Accounted(s)'
      <4>1. CASE s = nextSid
        BY <3>2, <4>1
      <4> QED BY <3>3, <3>4, <4>1
    <3> QED BY <3>5 DEF AllAccounted
  <2> QED BY <2>2, <2>3
<1>2. ASSUME NEW t \in Tasks, AcquireAudit(t) PROVE AllAccounted'
  <2> DEFINE row == [sid |-> local[t].sid, robot |-> req[t].robot, op |-> req[t].op]
  <2>1. /\ audit' = audit \cup {row} /\ row.sid = local[t].sid
        /\ UNCHANGED <<nextSid, unlogged, local>>
        /\ \A u \in Inserting \ {t} : u \in Inserting'
    BY <1>0, <1>2 DEF AcquireAudit, store
  <2>2. \E a \in audit' : a.sid = local[t].sid
    BY <2>1
  <2> HIDE DEF Inserting, row
  <2> QED BY <2>1, <2>2, KeepsAccounted
<1>3. ASSUME NEW t \in Tasks, StoreError(t) PROVE AllAccounted'
  <2>1. /\ UNCHANGED <<nextSid, audit>>
        /\ unlogged' = unlogged \cup {local[u].sid : u \in Inserting \cap {t}}
        /\ \A u \in Inserting \ {t} : u \in Inserting' /\ local'[u] = local[u]
    BY <1>0, <1>3, OwnBusiness DEF StoreError, store
  <2> HIDE DEF Inserting
  <2> QED BY <2>1, KeepsAccounted
<1>4. ASSUME NEW t \in Tasks, Run(t), ~AcquireSet(t), ~AcquireAudit(t)
      PROVE  AllAccounted'
  <2>1. UNCHANGED <<nextSid, audit, unlogged>> /\ pc[t] # "acq_audit"
    BY <1>4 DEF Run, AcquireGet, AcquireInfo, CommandStart, CommandCheck, CommandRenew,
       HolderRead, CommandExpire, CommandPublish, ReleaseGet, ReleaseDelete, ReleaseAudit,
       store, rows
  <2>2. \A u \in Inserting : u \in Inserting' /\ local'[u] = local[u]
    BY <1>4, <2>1, OwnBusiness
  <2> HIDE DEF Inserting
  <2> QED BY <2>1, <2>2, KeepsAccounted
<1>5. ASSUME NEW t \in Tasks, Ask(t) PROVE AllAccounted'
  <2>1. /\ UNCHANGED <<nextSid, rows, local>>
        /\ \A u \in Inserting : u \in Inserting'
    BY <1>0, <1>5 DEF Ask, PostSession, DeleteSession, PostCommand, Connect, Arrive,
       Receive, Disconnect, store
  <2> HIDE DEF Inserting
  <2> QED BY <2>1, KeepsAccounted DEF rows
<1>6. CASE Crash
  BY <1>6, KeepsAccounted DEF Crash, store
<1>7. CASE (\E r \in Robots : Register(r) \/ Tick(r)) \/ UNCHANGED vars
  BY <1>7, KeepsAccounted DEF Register, Tick, vars, store, rows, task
<1> QED BY <1>1, <1>2, <1>3, <1>4, <1>5, <1>6, <1>7 DEF Next

LEMMA AccountedInductive == Spec => []AllAccounted
<1>1. Init => AllAccounted
  BY DEF Init, AllAccounted
<1>2. TypeInv /\ AllAccounted /\ [Next]_vars => AllAccounted'
  BY StepAccounted
<1> QED BY <1>1, <1>2, TypeCorrect, PTL DEF Spec

LEMMA AuditInductive == Spec => [](TypeInv /\ AuditInv)
<1>1. TypeInv /\ AuditInv /\ [Next]_vars => AuditInv'
  BY SetAudit, InsertAudit, QuietAudit, AskAudit, WorldAudit DEF Next
<1> QED BY <1>1, InitAudit, TypeCorrect, PTL DEF Spec

\* Redis and Postgres never disagree on whose session an id is, no INSERT meets a row
\* with its id, and a session lacks its row only if its own INSERT failed, however
\* requests overlap and whatever fails.
THEOREM AuditAgrees == Spec => []AuditConsistent
<1>1. TypeInv /\ AuditInv /\ AllAccounted => AuditConsistent
  <2> SUFFICES ASSUME TypeInv, AuditInv, AllAccounted PROVE AuditConsistent
    OBVIOUS
  <2>1. ASSUME NEW a \in audit
        PROVE  /\ a.sid # 0 /\ a.robot \in Robots
               /\ a = [sid |-> a.sid, robot |-> a.robot, op |-> a.op]
               /\ [sid |-> a.sid, op |-> a.op] \in Session
               /\ Seen([sid |-> a.sid, op |-> a.op], a.robot)
    <3>1. a \in [sid : Sids, robot : Robots, op : Operators]
      BY DEF TypeInv, TypeOK
    <3>2. a = [sid |-> a.sid, robot |-> a.robot, op |-> a.op] /\ a.sid # 0
      BY <3>1 DEF Sids
    <3> QED BY <3>1, <3>2 DEF Seen, NoLock, Session
  <2>2. ASSUME NEW a \in audit, NEW b \in audit, a.sid = b.sid PROVE a = b
    <3>1. /\ a.robot = b.robot
          /\ [sid |-> a.sid, op |-> a.op] = [sid |-> b.sid, op |-> b.op]
      BY <2>1, <2>2 DEF AuditInv, OneOwner
    <3>2. a.op = b.op
      BY <3>1
    <3> QED BY <2>1, <2>2, <3>1, <3>2
  <2>3. ASSUME NEW a \in audit, NEW r \in Robots, lock[r].sid = a.sid
        PROVE  a.robot = r /\ a.op = lock[r].op
    <3>0. lock[r].sid # 0
      BY <2>1, <2>3
    <3>1. lock[r] \in Session /\ lock[r] # NoLock
      BY <3>0 DEF TypeInv, TypeOK, NoLock
    <3>2. Seen(lock[r], r)
      BY <3>1 DEF Seen
    <3>3. a.robot = r /\ [sid |-> a.sid, op |-> a.op] = lock[r]
      BY <2>1, <2>3, <3>1, <3>2 DEF AuditInv, OneOwner
    <3> QED BY <3>3
  <2>4. \A a \in audit, t \in Tasks : pc[t] = "acq_audit" => local[t].sid # a.sid
    BY DEF AuditInv, Uninserted
  <2> QED BY <2>2, <2>3, <2>4 DEF AuditConsistent, AllAccounted
<1> QED BY <1>1, AuditInductive, AccountedInductive, PTL
-----------------------------------------------------------------------------
(* A closed session stays closed: its id is neither live in Redis nor in    *)
(* the hands of a handler about to write it back.  This takes both          *)
(* invariants above: nobody else is at work on the robot (SerialInv), and   *)
(* no other robot's session has the id (AuditInv).                          *)

EndedInv ==
    /\ \A id \in ended : \E a \in audit : a.sid = id
    /\ EndedIsNotLive
    /\ \A t \in Tasks : pc[t] = "acq_set" => local[t].sid \notin ended

LEMMA CloseEnded ==
    ASSUME TypeInv, SerialInv, AuditInv, EndedInv, NEW t \in Tasks, ReleaseAudit(t)
    PROVE  EndedInv'
<1> DEFINE r == req[t].robot
<1>1. /\ pc[t] = "rel_audit" /\ pc' = [pc EXCEPT ![t] = "idle"]
      /\ ended' = ended \cup {row.sid : row \in {x \in audit : x.sid = local[t].sid}}
      /\ local' = [local EXCEPT ![t] = NoLock]
      /\ UNCHANGED <<lock, audit>>
  BY DEF ReleaseAudit, Return, Goto, store
<1>2. /\ local[t] \in Session /\ r \in Robots /\ lock[r] = NoLock
      /\ local[t].sid # 0 /\ local[t] # NoLock
      /\ pc \in [Tasks -> Places]
  BY <1>1 DEF TypeInv, TypeOK, HandOK, Req, SerialInv, StillTrue, Session, Sids, NoLock,
     Places
<1>3. Seen(local[t], r)
  BY <1>2 DEF Seen
<1>4. ended' \subseteq ended \cup {local[t].sid}
  BY <1>1
<1>5. ASSUME NEW q \in Robots PROVE lock[q].sid # local[t].sid
  <2>1. CASE lock[q] = NoLock
    BY <1>2, <2>1 DEF NoLock
  <2>2. CASE lock[q] # NoLock
    <3>1. lock[q] \in Session /\ Seen(lock[q], q)
      BY <2>2 DEF TypeInv, TypeOK, Seen
    <3> QED BY <1>2, <1>3, <2>2, <3>1 DEF AuditInv, OneOwner
  <2> QED BY <2>1, <2>2
<1>6. ASSUME NEW u \in Tasks, pc[u] = "acq_set" PROVE local[u].sid # local[t].sid
  <2>1. CASE local[u] = NoLock
    BY <1>2, <2>1 DEF NoLock
  <2>2. CASE local[u] # NoLock
    <3>1. /\ local[u] \in Session /\ req[u].robot \in Robots
          /\ Seen(local[u], req[u].robot)
      BY <1>6, <2>2 DEF TypeInv, TypeOK, HandOK, Req, Seen
    <3>2. req[u].robot # r
      BY <1>1, <1>6 DEF SerialInv, Exclusive, Busy, Quiet
    <3> QED BY <1>2, <1>3, <3>1, <3>2 DEF AuditInv, OneOwner
  <2> QED BY <2>1, <2>2
<1>7. \A id \in ended' : \E a \in audit' : a.sid = id
  BY <1>1 DEF EndedInv
<1>8. EndedIsNotLive'
  BY <1>1, <1>4, <1>5 DEF EndedInv, EndedIsNotLive
<1>9. \A u \in Tasks : pc'[u] = "acq_set" => local'[u].sid \notin ended'
  BY <1>1, <1>2, <1>4, <1>6 DEF EndedInv
<1> QED BY <1>7, <1>8, <1>9 DEF EndedInv

LEMMA SetEnded ==
    ASSUME TypeInv, AuditInv, EndedInv, NEW t \in Tasks, AcquireSet(t)
    PROVE  EndedInv'
<1> DEFINE r == req[t].robot
           value == IF local[t] = NoLock
                       THEN [sid |-> nextSid, op |-> req[t].op]
                       ELSE local[t]
<1>1. /\ pc[t] = "acq_set"
      /\ lock' = [lock EXCEPT ![r] = value]
      /\ pc' = [pc EXCEPT ![t] = IF local[t] = NoLock THEN "acq_audit" ELSE "acq_info"]
      /\ local' = [local EXCEPT ![t] = value]
      /\ UNCHANGED <<audit, ended>>
  BY DEF AcquireSet, Goto, rows
<1>2. nextSid \notin ended
  <2> SUFFICES ASSUME NEW a \in audit, a.sid = nextSid PROVE FALSE
    BY DEF EndedInv
  <2>1. a \in [sid : Sids, robot : Robots, op : Operators]
    BY DEF TypeInv, TypeOK
  <2>2. a = [sid |-> a.sid, robot |-> a.robot, op |-> a.op] /\ a.sid # 0
    BY <2>1 DEF Sids
  <2>3. /\ [sid |-> a.sid, op |-> a.op] \in Session /\ a.robot \in Robots
        /\ Seen([sid |-> a.sid, op |-> a.op], a.robot)
    BY <2>1, <2>2 DEF Session, Seen, NoLock
  <2>4. a.sid < nextSid
    BY <2>3 DEF AuditInv, Minted
  <2> QED BY <2>1, <2>4 DEF Sids
<1>3. value.sid \notin ended
  BY <1>1, <1>2 DEF EndedInv
<1> HIDE DEF value
<1>4. EndedIsNotLive'
  BY <1>1, <1>3 DEF EndedInv, EndedIsNotLive, TypeInv, TypeOK
<1>5. \A u \in Tasks : pc'[u] = "acq_set" => local'[u].sid \notin ended'
  BY <1>1 DEF EndedInv, TypeInv, TypeOK
<1> QED BY <1>1, <1>4, <1>5 DEF EndedInv

\* All other steps close no session and write back none that they did not just read.
LEMMA OtherEnded ==
    ASSUME TypeInv, EndedInv, ended' = ended, audit \subseteq audit',
           \A q \in Robots : lock'[q] \in {lock[q], NoLock},
           \A u \in Tasks : pc'[u] = "acq_set" =>
               \/ pc[u] = "acq_set" /\ local'[u] = local[u]
               \/ pc[u] = "acq_get" /\ local'[u] = lock[req[u].robot]
    PROVE  EndedInv'
<1>1. 0 \notin ended
  BY DEF TypeInv, TypeOK, Sids
<1>2. \A id \in ended' : \E a \in audit' : a.sid = id
  BY DEF EndedInv
<1>3. EndedIsNotLive'
  BY <1>1 DEF EndedInv, EndedIsNotLive, NoLock
<1>4. ASSUME NEW u \in Tasks, pc'[u] = "acq_set" PROVE local'[u].sid \notin ended'
  <2>1. pc[u] = "acq_get" => req[u].robot \in Robots
    BY DEF TypeInv, HandOK, Req
  <2> QED BY <1>4, <2>1 DEF EndedInv, EndedIsNotLive
<1> QED BY <1>2, <1>3, <1>4 DEF EndedInv

LEMMA StepEnded ==
    ASSUME Serialized, TypeInv, SerialInv, AuditInv, EndedInv, [Next]_vars
    PROVE  EndedInv'
<1>1. ASSUME NEW t \in Tasks, Run(t) \/ StoreError(t), ~AcquireSet(t), ~ReleaseAudit(t)
      PROVE  EndedInv'
  <2> USE DEF Goto, store, rows, Quiet
  <2>0. /\ pc \in [Tasks -> Places] /\ req[t].robot \in Robots /\ pc[t] \notin Quiet
        /\ lock \in [Robots -> Session \cup {NoLock}]
        /\ local \in [Tasks -> Session \cup {NoLock}]
    BY <1>1, OwnBusiness DEF TypeInv, TypeOK, HandOK, Req, Busy, Places
  <2>1. /\ ended' = ended /\ audit \subseteq audit'
        /\ \A q \in Robots : lock'[q] \in {lock[q], NoLock}
    BY <1>1, <2>0 DEF Run, AcquireGet, AcquireAudit, AcquireInfo, CommandStart,
       CommandCheck, CommandRenew, HolderRead, CommandExpire, CommandPublish, ReleaseGet,
       ReleaseDelete, StoreError
  <2>2. ASSUME Finish(t) \/ Return(t) \/ Fail(t) PROVE pc'[t] # "acq_set"
    BY <2>0, <2>2 DEF Finish, Return, Fail
  <2>3. CASE AcquireGet(t)
    <3>1. pc'[t] = "acq_set" => pc[t] = "acq_get" /\ local'[t] = lock[req[t].robot]
      BY <2>0, <2>2, <2>3 DEF AcquireGet
    <3> QED BY <1>1, <2>1, <3>1, OwnBusiness, OtherEnded
  <2>4. CASE ~AcquireGet(t)
    <3>1. pc'[t] # "acq_set"
      BY <1>1, <2>0, <2>2, <2>4 DEF Run, AcquireAudit, AcquireInfo, CommandStart,
         CommandCheck, CommandRenew, HolderRead, CommandExpire, CommandPublish, ReleaseGet,
         ReleaseDelete, StoreError
    <3> QED BY <1>1, <2>1, <3>1, OwnBusiness, OtherEnded
  <2> QED BY <2>3, <2>4
<1>2. ASSUME NEW t \in Tasks, Ask(t) PROVE EndedInv'
  <2>1. UNCHANGED rows /\ lock' = lock
    BY <1>2, AskSerial, AskAudit
  <2>2. \A u \in Tasks : pc'[u] = "acq_set" => pc[u] = "acq_set" /\ local'[u] = local[u]
    BY <1>2 DEF Ask, PostSession, DeleteSession, PostCommand, Connect, Arrive, Receive,
       Disconnect, Goto, TypeInv, TypeOK
  <2> QED BY <2>1, <2>2, OtherEnded DEF rows
<1>3. CASE (\E r \in Robots : Register(r) \/ Tick(r)) \/ Crash \/ UNCHANGED vars
  <2>1. /\ UNCHANGED <<audit, ended>>
        /\ \A r \in Robots : lock'[r] \in {lock[r], NoLock}
        /\ UNCHANGED task \/ Crash
    BY <1>3 DEF Register, Tick, Crash, vars, store, rows, task, TypeInv, TypeOK
  <2>2. \A u \in Tasks : pc'[u] = "acq_set" => pc[u] = "acq_set" /\ local'[u] = local[u]
    BY <2>1 DEF Crash, task
  <2> QED BY <2>1, <2>2, OtherEnded DEF rows
<1> QED BY <1>1, <1>2, <1>3, CloseEnded, SetEnded DEF Next, Run

\* A session whose row says it ended is never the one that is live, as long as the
\* requests for one robot do not overlap.
THEOREM EndedSessionsStayEnded == Serialized => (Spec => []EndedIsNotLive)
<1> SUFFICES ASSUME Serialized PROVE Spec => []EndedIsNotLive
  OBVIOUS
<1>1. Init => EndedInv
  BY DEF Init, EndedInv, EndedIsNotLive
<1>2. TypeInv /\ SerialInv /\ AuditInv /\ EndedInv /\ [Next]_vars => EndedInv'
  BY StepEnded
<1>3. EndedInv => EndedIsNotLive
  BY DEF EndedInv
<1>4. Spec => [](TypeInv /\ SerialInv)
  BY SerialInductive
<1> QED BY <1>1, <1>2, <1>3, <1>4, AuditInductive, PTL DEF Spec
-----------------------------------------------------------------------------
(* Leases.  When handlers finish between two ticks, what is left of a       *)
(* lease and the time since its holder took control or drove add up to a    *)
(* TTL.                                                                     *)

AgeInv ==
    /\ \A r \in Robots : lock[r] # NoLock => ttl[r] + age[r] >= TTL
    /\ \A t \in Tasks :
          pc[t] = "cmd_publish" /\ req[t].cmd # "stop" /\ lock[req[t].robot] # NoLock
          => ttl[req[t].robot] = TTL

LEMMA RunAge ==
    ASSUME TypeInv, AgeInv, NEW t \in Tasks, Run(t) \/ StoreError(t)
    PROVE  AgeInv'
<1> USE TTLAssumption DEF Goto, store, Quiet
<1> DEFINE r == req[t].robot
<1>0. /\ pc[t] \notin Quiet /\ r \in Robots /\ req[t] \in Req
      /\ pc \in [Tasks -> Places]
      /\ lock \in [Robots -> Session \cup {NoLock}]
      /\ ttl \in [Robots -> 0..TTL] /\ age \in [Robots -> 0..TTL]
      /\ req \in [Tasks -> Req \cup {NoReq}]
  BY OwnBusiness DEF TypeInv, TypeOK, HandOK, Req, Busy, Places
<1>1. ASSUME Finish(t) \/ Return(t) \/ Fail(t)
      PROVE  pc'[t] \in Quiet
  BY <1>0, <1>1 DEF Finish, Return, Fail
<1>2. \A u \in Tasks \ {t} : pc'[u] = pc[u] /\ req'[u] = req[u]
  BY OwnBusiness
<1>3. ASSUME UNCHANGED <<lock, ttl, age>>,
             pc'[t] = "cmd_publish" => req'[t].cmd = "stop"
      PROVE  AgeInv'
  BY <1>2, <1>3 DEF AgeInv
<1>4. CASE AcquireGet(t) \/ AcquireAudit(t) \/ AcquireInfo(t) \/ ReleaseGet(t)
           \/ ReleaseAudit(t) \/ CommandCheck(t) \/ CommandRenew(t) \/ StoreError(t)
  <2>1. UNCHANGED <<lock, ttl, age>>
    BY <1>4 DEF AcquireGet, AcquireAudit, AcquireInfo, ReleaseGet, ReleaseAudit,
       CommandCheck, CommandRenew, HolderRead, StoreError
  <2>2. pc'[t] # "cmd_publish"
    BY <1>0, <1>1, <1>4 DEF AcquireGet, AcquireAudit, AcquireInfo, ReleaseGet,
       ReleaseAudit, CommandCheck, CommandRenew, HolderRead, StoreError
  <2> QED BY <1>3, <2>1, <2>2
<1>5. CASE CommandStart(t)
  BY <1>0, <1>3, <1>5 DEF CommandStart
<1>6. CASE AcquireSet(t)
  <2>1. /\ ttl' = [ttl EXCEPT ![r] = TTL] /\ age' = [age EXCEPT ![r] = 0]
        /\ \A q \in Robots \ {r} : lock'[q] = lock[q]
        /\ pc'[t] # "cmd_publish"
    BY <1>0, <1>6, OwnBusiness DEF AcquireSet
  <2> QED BY <1>0, <1>2, <2>1 DEF AgeInv, TypeInv, HandOK, Req
<1>7. CASE CommandExpire(t)
  <2>1. /\ ttl' = [ttl EXCEPT ![r] = IF lock[r] = NoLock THEN ttl[r] ELSE TTL]
        /\ UNCHANGED <<lock, age, req>>
    BY <1>7 DEF CommandExpire
  <2>2. lock[r] # NoLock => ttl'[r] = TTL
    BY <1>0, <2>1
  <2>3. \A q \in Robots : ttl'[q] = ttl[q] \/ (lock[q] # NoLock /\ ttl'[q] = TTL)
    BY <1>0, <2>1
  <2> QED BY <1>0, <1>2, <2>1, <2>2, <2>3 DEF AgeInv, TypeInv, HandOK, Req
<1>8. CASE CommandPublish(t)
  <2>1. /\ pc[t] = "cmd_publish" /\ UNCHANGED <<lock, ttl>>
        /\ age' = [age EXCEPT ![r] =
                     IF req[t].cmd # "stop" /\ Owns(lock[r], req[t].op) THEN 0 ELSE age[r]]
        /\ pc'[t] \in Quiet
    BY <1>1, <1>8 DEF CommandPublish
  <2>2. \A q \in Robots : age'[q] = age[q] \/ (ttl[q] = TTL /\ age'[q] = 0)
    BY <1>0, <2>1 DEF AgeInv, Owns
  <2> QED BY <1>0, <1>2, <2>1, <2>2 DEF AgeInv
<1>9. CASE ReleaseDelete(t)
  <2>1. /\ lock' = [lock EXCEPT ![r] = NoLock]
        /\ \A q \in Robots \ {r} : ttl'[q] = ttl[q] /\ age'[q] = age[q]
        /\ pc'[t] # "cmd_publish"
    BY <1>0, <1>9 DEF ReleaseDelete
  <2> QED BY <1>0, <1>2, <2>1 DEF AgeInv, TypeInv, HandOK, Req
<1> QED BY <1>4, <1>5, <1>6, <1>7, <1>8, <1>9 DEF Run

LEMMA StepAge ==
    ASSUME Prompt, TypeInv, AgeInv, [Next]_vars PROVE AgeInv'
<1>1. ASSUME NEW t \in Tasks, Ask(t) PROVE AgeInv'
  <2>1. UNCHANGED <<lock, ttl, age>>
    BY <1>1 DEF Ask, PostSession, DeleteSession, PostCommand, Connect, Arrive, Receive,
       Disconnect, store
  <2>2. \A u \in Tasks : pc'[u] = "cmd_publish" => pc[u] = "cmd_publish" /\ req'[u] = req[u]
    BY <1>1 DEF Ask, PostSession, DeleteSession, PostCommand, Connect, Arrive, Receive,
       Disconnect, Goto, TypeInv, TypeOK
  <2> QED BY <2>1, <2>2 DEF AgeInv
<1>2. ASSUME NEW r \in Robots, Tick(r) PROVE AgeInv'
  <2>1. /\ lock[r] # NoLock /\ ttl[r] > 0 /\ ttl[r] \in 0..TTL /\ age[r] \in 0..TTL
        /\ \A t \in Tasks : Busy(t) => req[t].robot # r
        /\ ttl'[r] = ttl[r] - 1
        /\ lock'[r] = IF ttl[r] = 1 THEN NoLock ELSE lock[r]
        /\ age'[r] = IF ttl[r] = 1 THEN 0 ELSE IF age[r] < TTL THEN age[r] + 1 ELSE age[r]
        /\ \A q \in Robots \ {r} : ttl'[q] = ttl[q] /\ age'[q] = age[q] /\ lock'[q] = lock[q]
        /\ UNCHANGED <<pc, req>>
    BY <1>2 DEF Tick, TypeInv, TypeOK, task
  <2>2. lock'[r] # NoLock => ttl'[r] + age'[r] >= TTL
    BY <2>1, TTLAssumption DEF AgeInv
  <2>3. ASSUME NEW t \in Tasks, pc'[t] = "cmd_publish"
        PROVE  req[t].robot \in Robots \ {r}
    BY <2>1, <2>3 DEF Busy, Quiet, TypeInv, HandOK, Req
  <2> QED BY <2>1, <2>2, <2>3 DEF AgeInv
<1>3. CASE (\E r \in Robots : Register(r)) \/ Crash \/ UNCHANGED vars
  BY <1>3 DEF Register, Crash, vars, store, task, AgeInv
<1> QED BY <1>1, <1>2, <1>3, RunAge DEF Next

\* An operator who drives at least once per TTL keeps the session, if handlers
\* finish between two ticks: Redis evicts it only when for a whole TTL its holder
\* neither took control nor had a driving command published.  Its "stop" commands
\* earn it nothing: they are published without renewing (fleet/manager.py:66-71).
THEOREM DrivingKeepsTheLock == Prompt => (Spec => ActiveDriverKeepsLock)
<1> SUFFICES ASSUME Prompt PROVE Spec => ActiveDriverKeepsLock
  OBVIOUS
<1>1. Init => AgeInv
  BY DEF Init, AgeInv
<1>2. TypeInv /\ AgeInv /\ [Next]_vars => AgeInv'
  BY StepAge
<1>3. TypeInv /\ AgeInv
      => \A r \in Robots : Tick(r) /\ lock'[r] = NoLock => age[r] + 1 >= TTL
  BY TTLAssumption DEF AgeInv, Tick, TypeInv, TypeOK
<1> QED BY <1>1, <1>2, <1>3, TypeCorrect, PTL DEF Spec, ActiveDriverKeepsLock
-----------------------------------------------------------------------------
(* What frees a lock that nobody uses is its TTL: it always has one, and    *)
(* nobody but its holder gives it another.                                  *)

Expiring == \A r \in Robots : lock[r] # NoLock <=> ttl[r] > 0

\* The steps that give a key its TTL are the two that a request of t can take.
LEMMA RunExpiring ==
    ASSUME TypeInv, NEW t \in Tasks, Run(t) \/ StoreError(t)
    PROVE  /\ Expiring => Expiring'
           /\ \A r \in Robots :
                 ttl'[r] > ttl[r] => r = req[t].robot /\ pc[t] \in {"acq_set", "cmd_expire"}
<1> DEFINE q == req[t].robot
<1>0. /\ q \in Robots /\ req[t] \in Req /\ nextSid \in Sids
      /\ lock \in [Robots -> Session \cup {NoLock}] /\ local[t] \in Session \cup {NoLock}
      /\ ttl \in [Robots -> 0..TTL] /\ TTL \in Nat \ {0}
  BY TTLAssumption, OwnBusiness DEF TypeInv, TypeOK, HandOK, Busy, Quiet, Req
<1>1. CASE AcquireSet(t)
  <2> DEFINE value == IF local[t] = NoLock THEN [sid |-> nextSid, op |-> req[t].op] ELSE local[t]
  <2>1. /\ pc[t] = "acq_set" /\ lock' = [lock EXCEPT ![q] = value]
        /\ ttl' = [ttl EXCEPT ![q] = TTL]
    BY <1>1 DEF AcquireSet
  <2>2. value # NoLock
    BY <1>0 DEF NoLock, Sids
  <2> QED BY <1>0, <2>1, <2>2 DEF Expiring
<1>2. CASE CommandExpire(t)
  <2>1. /\ pc[t] = "cmd_expire" /\ lock' = lock
        /\ ttl' = [ttl EXCEPT ![q] = IF lock[q] = NoLock THEN ttl[q] ELSE TTL]
    BY <1>2 DEF CommandExpire
  <2> QED BY <1>0, <2>1 DEF Expiring
<1>3. CASE ReleaseDelete(t)
  <2>1. lock' = [lock EXCEPT ![q] = NoLock] /\ ttl' = [ttl EXCEPT ![q] = 0]
    BY <1>3 DEF ReleaseDelete
  <2> QED BY <1>0, <2>1 DEF Expiring
<1>4. CASE UNCHANGED <<lock, ttl>>
  BY <1>0, <1>4 DEF Expiring
<1> QED
  BY <1>1, <1>2, <1>3, <1>4 DEF Run, AcquireGet, AcquireAudit, AcquireInfo, CommandStart,
     CommandCheck, CommandRenew, HolderRead, CommandPublish, ReleaseGet, ReleaseAudit,
     StoreError, store

LEMMA WorldExpiring ==
    ASSUME TypeInv, [Next]_vars, \A t \in Tasks : ~Run(t) /\ ~StoreError(t)
    PROVE  /\ Expiring => Expiring'
           /\ \A r \in Robots : ~(ttl'[r] > ttl[r])
<1>0. ttl \in [Robots -> 0..TTL] /\ TTL \in Nat \ {0} /\ lock \in [Robots -> Session \cup {NoLock}]
  BY TTLAssumption DEF TypeInv, TypeOK
<1>1. ASSUME NEW r \in Robots, Tick(r)
      PROVE  (Expiring => Expiring') /\ \A q \in Robots : ~(ttl'[q] > ttl[q])
  <2>1. /\ lock[r] # NoLock /\ ttl[r] > 0 /\ ttl' = [ttl EXCEPT ![r] = ttl[r] - 1]
        /\ lock' = [lock EXCEPT ![r] = IF ttl[r] = 1 THEN NoLock ELSE lock[r]]
    BY <1>1 DEF Tick
  <2> QED BY <1>0, <2>1 DEF Expiring
<1>2. CASE UNCHANGED <<lock, ttl>>
  BY <1>0, <1>2 DEF Expiring
<1>3. ASSUME NEW t \in Tasks, Ask(t) PROVE UNCHANGED <<lock, ttl>>
  BY <1>3 DEF Ask, PostSession, DeleteSession, PostCommand, Connect, Arrive, Receive,
     Disconnect, store
<1> QED
  BY <1>1, <1>2, <1>3 DEF Next, Register, Crash, vars, store

\* A session never outlives its TTL: whatever requests overlap, and wherever a
\* store error or a crash leaves a handler, a key in Redis has a TTL that runs out,
\* so that no robot is locked for good.  That it does run out is LockReclaimed
\* (sessions/manager.py:62-86).
THEOREM EverySessionExpires == Spec => []Expiring
<1>1. Init => Expiring
  <2>1. ~(0 > 0)
    OBVIOUS
  <2> QED BY <2>1 DEF Init, Expiring
<1>2. TypeInv /\ Expiring /\ [Next]_vars => Expiring'
  BY RunExpiring, WorldExpiring
<1> QED BY <1>1, <1>2, TypeCorrect, PTL DEF Spec

\* Nobody's request but the holder's own gives a session more time, as long as the
\* requests for one robot do not overlap: a refused operator, a late EXPIRE or a
\* "stop" does not keep another operator's session alive (sessions/manager.py:62-86).
THEOREM OnlyItsHolderRenews ==
    Serialized => (Spec =>
        [][\A r \in Robots : ttl'[r] > ttl[r] =>
              \E t \in Tasks : req[t].robot = r /\ req[t].op = lock'[r].op]_vars)
<1> SUFFICES ASSUME Serialized
             PROVE  Spec => [][\A r \in Robots : ttl'[r] > ttl[r] =>
                                  \E t \in Tasks : req[t].robot = r /\ req[t].op = lock'[r].op]_vars
  OBVIOUS
<1> DEFINE ByHolder == \A r \in Robots : ttl'[r] > ttl[r] =>
                          \E t \in Tasks : req[t].robot = r /\ req[t].op = lock'[r].op
<1>1. ASSUME TypeInv, SerialInv, Expiring, [Next]_vars PROVE ByHolder
  <2> SUFFICES ASSUME NEW r \in Robots, ttl'[r] > ttl[r]
               PROVE  \E t \in Tasks : req[t].robot = r /\ req[t].op = lock'[r].op
    OBVIOUS
  <2>1. PICK t \in Tasks : Run(t) \/ StoreError(t)
    BY <1>1, WorldExpiring
  <2>2. r = req[t].robot /\ pc[t] \in {"acq_set", "cmd_expire"}
    BY <1>1, <2>1, RunExpiring
  <2>3. /\ lock \in [Robots -> Session \cup {NoLock}] /\ ttl \in [Robots -> 0..TTL]
        /\ StillTrue(t)
    BY <1>1 DEF TypeInv, TypeOK, SerialInv
  <2>0. ttl' # ttl
    BY <1>1, <2>3
  <2>4. CASE pc[t] = "acq_set"
    <3>1. AcquireSet(t)
      BY <2>0, <2>1, <2>4 DEF Run, AcquireGet, AcquireAudit, AcquireInfo, CommandStart,
         CommandCheck, CommandRenew, HolderRead, CommandExpire, CommandPublish, ReleaseGet,
         ReleaseDelete, ReleaseAudit, StoreError, store
    <3>2. lock'[r] = IF local[t] = NoLock THEN [sid |-> nextSid, op |-> req[t].op] ELSE local[t]
      BY <2>2, <2>3, <3>1 DEF AcquireSet
    <3> QED BY <2>2, <2>3, <2>4, <3>2 DEF StillTrue, Owns
  <2>5. CASE pc[t] = "cmd_expire"
    <3>1. CommandExpire(t)
      BY <2>0, <2>1, <2>5 DEF Run, AcquireGet, AcquireSet, AcquireAudit, AcquireInfo,
         CommandStart, CommandCheck, CommandRenew, HolderRead, CommandPublish, ReleaseGet,
         ReleaseDelete, ReleaseAudit, StoreError, store
    <3>2. lock'[r] = lock[r] /\ lock[r] # NoLock
      BY <1>1, <2>2, <2>3, <3>1 DEF CommandExpire
    <3> QED BY <2>2, <2>3, <2>5, <3>2 DEF StillTrue, Owns
  <2> QED BY <2>2, <2>4, <2>5
<1>2. Spec => [](TypeInv /\ SerialInv)
  BY SerialInductive
<1> HIDE DEF ByHolder
<1>3. Spec => [][ByHolder]_vars
  BY <1>1, <1>2, EverySessionExpires, PTL DEF Spec
<1> QED BY <1>3 DEF ByHolder
-----------------------------------------------------------------------------
(* The emergency stop. *)

\* A stop request never goes where the session is checked.
StopInv ==
    \A t \in Tasks : pc[t] \in CommandPCs /\ req[t].cmd = "stop"
                     => pc[t] \in {"cmd_start", "cmd_publish"}

LEMMA StepStop == ASSUME TypeInv, StopInv, [Next]_vars PROVE StopInv'
<1> USE DEF CommandPCs, Goto
<1>1. ASSUME NEW t \in Tasks, Run(t) \/ StoreError(t) PROVE StopInv'
  <2>0. /\ pc \in [Tasks -> Places] /\ pc[t] \notin Quiet
        /\ req[t] \in Req /\ req \in [Tasks -> Req \cup {NoReq}]
    BY <1>1, OwnBusiness DEF TypeInv, TypeOK, HandOK, Busy, Quiet, Places
  <2>1. ASSUME Finish(t) \/ Return(t) \/ Fail(t) PROVE pc'[t] \notin CommandPCs
    BY <2>0, <2>1 DEF Finish, Return, Fail, Quiet
  <2>2. pc'[t] \in CommandPCs /\ req'[t].cmd = "stop" => pc'[t] \in {"cmd_start", "cmd_publish"}
    BY <1>1, <2>0, <2>1 DEF StopInv, Run, AcquireGet, AcquireSet, AcquireAudit, AcquireInfo,
       CommandStart, CommandCheck, CommandRenew, HolderRead, CommandExpire,
       CommandPublish, ReleaseGet, ReleaseDelete, ReleaseAudit, StoreError
  <2> QED BY <1>1, <2>2, OwnBusiness DEF StopInv
<1>2. ASSUME NEW t \in Tasks, Ask(t) PROVE StopInv'
  BY <1>2 DEF Ask, PostSession, DeleteSession, PostCommand, Connect, Arrive, Receive,
     Disconnect, TypeInv, TypeOK, StopInv
<1>3. CASE (\E r \in Robots : Register(r) \/ Tick(r)) \/ Crash \/ UNCHANGED vars
  BY <1>3 DEF Register, Tick, Crash, vars, task, StopInv
<1> QED BY <1>1, <1>2, <1>3 DEF Next

\* Whoever holds the session, a stop request is published, or fails with the store or
\* the backend; it is never refused.
THEOREM StopIsNeverRefused == Spec => StopNeverRefused
<1> DEFINE Kept(t) ==
        pc[t] \in CommandPCs /\ req[t].cmd = "stop" /\ pc'[t] \notin CommandPCs
        => \/ lastCmd'[req[t].robot] = [op |-> req[t].op, cmd |-> "stop"]
           \/ pc'[t] = "failed"
           \/ req[t].ws /\ pc'[t] = "rel_get"
<1>1. Init => StopInv
  BY DEF Init, StopInv, CommandPCs
<1>2. TypeInv /\ StopInv /\ [Next]_vars => StopInv'
  BY StepStop
<1>3. TypeInv /\ StopInv /\ [Next]_vars => \A t \in Tasks : Kept(t)
  <2> SUFFICES ASSUME TypeInv, StopInv, [Next]_vars, NEW t \in Tasks,
                      pc[t] \in {"cmd_start", "cmd_publish"}, req[t].cmd = "stop",
                      pc'[t] \notin CommandPCs, pc'[t] # "failed",
                      ~(req[t].ws /\ pc'[t] = "rel_get")
               PROVE  lastCmd'[req[t].robot] = [op |-> req[t].op, cmd |-> "stop"]
    BY DEF StopInv
  <2>1. req[t].robot \in Robots
    BY DEF TypeInv, HandOK, Req
  <2>2. pc'[t] # pc[t]
    BY DEF CommandPCs
  <2>3. Run(t)
    <3>1. ASSUME NEW u \in Tasks, u # t, Run(u) \/ StoreError(u) PROVE FALSE
      BY <2>2, <3>1, OwnBusiness
    <3>0. ~StoreError(t) /\ ~Crash
      BY DEF StoreError, Crash, Fail, Goto, CommandPCs, TypeInv, TypeOK
    <3>2. ASSUME NEW u \in Tasks, Ask(u) PROVE FALSE
      BY <2>2, <3>2 DEF Ask, PostSession, DeleteSession, PostCommand, Connect, Arrive,
         Receive, Disconnect, Goto, TypeInv, TypeOK
    <3>3. CASE (\E r \in Robots : Register(r) \/ Tick(r)) \/ UNCHANGED vars
      BY <2>2, <3>3 DEF Register, Tick, vars, task
    <3> QED BY <3>0, <3>1, <3>2, <3>3 DEF Next
  <2>4. CASE pc[t] = "cmd_start"
    BY <2>3, <2>4 DEF Run, AcquireGet, AcquireSet, AcquireAudit, AcquireInfo, CommandStart,
       CommandCheck, CommandRenew, HolderRead, CommandExpire, CommandPublish, ReleaseGet,
       ReleaseDelete, ReleaseAudit, Goto, CommandPCs, TypeInv, TypeOK
  <2>5. CASE pc[t] = "cmd_publish"
    <3>1. CommandPublish(t)
      BY <2>3, <2>5 DEF Run, AcquireGet, AcquireSet, AcquireAudit, AcquireInfo,
         CommandStart, CommandCheck, CommandRenew, HolderRead, CommandExpire, ReleaseGet,
         ReleaseDelete, ReleaseAudit
    <3> QED BY <2>1, <3>1 DEF CommandPublish, TypeInv, TypeOK
  <2> QED BY <2>4, <2>5
<1> QED BY <1>1, <1>2, <1>3, TypeCorrect, PTL DEF Spec, StopNeverRefused
=============================================================================
