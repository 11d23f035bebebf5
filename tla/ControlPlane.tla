---------------------------- MODULE ControlPlane ----------------------------
(***************************************************************************)
(* The control plane of cloud-container's backend: SessionManager (the     *)
(* Redis lock per robot and the Postgres audit rows), FleetManager (which  *)
(* command may pass) and the two ways in, the REST handlers of             *)
(* api/robots.py and the connection handler of ws/teleop.py.               *)
(*                                                                         *)
(* All of it runs on one asyncio event loop.  A handler gives up the loop  *)
(* at every await, so the unit of interleaving is one round trip to Redis  *)
(* or Postgres: each action below is the effect one round trip has on the  *)
(* store, together with the decisions the handler makes on what came back. *)
(*                                                                         *)
(* A task is one handler invocation: a REST request, or a teleop WebSocket *)
(* for as long as it is connected.                                         *)
(***************************************************************************)
EXTENDS Naturals

CONSTANTS
    Robots,       \* robot ids
    Operators,    \* authenticated operator names
    Driving,      \* the commands other than "stop"
    Tasks,        \* handler invocations that can be alive at a time
    TTL,          \* session_ttl_seconds, in clock ticks
    MaxSid,       \* bound: no acquire starts once this many ids are minted
    Nobody,       \* the absence of an operator
    Serialized,   \* TRUE: the requests for one robot do not overlap
    Prompt,       \* TRUE: a handler finishes before the clock ticks
    Faults        \* TRUE: store errors and backend crashes happen

ASSUME TTLAssumption == TTL \in Nat \ {0}
ASSUME ModeAssumption ==
    Serialized \in BOOLEAN /\ Prompt \in BOOLEAN /\ Faults \in BOOLEAN
ASSUME NamesAssumption == Nobody \notin Operators /\ "stop" \notin Driving
ASSUME BoundAssumption == MaxSid \in Nat

VARIABLES
    registered,   \* robots that have a row in Postgres (registry/store.py)
    lock,         \* lock[r]: the value under Redis key session:r, or NoLock
    ttl,          \* ttl[r]: ticks left before Redis evicts session:r
    audit,        \* rows of control_sessions
    ended,        \* session ids of the rows whose ended_at is set
    unlogged,     \* history: session ids whose INSERT failed or died half-way
    lastCmd,      \* lastCmd[r]: the last command published for r
    nextSid,      \* the next fresh session id (uuid4)
    age,          \* age[r]: ticks since r's holder took control or drove
    pc,           \* pc[t]: the await task t is suspended at
    req,          \* req[t]: what task t was asked to do
    local         \* local[t]: the session record task t has in hand

store == <<lock, ttl, nextSid, age>>
rows == <<audit, ended, unlogged>>
task == <<pc, req, local>>
vars == <<registered, store, rows, lastCmd, task>>
-----------------------------------------------------------------------------
Commands == Driving \cup {"stop"}
Sids == Nat \ {0}
Session == [sid : Sids, op : Operators]
NoLock == [sid |-> 0, op |-> Nobody]
NoReq == [ws |-> FALSE, robot |-> Nobody, op |-> Nobody, cmd |-> "none"]
NoCommand == [op |-> Nobody, cmd |-> "none"]

Req == [ws : BOOLEAN, robot : Robots, op : Operators, cmd : Commands \cup {"none"}]

AcquirePCs == {"acq_get", "acq_set", "acq_audit", "acq_info"}
CommandPCs == {"cmd_start", "cmd_check", "cmd_renew", "cmd_expire", "cmd_publish"}
ReleasePCs == {"rel_get", "rel_del", "rel_audit"}
\* A handler that does not run: it returned, or an exception or the death of the
\* backend ended it (a 500, or a connection that closes without a reply).
Over == {"idle", "failed"}
\* "open": the teleop handler waits in receive_json().
Quiet == Over \cup {"open"}

Busy(t) == pc[t] \notin Quiet

\* Mutant: the operator is not compared.
OwnsAny(session, o) == session # NoLock

\* The opposite of `current is None or current["operator"] != operator`.
Owns(session, o) == session # NoLock /\ session.op = o

Init ==
    /\ registered = {}
    /\ lock = [r \in Robots |-> NoLock]
    /\ ttl = [r \in Robots |-> 0]
    /\ audit = {} /\ ended = {} /\ unlogged = {}
    /\ lastCmd = [r \in Robots |-> NoCommand]
    /\ nextSid = 1
    /\ age = [r \in Robots |-> 0]
    /\ pc = [t \in Tasks |-> "idle"]
    /\ req = [t \in Tasks |-> NoReq]
    /\ local = [t \in Tasks |-> NoLock]
-----------------------------------------------------------------------------
(* Requests arrive.  _require_known is the first thing each of them does.  *)
(* A robot is never unregistered, so the check is made on arrival; the     *)
(* round trips it takes are the time spent at the first place, where they  *)
(* may fail (StoreError).                                                  *)

Clear(t, r) ==
    Serialized => \A u \in Tasks \ {t} : Busy(u) => req[u].robot # r

Goto(t, place) == pc' = [pc EXCEPT ![t] = place]

Arrive(t, ws, r, o, c, place) ==
    /\ pc[t] \in Over
    /\ r \in registered
    /\ Clear(t, r)
    /\ Goto(t, place)
    /\ req' = [req EXCEPT ![t] = [ws |-> ws, robot |-> r, op |-> o, cmd |-> c]]
    /\ UNCHANGED <<registered, store, rows, lastCmd, local>>

\* POST /robots/r/session
PostSession(t, r, o) ==
    nextSid <= MaxSid /\ Arrive(t, FALSE, r, o, "none", "acq_get")

\* DELETE /robots/r/session
DeleteSession(t, r, o) == Arrive(t, FALSE, r, o, "none", "rel_get")

\* POST /robots/r/control, and POST /robots/r/stop which is c = "stop"
PostCommand(t, r, o, c) == Arrive(t, FALSE, r, o, c, "cmd_start")

\* WS /ws/teleop/r
Connect(t, r, o) ==
    nextSid <= MaxSid /\ Arrive(t, TRUE, r, o, "none", "acq_get")

\* The client of an open teleop connection sends c.
Receive(t, c) ==
    /\ pc[t] = "open"
    /\ Clear(t, req[t].robot)
    /\ Goto(t, "cmd_start")
    /\ req' = [req EXCEPT ![t].cmd = c]
    /\ UNCHANGED <<registered, store, rows, lastCmd, local>>

\* WebSocketDisconnect: the finally clause releases the session.
Disconnect(t) ==
    /\ pc[t] = "open"
    /\ Clear(t, req[t].robot)
    /\ Goto(t, "rel_get")
    /\ UNCHANGED <<registered, store, rows, lastCmd, req, local>>

\* The handler returns (a WebSocket is closed, a response is sent).
Return(t) ==
    /\ Goto(t, "idle")
    /\ req' = [req EXCEPT ![t] = NoReq]
    /\ local' = [local EXCEPT ![t] = NoLock]

\* The handler ends with an exception.
Fail(t) ==
    /\ Goto(t, "failed")
    /\ req' = [req EXCEPT ![t] = NoReq]
    /\ local' = [local EXCEPT ![t] = NoLock]

\* An operation is over: a teleop connection waits for its next message.
Finish(t) ==
    IF req[t].ws THEN /\ Goto(t, "open")
                      /\ req' = [req EXCEPT ![t].cmd = "none"]
                      /\ local' = [local EXCEPT ![t] = NoLock]
                 ELSE Return(t)
-----------------------------------------------------------------------------
(* SessionManager.acquire *)

\* Mutant: no conflict with another operator's session.
AcquireGetUnchecked(t) ==
    /\ pc[t] = "acq_get"
    /\ Goto(t, "acq_set")
    /\ local' = [local EXCEPT ![t] = NoLock]
    /\ UNCHANGED <<registered, store, rows, lastCmd, req>>

AcquireGet(t) ==
    /\ pc[t] = "acq_get"
    /\ LET existing == lock[req[t].robot] IN
          IF existing # NoLock /\ ~Owns(existing, req[t].op)
             THEN Return(t)
             ELSE /\ Goto(t, "acq_set")
                  /\ local' = [local EXCEPT ![t] = existing]
                  /\ UNCHANGED req
    /\ UNCHANGED <<registered, store, rows, lastCmd>>

\* Mutants of the SET: without EX; or inserting a row for a reused session too.
AcquireSetWith(t, expiry, next) ==
    LET value == IF local[t] = NoLock THEN [sid |-> nextSid, op |-> req[t].op]
                                      ELSE local[t]
    IN  /\ pc[t] = "acq_set"
        /\ lock' = [lock EXCEPT ![req[t].robot] = value]
        /\ ttl' = [ttl EXCEPT ![req[t].robot] = expiry]
        /\ nextSid' = IF local[t] = NoLock THEN nextSid + 1 ELSE nextSid
        /\ Goto(t, next)
        /\ local' = [local EXCEPT ![t] = value]
        /\ UNCHANGED <<registered, age, rows, lastCmd, req>>
AcquireSetNoExpiry(t) == AcquireSetWith(t, 0, "acq_audit")
AcquireSetReinserts(t) == AcquireSetWith(t, TTL, "acq_audit")

\* SET key value EX ttl, whatever the key holds by now.
AcquireSet(t) ==
    LET r == req[t].robot
        value == IF local[t] = NoLock
                    THEN [sid |-> nextSid, op |-> req[t].op]
                    ELSE local[t]
    IN  /\ pc[t] = "acq_set"
        /\ lock' = [lock EXCEPT ![r] = value]
        /\ ttl' = [ttl EXCEPT ![r] = TTL]
        /\ age' = [age EXCEPT ![r] = 0]
        /\ nextSid' = IF local[t] = NoLock THEN nextSid + 1 ELSE nextSid
        /\ Goto(t, IF local[t] = NoLock THEN "acq_audit" ELSE "acq_info")
        /\ local' = [local EXCEPT ![t] = value]
        /\ UNCHANGED <<registered, rows, lastCmd, req>>

AcquireAudit(t) ==
    /\ pc[t] = "acq_audit"
    /\ audit' = audit \cup {[sid |-> local[t].sid, robot |-> req[t].robot,
                             op |-> req[t].op]}
    /\ Goto(t, "acq_info")
    /\ UNCHANGED <<registered, store, ended, unlogged, lastCmd, req, local>>

\* _to_info reads the remaining TTL; the caller is told it has control.
AcquireInfo(t) ==
    /\ pc[t] = "acq_info"
    /\ Finish(t)
    /\ UNCHANGED <<registered, store, rows, lastCmd>>
-----------------------------------------------------------------------------
(* FleetManager.send_command *)

\* Mutant: "stop" needs the session like any other command.
CommandStartChecksAll(t) ==
    /\ pc[t] = "cmd_start"
    /\ Goto(t, "cmd_check")
    /\ UNCHANGED <<registered, store, rows, lastCmd, req, local>>

\* Only "stop" skips the session check.
CommandStart(t) ==
    /\ pc[t] = "cmd_start"
    /\ Goto(t, IF req[t].cmd = "stop" THEN "cmd_publish" ELSE "cmd_check")
    /\ UNCHANGED <<registered, store, rows, lastCmd, req, local>>

\* require_holder, then the GET of renew: the operator must own the session
\* both times, or the command is refused.
HolderRead(t, here, next) ==
    /\ pc[t] = here
    /\ IF Owns(lock[req[t].robot], req[t].op)
          THEN Goto(t, next) /\ UNCHANGED <<req, local>>
          ELSE Finish(t)
    /\ UNCHANGED <<registered, store, rows, lastCmd>>

CommandCheck(t) == HolderRead(t, "cmd_check", "cmd_renew")
CommandRenew(t) == HolderRead(t, "cmd_renew", "cmd_expire")

\* Mutant: the TTL is not renewed.
CommandExpireSkipped(t) ==
    /\ pc[t] = "cmd_expire"
    /\ Goto(t, "cmd_publish")
    /\ UNCHANGED <<registered, store, rows, lastCmd, req, local>>

\* EXPIRE does nothing to a key that is gone, and renew does not look.
CommandExpire(t) ==
    LET r == req[t].robot
    IN  /\ pc[t] = "cmd_expire"
        /\ ttl' = [ttl EXCEPT ![r] = IF lock[r] = NoLock THEN @ ELSE TTL]
        /\ Goto(t, "cmd_publish")
        /\ UNCHANGED <<registered, lock, nextSid, age, rows, lastCmd, req, local>>

CommandPublish(t) ==
    LET r == req[t].robot
    IN  /\ pc[t] = "cmd_publish"
        /\ lastCmd' = [lastCmd EXCEPT ![r] = [op |-> req[t].op, cmd |-> req[t].cmd]]
        /\ age' = [age EXCEPT ![r] =
                     IF req[t].cmd # "stop" /\ Owns(lock[r], req[t].op) THEN 0 ELSE @]
        /\ Finish(t)
        /\ UNCHANGED <<registered, lock, ttl, nextSid, rows>>
-----------------------------------------------------------------------------
(* SessionManager.release *)

\* Mutant: the row is closed and the key stays.
ReleaseGetKeepsKey(t) ==
    /\ pc[t] = "rel_get"
    /\ IF Owns(lock[req[t].robot], req[t].op)
          THEN /\ Goto(t, "rel_audit")
               /\ local' = [local EXCEPT ![t] = lock[req[t].robot]]
               /\ UNCHANGED req
          ELSE Return(t)
    /\ UNCHANGED <<registered, store, rows, lastCmd>>

ReleaseGet(t) ==
    LET current == lock[req[t].robot]
    IN  /\ pc[t] = "rel_get"
        /\ IF Owns(current, req[t].op)
              THEN /\ Goto(t, "rel_del")
                   /\ local' = [local EXCEPT ![t] = current]
                   /\ UNCHANGED req
              ELSE Return(t)
        /\ UNCHANGED <<registered, store, rows, lastCmd>>

ReleaseDelete(t) ==
    LET r == req[t].robot
    IN  /\ pc[t] = "rel_del"
        /\ lock' = [lock EXCEPT ![r] = NoLock]
        /\ ttl' = [ttl EXCEPT ![r] = 0]
        /\ age' = [age EXCEPT ![r] = 0]
        /\ Goto(t, "rel_audit")
        /\ UNCHANGED <<registered, nextSid, rows, lastCmd, req, local>>

\* UPDATE ... WHERE session_id: touches the row if there is one.
ReleaseAudit(t) ==
    /\ pc[t] = "rel_audit"
    /\ ended' = ended \cup {row.sid : row \in {x \in audit : x.sid = local[t].sid}}
    /\ Return(t)
    /\ UNCHANGED <<registered, store, audit, unlogged, lastCmd>>
-----------------------------------------------------------------------------
(* What the rest of the world does. *)

\* A robot's first message creates its row (RobotRegistry._ensure_registered).
Register(r) ==
    /\ r \notin registered
    /\ registered' = registered \cup {r}
    /\ UNCHANGED <<store, rows, lastCmd, task>>

\* Mutant: the key outlives its TTL.
TickNoEviction(r) ==
    /\ lock[r] # NoLock
    /\ ttl' = [ttl EXCEPT ![r] = @ - 1]
    /\ UNCHANGED <<registered, lock, nextSid, age, rows, lastCmd, task>>

\* Time passes for key session:r; Redis evicts it when its TTL runs out.
Tick(r) ==
    /\ lock[r] # NoLock /\ ttl[r] > 0
    /\ Prompt => \A t \in Tasks : Busy(t) => req[t].robot # r
    /\ ttl' = [ttl EXCEPT ![r] = @ - 1]
    /\ lock' = [lock EXCEPT ![r] = IF ttl[r] = 1 THEN NoLock ELSE @]
    /\ age' = [age EXCEPT ![r] = IF ttl[r] = 1 THEN 0
                                 ELSE IF @ < TTL THEN @ + 1 ELSE @]
    /\ UNCHANGED <<registered, nextSid, rows, lastCmd, task>>

\* Tasks that wait for the INSERT of a session already set in Redis.
Inserting == {t \in Tasks : pc[t] = "acq_audit"}

\* The await t is suspended at raises.  In the receive loop of a teleop
\* connection the finally clause still releases; an error while acquiring
\* or releasing, or in a REST handler, ends the handler.
StoreError(t) ==
    /\ Faults
    /\ Busy(t)
    /\ IF req[t].ws /\ pc[t] \in CommandPCs
          THEN Goto(t, "rel_get") /\ UNCHANGED <<req, local>>
          ELSE Fail(t)
    /\ unlogged' = unlogged \cup {local[u].sid : u \in Inserting \cap {t}}
    /\ UNCHANGED <<registered, store, audit, ended, lastCmd>>

\* The backend process dies: no finally clause runs.
Crash ==
    /\ Faults
    /\ \E t \in Tasks : pc[t] \notin Over
    /\ pc' = [t \in Tasks |-> IF pc[t] = "idle" THEN "idle" ELSE "failed"]
    /\ req' = [t \in Tasks |-> NoReq]
    /\ local' = [t \in Tasks |-> NoLock]
    /\ unlogged' = unlogged \cup {local[t].sid : t \in Inserting}
    /\ UNCHANGED <<registered, store, audit, ended, lastCmd>>
-----------------------------------------------------------------------------
\* Steps the event loop takes on its own.
Run(t) ==
    \/ AcquireGet(t) \/ AcquireSet(t) \/ AcquireAudit(t) \/ AcquireInfo(t)
    \/ CommandStart(t) \/ CommandCheck(t) \/ CommandRenew(t)
    \/ CommandExpire(t) \/ CommandPublish(t)
    \/ ReleaseGet(t) \/ ReleaseDelete(t) \/ ReleaseAudit(t)

\* What clients do.
Ask(t) ==
    \/ \E r \in Robots, o \in Operators :
          \/ PostSession(t, r, o)
          \/ DeleteSession(t, r, o)
          \/ \E c \in Commands : PostCommand(t, r, o, c)
          \/ Connect(t, r, o)
    \/ \E c \in Commands : Receive(t, c)
    \/ Disconnect(t)

Next ==
    \/ \E t \in Tasks : Run(t) \/ Ask(t) \/ StoreError(t)
    \/ \E r \in Robots : Register(r) \/ Tick(r)
    \/ Crash

Spec == Init /\ [][Next]_vars

\* The event loop resumes every handler whose reply has come, and time passes.
FairSpec ==
    /\ Spec
    /\ \A t \in Tasks : WF_vars(Run(t))
    /\ \A r \in Robots : WF_vars(Tick(r))
-----------------------------------------------------------------------------
(* Properties *)

TypeOK ==
    /\ registered \subseteq Robots
    /\ lock \in [Robots -> Session \cup {NoLock}]
    /\ ttl \in [Robots -> 0..TTL]
    /\ audit \subseteq [sid : Sids, robot : Robots, op : Operators]
    /\ ended \subseteq Sids /\ unlogged \subseteq Sids
    /\ lastCmd \in [Robots -> [op : Operators, cmd : Commands] \cup {NoCommand}]
    /\ nextSid \in Sids
    /\ age \in [Robots -> 0..TTL]
    /\ pc \in [Tasks -> Quiet \cup AcquirePCs \cup CommandPCs \cup ReleasePCs]
    /\ req \in [Tasks -> Req \cup {NoReq}]
    /\ local \in [Tasks -> Session \cup {NoLock}]

\* The promise of SessionManager and FleetManager.
Promise == INSTANCE ControlLock WITH holder <- [r \in Robots |-> lock[r].op]

\* Control passes only through "nobody", and nobody drives a robot that a
\* different operator controls (ControlLock), while requests for one robot do
\* not overlap.
ImplementsControlLock == Promise!Spec

\* When a handler is about to change the Redis key on the strength of what it
\* read before its last await, the key is still free or its own operator's:
\* neither SET, EXPIRE, DELETE nor the command that follows EXPIRE can hit
\* somebody else's session.
WritesHitOwnSession ==
    \A t \in Tasks :
        \/ pc[t] \in {"acq_set", "cmd_expire", "rel_del"}
        \/ pc[t] = "cmd_publish" /\ req[t].cmd # "stop"
        => lock[req[t].robot].op \in {Nobody, req[t].op}

\* A session whose row says it ended is never the live one: the id a second
\* request of the same operator reuses was not closed behind its back.
EndedIsNotLive == \A r \in Robots : lock[r].sid \notin ended

\* Session s has its row, is about to get it, or its INSERT failed.
Accounted(s) ==
    \/ \E a \in audit : a.sid = s
    \/ \E t \in Inserting : local[t].sid = s
    \/ s \in unlogged

\* Redis and Postgres agree on who a session belongs to, a session has at most one
\* row (session_id is the primary key) and an INSERT never collides with it.  A
\* session has no row only while its INSERT is under way, or because that INSERT
\* itself failed: acquire() sets the key first and nothing makes up for the row
\* (sessions/manager.py:70-78).
AuditConsistent ==
    /\ \A a, b \in audit : a.sid = b.sid => a = b
    /\ \A a \in audit, r \in Robots :
          lock[r].sid = a.sid => a.robot = r /\ a.op = lock[r].op
    /\ \A a \in audit, t \in Tasks :
          pc[t] = "acq_audit" => local[t].sid # a.sid
    /\ \A s \in 1..nextSid - 1 : Accounted(s)

\* An operator who drives more often than every TTL never loses the lock to its
\* own TTL: a key is evicted only if for TTL ticks its holder neither took control
\* nor had a driving command published.  A "stop" does not count and must not:
\* send_command publishes it without renewing the session
\* (fleet/manager.py:66-71), although ws/teleop.py:9 has every command renew it.
ActiveDriverKeepsLock ==
    [][\A r \in Robots :
         Tick(r) /\ lock'[r] = NoLock => age[r] + 1 >= TTL]_vars

\* A lock nobody uses any more is free in the end, whatever died while holding
\* it: once no handler is at work, Redis forgets every session.
LockReclaimed ==
    (<>[](\A t \in Tasks : ~Busy(t))) => <>[](\A r \in Robots : lock[r] = NoLock)

\* Any operator can stop any robot, whoever holds the session: a stop request is
\* never answered with a refusal.  It leaves send_command with "stop" published, or
\* with an exception: the REST request fails, the teleop connection goes to its
\* finally clause.
StopNeverRefused ==
    [][\A t \in Tasks :
         pc[t] \in CommandPCs /\ req[t].cmd = "stop" /\ pc'[t] \notin CommandPCs
         => \/ lastCmd'[req[t].robot] = [op |-> req[t].op, cmd |-> "stop"]
            \/ pc'[t] = "failed"
            \/ req[t].ws /\ pc'[t] = "rel_get"]_vars

(* What the documentation says and overlapping requests, expiry and *)
(* reconnection refute: see the runs that expect a violation.       *)

\* sessions/manager.py:3-6: at most one operator holds control, enforced by an
\* atomic set-if-absent, so a session is never replaced by another operator's.
HolderNeverReplaced ==
    [][\A r \in Robots :
         lock[r] # NoLock /\ lock'[r] # NoLock => lock'[r].op = lock[r].op]_vars

\* test_registry_and_sessions_live.py:143-144: a reconnecting browser tab is
\* not locked out of its own session.  No handler releases the session of an
\* operator who has another teleop connection open.
ReconnectKeepsSession ==
    \A t, u \in Tasks :
        (t # u /\ pc[t] = "open" /\ pc[u] = "rel_audit" /\ req[u].ws
               /\ req[t].robot = req[u].robot /\ req[t].op = req[u].op)
        => lock[req[t].robot] # NoLock
=============================================================================
