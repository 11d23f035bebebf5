---------------------------- MODULE ControlLock ----------------------------
(***************************************************************************)
(* What cloud-container promises about control of a robot: each robot has  *)
(* at most one operator in control, control passes from one operator to    *)
(* another only through a moment in which nobody has it, and a driving     *)
(* command never comes from an operator while a different one is in        *)
(* control.  "stop" is exempt: anybody may stop any robot at any time.     *)
(*                                                                         *)
(* ControlPlane is the detailed specification; it implements this one when *)
(* the requests for one robot do not overlap.                              *)
(***************************************************************************)
CONSTANTS
    Robots,     \* robot ids
    Operators,  \* operator names
    Commands,   \* what can be sent to a robot, including "stop"
    Nobody      \* the absence of an operator

VARIABLES
    holder,     \* holder[r]: the operator in control of r, or Nobody
    lastCmd     \* lastCmd[r]: the last command sent to r and its sender

vars == <<holder, lastCmd>>

NoCommand == [op |-> Nobody, cmd |-> "none"]

Init ==
    /\ holder = [r \in Robots |-> Nobody]
    /\ lastCmd = [r \in Robots |-> NoCommand]

\* o is given control of a robot nobody controls.
Grant(r, o) ==
    /\ holder[r] = Nobody
    /\ holder' = [holder EXCEPT ![r] = o]
    /\ UNCHANGED lastCmd

\* Control of r ends, because its holder gives it up or its lease runs out.
Free(r) ==
    /\ holder' = [holder EXCEPT ![r] = Nobody]
    /\ UNCHANGED lastCmd

\* o sends c to r.
Drive(r, o, c) ==
    /\ c = "stop" \/ holder[r] \in {o, Nobody}
    /\ lastCmd' = [lastCmd EXCEPT ![r] = [op |-> o, cmd |-> c]]
    /\ UNCHANGED holder

Next ==
    \E r \in Robots :
        \/ Free(r)
        \/ \E o \in Operators :
              \/ Grant(r, o)
              \/ \E c \in Commands : Drive(r, o, c)

Spec == Init /\ [][Next]_vars
=============================================================================
