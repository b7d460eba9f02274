--------------------------- MODULE ActiveRegister ---------------------------
(***************************************************************************)
(* What activating a model promises (gateway/app/routes.py, _activate):    *)
(* a register per task, written in one step.  A caller that is told        *)
(* "activated" was the register's value at some moment of its call; one    *)
(* that is refused, or cut off before the write, changed nothing.          *)
(***************************************************************************)
CONSTANTS Clients, Ids, Tasks, TaskOf, Nobody

VARIABLES
  register,  \* the active model of each task, or Nobody
  asked,     \* the model each client asks for, or Nobody
  reply      \* of each client: "none", "pending", "activated", "refused"

Init ==
  /\ register = [k \in Tasks |-> Nobody]
  /\ asked = [c \in Clients |-> Nobody]
  /\ reply = [c \in Clients |-> "none"]

Ask(c, m) ==
  /\ reply[c] = "none"
  /\ reply' = [reply EXCEPT ![c] = "pending"]
  /\ asked' = [asked EXCEPT ![c] = m]
  /\ UNCHANGED register

Write(c) ==
  /\ reply[c] = "pending"
  /\ reply' = [reply EXCEPT ![c] = "activated"]
  /\ register' = [register EXCEPT ![TaskOf[asked[c]]] = asked[c]]
  /\ UNCHANGED asked

Refuse(c) ==
  /\ reply[c] = "pending"
  /\ reply' = [reply EXCEPT ![c] = "refused"]
  /\ UNCHANGED <<register, asked>>

\* A restart refuses everybody whose call it cut off.
RefuseAll ==
  /\ reply' = [c \in Clients |-> IF reply[c] = "pending" THEN "refused"
                                                         ELSE reply[c]]
  /\ UNCHANGED <<register, asked>>

Next ==
  \/ \E c \in Clients : (\E m \in Ids : Ask(c, m)) \/ Write(c) \/ Refuse(c)
  \/ RefuseAll

Spec == Init /\ [][Next]_<<register, asked, reply>>
=============================================================================
