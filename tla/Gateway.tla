------------------------------ MODULE Gateway ------------------------------
(***************************************************************************)
(* The gateway process: its start-up (Migrate) and, once it serves, keys,  *)
(* sessions and login links (Access).  The database and the cookies        *)
(* outlive the process, what it keeps in memory does not.                  *)
(***************************************************************************)
EXTENDS Migrate, Access

vars == <<migrateVars, accessVars>>

TypeOK == MigrateTypeOK /\ AccessTypeOK

Init == MigrateInit /\ AccessInit

Starts == (BootStep \/ Fail) /\ UNCHANGED accessVars

Serves == phase = "serving" /\ AccessNext /\ UNCHANGED migrateVars

Stops == (Die \/ Deploy) /\ AccessCrash

TimePasses == Tick /\ UNCHANGED migrateVars

Next == Starts \/ Serves \/ Stops \/ TimePasses

Spec == Init /\ [][Next]_vars

\* docker restarts the container, and a boot that nothing disturbs goes on.
FairSpec == Spec /\ WF_vars(BootStep /\ UNCHANGED accessVars)
=============================================================================
