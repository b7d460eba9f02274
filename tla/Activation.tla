----------------------------- MODULE Activation -----------------------------
(***************************************************************************)
(* _activate (gateway/app/routes.py): a lookup of the model's task, then   *)
(* one transaction of two UPDATEs, by requests that run in parallel in the *)
(* thread pool.  Postgres is modelled as far as the code relies on it:     *)
(* READ COMMITTED (a statement sees what was committed when it started,    *)
(* and re-reads a row it had to wait for), row locks held to the end of    *)
(* the transaction, the partial unique index models_one_active_per_task    *)
(* (migrations/001_init.sql), which waits for a transaction that is about  *)
(* to add or remove a conflicting row, and the deadlock detector.          *)
(***************************************************************************)
EXTENDS Naturals, FiniteSets

CONSTANTS
  Clients,  \* requests that may activate a model, one activation each
  Ids,      \* the ids of model rows, registered and not yet registered
  Tasks,
  TaskOf,   \* the task of each row
  Nobody

ASSUME TaskAssumption == TaskOf \in [Ids -> Tasks]
ASSUME NobodyAssumption == Nobody \notin Ids

VARIABLES
  rows,    \* the committed rows of table models
  active,  \* those whose column active is true
  at,      \* where each client's request is
  want,    \* the id it activates
  seek,    \* the row whose lock its first UPDATE waits for, or Nobody
  off,     \* the row its open transaction has set to FALSE, or Nobody
  on       \* the row its open transaction has set to TRUE, or Nobody

txVars == <<at, want, seek, off, on>>
activationVars == <<rows, active, txVars>>

IdOrNobody == Ids \cup {Nobody}
InTx == {"deactivate", "await_off", "activate", "index", "commit"}
Pending == {"query"} \cup InTx
Answers == {"activated", "refused"}

ActivationTypeOK ==
  /\ rows \subseteq Ids
  /\ active \subseteq rows
  /\ at \in [Clients -> {"idle"} \cup Pending \cup Answers]
  /\ want \in [Clients -> IdOrNobody]
  /\ seek \in [Clients -> IdOrNobody]
  /\ off \in [Clients -> IdOrNobody]
  /\ on \in [Clients -> IdOrNobody]

ActivationInit ==
  /\ rows = {}
  /\ active = {}
  /\ at = [c \in Clients |-> "idle"]
  /\ want = [c \in Clients |-> Nobody]
  /\ seek = [c \in Clients |-> Nobody]
  /\ off = [c \in Clients |-> Nobody]
  /\ on = [c \in Clients |-> Nobody]

SameTask(r, s) == TaskOf[r] = TaskOf[s]

\* c has written r in its open transaction and holds its row lock.
Writes(c, r) == off[c] = r \/ on[c] = r
LockedByOther(c, r) == \E d \in Clients \ {c} : Writes(d, r)

At(c, label) == at' = [at EXCEPT ![c] = label]

----------------------------------------------------------------------------
\* The request arrives, with the id of a row or of none.
AskActivate(c, m) ==
  /\ at[c] = "idle"
  /\ At(c, "query")
  /\ want' = [want EXCEPT ![c] = m]
  /\ UNCHANGED <<rows, active, seek, off, on>>

\* SELECT task ... ; 404 if there is no such model.
QueryTask(c) ==
  /\ at[c] = "query"
  /\ At(c, IF want[c] \in rows THEN "deactivate" ELSE "refused")
  /\ UNCHANGED <<rows, active, want, seek, off, on>>

\* The row the first UPDATE finds: its task's active one.
Incumbents(c) == {r \in active : SameTask(r, want[c])}

\* Mutant: the first UPDATE commits on its own.
DeactivateAutocommit(c) ==
  /\ at[c] = "deactivate"
  /\ active' = active \ Incumbents(c)
  /\ At(c, "activate")
  /\ UNCHANGED <<rows, want, seek, off, on>>

\* UPDATE models SET active = FALSE WHERE task = ... AND active: nothing to do,
\* the row is free, or the statement waits for the row's lock.
Deactivate(c) ==
  /\ at[c] = "deactivate"
  /\ \/ /\ Incumbents(c) = {}
        /\ At(c, "activate")
        /\ UNCHANGED <<seek, off>>
     \/ \E r \in Incumbents(c) :
          /\ off' = [off EXCEPT ![c] = r]
          /\ At(c, "activate")
          /\ ~LockedByOther(c, r)
          /\ UNCHANGED seek
     \/ \E r \in Incumbents(c) :
          /\ LockedByOther(c, r)
          /\ At(c, "await_off")
          /\ seek' = [seek EXCEPT ![c] = r]
          /\ UNCHANGED off
  /\ UNCHANGED <<rows, active, want, on>>

\* The lock's holder has ended: the row is read again and its condition with
\* it.  A row that is no longer active is skipped, and no other is looked for.
AwaitOff(c) ==
  /\ at[c] = "await_off"
  /\ ~LockedByOther(c, seek[c])
  /\ off' = [off EXCEPT ![c] = IF seek[c] \in active THEN seek[c] ELSE Nobody]
  /\ seek' = [seek EXCEPT ![c] = Nobody]
  /\ At(c, "activate")
  /\ UNCHANGED <<rows, active, want, on>>

\* UPDATE models SET active = TRUE WHERE id = ...: the row's lock.
ActivateRow(c) ==
  /\ at[c] = "activate"
  /\ ~LockedByOther(c, want[c])
  /\ on' = [on EXCEPT ![c] = want[c]]
  /\ At(c, "index")
  /\ UNCHANGED <<rows, active, want, seek, off>>

\* Transactions whose end decides whether c's new index entry is unique: they
\* have added an entry of the task, or are removing the committed one.
Undecided(c) ==
  {d \in Clients \ {c} :
     \/ at[d] = "commit" /\ SameTask(on[d], want[c])
     \/ \E r \in Incumbents(c) : r # want[c] /\ Writes(d, r)}

\* Committed entries that c itself does not remove.
Conflicting(c) == {r \in Incumbents(c) : r # want[c] /\ r # off[c]}

\* Mutant: the index on (task) WHERE active is missing.
NoIndex(c) ==
  /\ at[c] = "index"
  /\ At(c, "commit")
  /\ UNCHANGED <<rows, active, want, seek, off, on>>

\* Mutant: a failed UPDATE is answered as if it had been done.
IndexErrorIgnored(c) ==
  /\ at[c] = "index"
  /\ Undecided(c) = {}
  /\ IF Conflicting(c) = {}
       THEN At(c, "commit") /\ UNCHANGED <<off, on>>
       ELSE /\ At(c, "activated")
            /\ off' = [off EXCEPT ![c] = Nobody]
            /\ on' = [on EXCEPT ![c] = Nobody]
  /\ UNCHANGED <<rows, active, want, seek>>

Rollback(c) ==
  /\ At(c, "refused")
  /\ seek' = [seek EXCEPT ![c] = Nobody]
  /\ off' = [off EXCEPT ![c] = Nobody]
  /\ on' = [on EXCEPT ![c] = Nobody]
  /\ UNCHANGED <<rows, active, want>>

\* The unique index: the entry goes in, or the statement raises and the
\* transaction rolls back (the caller is answered 500).
IndexCheck(c) ==
  /\ at[c] = "index"
  /\ Undecided(c) = {}
  /\ IF Conflicting(c) = {}
       THEN At(c, "commit") /\ UNCHANGED <<rows, active, want, seek, off, on>>
       ELSE Rollback(c)

\* The transactions that c waits for, if it waits.
WaitsFor(c) ==
  CASE at[c] = "await_off" -> {d \in Clients \ {c} : Writes(d, seek[c])}
    [] at[c] = "activate" -> {d \in Clients \ {c} : Writes(d, want[c])}
    [] at[c] = "index" -> Undecided(c)
    [] OTHER -> {}

\* A cycle of waits is broken by aborting one of its transactions.
DeadlockVictim(c) ==
  /\ \E S \in SUBSET Clients :
       /\ c \in S
       /\ \A d \in S : WaitsFor(d) \cap S # {}
       /\ \A d \in S : \E e \in S : d \in WaitsFor(e)
  /\ Rollback(c)

\* Mutant: the connection is never given back, its transaction stays open.
CommitLeft(c) ==
  /\ at[c] = "commit"
  /\ At(c, "activated")
  /\ UNCHANGED <<rows, active, want, seek, off, on>>

\* The `with` block ends: both rows become visible and the locks are free.
Commit(c) ==
  /\ at[c] = "commit"
  /\ active' = (active \ {off[c]}) \cup {on[c]}
  /\ off' = [off EXCEPT ![c] = Nobody]
  /\ on' = [on EXCEPT ![c] = Nobody]
  /\ At(c, "activated")
  /\ UNCHANGED <<rows, want, seek>>

\* The process dies: its connections close and every open transaction aborts.
CrashActivations ==
  /\ at' = [c \in Clients |-> IF at[c] \in Pending THEN "refused" ELSE at[c]]
  /\ seek' = [c \in Clients |-> Nobody]
  /\ off' = [c \in Clients |-> Nobody]
  /\ on' = [c \in Clients |-> Nobody]
  /\ UNCHANGED <<rows, active, want>>

\* A row is inserted, with active FALSE (save_and_register).
AddRow(r) == rows' = rows \cup {r} /\ UNCHANGED <<active, txVars>>

----------------------------------------------------------------------------
ActivationStep(c) ==
  \/ QueryTask(c) \/ Deactivate(c)
  \/ AwaitOff(c) \/ ActivateRow(c) \/ IndexCheck(c) \/ DeadlockVictim(c) \/ Commit(c)

ActivationNext ==
  \/ \E c \in Clients : (\E m \in Ids : AskActivate(c, m)) \/ ActivationStep(c)
  \/ \E r \in Ids \ rows : AddRow(r)
  \/ CrashActivations

ActivationSpec == ActivationInit /\ [][ActivationNext]_activationVars

\* A request in the database makes progress, and a deadlock is detected.  Weak
\* fairness is enough: a lock is contended by finitely many requests.
ActivationFairSpec ==
  ActivationSpec /\ \A c \in Clients : WF_activationVars(ActivationStep(c))
----------------------------------------------------------------------------
\* At most one active model per task, in every committed state.
OneActivePerTask ==
  \A r, s \in active : SameTask(r, s) => r = s

\* Once a task has an active model it never lacks one again, whoever crashes
\* or is refused between the two UPDATEs.
ActiveNeverLost ==
  [][\A r \in active : \E s \in active' : SameTask(r, s)]_activationVars

\* No request waits for ever: a lock is freed, a wait cycle is broken.
ActivationAnswered ==
  \A c \in Clients : at[c] \in Pending ~> at[c] \notin Pending

\* The active rows of a task, as the value of its register.
RegisterOf(k) ==
  IF \E r \in active : TaskOf[r] = k
    THEN CHOOSE r \in active : TaskOf[r] = k
    ELSE Nobody

ReplyOf(c) ==
  CASE at[c] = "idle" -> "none"
    [] at[c] \in Pending -> "pending"
    [] OTHER -> at[c]

Register == INSTANCE ActiveRegister WITH
  register <- [k \in Tasks |-> RegisterOf(k)],
  asked <- want,
  reply <- [c \in Clients |-> ReplyOf(c)]

\* Concurrent activations are atomic: each "activated" is a write of the
\* register, each refusal leaves it alone.
ImplementsRegister == Register!Spec
=============================================================================
