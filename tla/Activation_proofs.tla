------------------------- MODULE Activation_proofs -------------------------
(***************************************************************************)
(* Proofs about activation, for any clients, rows and tasks.  The          *)
(* inductive invariant AInv says what a transaction may count on between   *)
(* the check of the unique index and its commit, whoever commits meanwhile.*)
(***************************************************************************)
EXTENDS Activation, TLAPS

\* What c's transaction holds at each label: the row it deactivates is active,
\* of its task, and stays so; the row it activates is the one it was asked for.
TxAt(c) ==
  /\ at[c] \in InTx => want[c] \in rows
  /\ off[c] # Nobody => /\ at[c] \in {"activate", "index", "commit"}
                        /\ off[c] \in active
                        /\ SameTask(off[c], want[c])
  /\ on[c] # Nobody => at[c] \in {"index", "commit"}
  /\ at[c] \in {"index", "commit"} => on[c] = want[c]
  /\ at[c] = "await_off" => seek[c] \in Ids /\ SameTask(seek[c], want[c])

\* A row lock has one holder.
LocksExclude ==
  \A c, d \in Clients : \A r \in Ids : Writes(c, r) /\ Writes(d, r) => c = d

\* Once past the index, c replaces the one active row of its task ...
PastIndex ==
  \A c \in Clients : \A r \in active :
    at[c] = "commit" /\ SameTask(r, on[c]) => r \in {on[c], off[c]}

\* ... and is the only one of its task there.
OnePastIndex ==
  \A c, d \in Clients :
    at[c] = "commit" /\ at[d] = "commit" /\ SameTask(on[c], on[d]) => c = d

AInv ==
  /\ ActivationTypeOK
  /\ \A c \in Clients : TxAt(c)
  /\ LocksExclude
  /\ PastIndex
  /\ OnePastIndex
  /\ OneActivePerTask

\* The invariant holds initially: there are no rows and no transactions.
LEMMA InitAInv == ActivationInit => AInv
  BY NobodyAssumption
  DEF ActivationInit, AInv, ActivationTypeOK, TxAt, LocksExclude, Writes, PastIndex,
      OnePastIndex, OneActivePerTask, IdOrNobody, Pending, InTx, Answers

\* Every step keeps the types.
LEMMA NextTypeOK ==
  AInv /\ [ActivationNext]_activationVars => ActivationTypeOK'
<1> SUFFICES ASSUME AInv, [ActivationNext]_activationVars
             PROVE  ActivationTypeOK'
  OBVIOUS
<1> USE DEF AInv, ActivationTypeOK, IdOrNobody, Pending, InTx, Answers, At
<1>1. CASE UNCHANGED activationVars
  BY <1>1 DEF activationVars, txVars
<1>2. ASSUME NEW c \in Clients, NEW m \in Ids, AskActivate(c, m)
      PROVE  ActivationTypeOK'
  BY <1>2 DEF AskActivate
<1>3. ASSUME NEW c \in Clients, QueryTask(c) PROVE ActivationTypeOK'
  BY <1>3 DEF QueryTask
<1>4. ASSUME NEW c \in Clients, Deactivate(c) PROVE ActivationTypeOK'
  BY <1>4 DEF Deactivate, Incumbents
<1>5. ASSUME NEW c \in Clients, AwaitOff(c) PROVE ActivationTypeOK'
  BY <1>5 DEF AwaitOff
<1>6. ASSUME NEW c \in Clients, ActivateRow(c) PROVE ActivationTypeOK'
  BY <1>6 DEF ActivateRow
<1>7. ASSUME NEW c \in Clients, Rollback(c) PROVE ActivationTypeOK'
  BY <1>7 DEF Rollback
<1>8. ASSUME NEW c \in Clients, IndexCheck(c) PROVE ActivationTypeOK'
  BY <1>7, <1>8 DEF IndexCheck
<1>9. ASSUME NEW c \in Clients, DeadlockVictim(c) PROVE ActivationTypeOK'
  BY <1>7, <1>9 DEF DeadlockVictim
<1>10. ASSUME NEW c \in Clients, Commit(c) PROVE ActivationTypeOK'
  <2>1. on[c] \in rows
    BY <1>10 DEF Commit, TxAt
  <2> QED
    BY <1>10, <2>1 DEF Commit
<1>11. CASE CrashActivations
  BY <1>11 DEF CrashActivations
<1>12. ASSUME NEW r \in Ids \ rows, AddRow(r) PROVE ActivationTypeOK'
  BY <1>12 DEF AddRow, txVars
<1> QED
  BY <1>1, <1>2, <1>3, <1>4, <1>5, <1>6, <1>8, <1>9, <1>10, <1>11, <1>12
  DEF ActivationNext, ActivationStep

\* A request that begins, is looked up or refused, or waits, touches no row.
LEMMA QuietAInv ==
  ASSUME AInv, ActivationTypeOK', NEW c \in Clients,
         UNCHANGED <<rows, active, off, on>>,
         \A d \in Clients \ {c} :
           at'[d] = at[d] /\ want'[d] = want[d] /\ seek'[d] = seek[d],
         TxAt(c)',
         at'[c] = "commit" => at[c] = "commit"
  PROVE  AInv'
<1>1. \A d \in Clients : TxAt(d)'
  <2> SUFFICES ASSUME NEW d \in Clients, d # c PROVE TxAt(d)'
    OBVIOUS
  <2> QED
    BY DEF AInv, TxAt, SameTask
<1>2. LocksExclude'
  BY DEF AInv, LocksExclude, Writes
<1>3. PastIndex'
  BY DEF AInv, PastIndex, SameTask
<1>4. OnePastIndex'
  BY DEF AInv, OnePastIndex, SameTask
<1>5. OneActivePerTask'
  BY DEF AInv, OneActivePerTask, SameTask
<1> QED
  BY <1>1, <1>2, <1>3, <1>4, <1>5 DEF AInv

\* A rollback gives its locks back and leaves the rows alone.
LEMMA RollbackAInv ==
  ASSUME AInv, ActivationTypeOK', NEW c \in Clients, Rollback(c)
  PROVE  AInv'
<1> USE DEF Rollback, At
<1>t. ActivationTypeOK
  BY DEF AInv
<1>1. \A d \in Clients : TxAt(d)'
  BY <1>t DEF AInv, ActivationTypeOK, TxAt, SameTask, InTx
<1>2. LocksExclude'
  BY <1>t, NobodyAssumption DEF AInv, ActivationTypeOK, LocksExclude, Writes
<1>3. PastIndex'
  BY <1>t DEF AInv, ActivationTypeOK, PastIndex, SameTask
<1>4. OnePastIndex'
  BY <1>t DEF AInv, ActivationTypeOK, OnePastIndex, SameTask
<1>5. OneActivePerTask'
  BY DEF AInv, OneActivePerTask, SameTask
<1> QED
  BY <1>1, <1>2, <1>3, <1>4, <1>5 DEF AInv

\* The first UPDATE gets the row's lock: r is active and nobody else writes it.
LEMMA OffAInv ==
  ASSUME AInv, ActivationTypeOK', NEW c \in Clients,
         at[c] \in {"deactivate", "await_off"},
         UNCHANGED <<rows, active, want, on>>,
         at' = [at EXCEPT ![c] = "activate"],
         NEW r \in active, SameTask(r, want[c]), ~LockedByOther(c, r),
         off' = [off EXCEPT ![c] = r],
         \A d \in Clients \ {c} : seek'[d] = seek[d]
  PROVE  AInv'
<1>t. ActivationTypeOK
  BY DEF AInv
<1>1. \A d \in Clients : TxAt(d)'
  <2>1. TxAt(c) /\ TxAt(c)'
    BY <1>t DEF AInv, ActivationTypeOK, TxAt, SameTask, InTx
  <2>2. ASSUME NEW d \in Clients, d # c PROVE TxAt(d)'
    BY <1>t, <2>2 DEF AInv, ActivationTypeOK, TxAt, SameTask, InTx
  <2> QED
    BY <2>1, <2>2
<1>2. LocksExclude'
  BY <1>t DEF AInv, ActivationTypeOK, LocksExclude, Writes, LockedByOther
<1>3. PastIndex'
  BY <1>t DEF AInv, ActivationTypeOK, PastIndex, SameTask
<1>4. OnePastIndex'
  BY <1>t DEF AInv, ActivationTypeOK, OnePastIndex, SameTask
<1>5. OneActivePerTask'
  BY DEF AInv, OneActivePerTask, SameTask
<1> QED
  BY <1>1, <1>2, <1>3, <1>4, <1>5 DEF AInv

\* The commit: c replaces the active row of its task, and nobody else counted
\* on the row it deactivates.
LEMMA CommitAInv ==
  ASSUME AInv, ActivationTypeOK', NEW c \in Clients, Commit(c)
  PROVE  AInv'
<1> USE DEF Commit, At
<1>t. ActivationTypeOK
  BY DEF AInv
<1>c. on[c] \in Ids /\ on[c] = want[c]
  BY <1>t DEF AInv, ActivationTypeOK, TxAt, InTx
<1>1. \A d \in Clients : TxAt(d)'
  <2>1. TxAt(c)'
    BY <1>t DEF ActivationTypeOK, TxAt, SameTask, InTx
  <2>2. ASSUME NEW d \in Clients, d # c PROVE TxAt(d)'
    <3>1. off[d] # Nobody => off[d] # off[c]
      BY <1>t, <2>2 DEF AInv, ActivationTypeOK, IdOrNobody, LocksExclude, Writes
    <3> QED
      BY <1>t, <2>2, <3>1 DEF AInv, ActivationTypeOK, TxAt, SameTask, InTx
  <2> QED
    BY <2>1, <2>2
<1>2. LocksExclude'
  BY <1>t, NobodyAssumption DEF AInv, ActivationTypeOK, LocksExclude, Writes
<1>3. PastIndex'
  <2> SUFFICES ASSUME NEW d \in Clients, NEW r \in active',
                      at'[d] = "commit", SameTask(r, on[d])
               PROVE  r \in {on[d], off[d]} /\ d # c
    BY <1>t DEF ActivationTypeOK, PastIndex, SameTask
  <2>1. d # c /\ at[d] = "commit"
    BY <1>t DEF ActivationTypeOK
  <2>2. r # on[c]
    BY <2>1 DEF AInv, OnePastIndex, SameTask
  <2> QED
    BY <2>1, <2>2 DEF AInv, PastIndex
<1>4. OnePastIndex'
  BY <1>t DEF AInv, ActivationTypeOK, OnePastIndex, SameTask
<1>5. OneActivePerTask'
  <2> SUFFICES ASSUME NEW r \in active', NEW s \in active', SameTask(r, s)
               PROVE  r = s
    BY DEF OneActivePerTask, SameTask
  <2>1. \A q \in active \ {off[c]} : SameTask(q, on[c]) => q = on[c]
    BY DEF AInv, PastIndex
  <2> QED
    BY <2>1 DEF AInv, OneActivePerTask, SameTask
<1> QED
  BY <1>1, <1>2, <1>3, <1>4, <1>5 DEF AInv

\* The invariant is inductive.
LEMMA NextAInv == AInv /\ [ActivationNext]_activationVars => AInv'
<1> SUFFICES ASSUME AInv, [ActivationNext]_activationVars PROVE AInv'
  OBVIOUS
<1>o. ActivationTypeOK /\ ActivationTypeOK'
  BY NextTypeOK DEF AInv
<1>1. CASE UNCHANGED activationVars
  BY <1>1, <1>o DEF AInv, activationVars, txVars, TxAt, LocksExclude, Writes,
     PastIndex, OnePastIndex, OneActivePerTask, SameTask
<1>2. ASSUME NEW c \in Clients, NEW m \in Ids, AskActivate(c, m) PROVE AInv'
  BY <1>2, <1>o, QuietAInv DEF AInv, ActivationTypeOK, AskActivate, At, TxAt, InTx
<1>3. ASSUME NEW c \in Clients, QueryTask(c) PROVE AInv'
  BY <1>3, <1>o, QuietAInv DEF AInv, ActivationTypeOK, QueryTask, At, TxAt, InTx
<1>4. ASSUME NEW c \in Clients, Deactivate(c) PROVE AInv'
  <2>1. CASE Incumbents(c) = {} /\ At(c, "activate") /\ UNCHANGED <<seek, off>>
    BY <1>4, <1>o, <2>1, QuietAInv
    DEF AInv, ActivationTypeOK, Deactivate, At, TxAt, InTx
  <2>2. ASSUME NEW r \in Incumbents(c), off' = [off EXCEPT ![c] = r],
               At(c, "activate"), ~LockedByOther(c, r), UNCHANGED seek
        PROVE  AInv'
    BY <1>4, <1>o, <2>2, OffAInv DEF Deactivate, Incumbents, At
  <2>3. ASSUME NEW r \in Incumbents(c), At(c, "await_off"),
               seek' = [seek EXCEPT ![c] = r], UNCHANGED off
        PROVE  AInv'
    BY <1>4, <1>o, <2>3, QuietAInv
    DEF AInv, ActivationTypeOK, Deactivate, Incumbents, At, TxAt, InTx, SameTask
  <2> QED
    BY <1>4, <2>1, <2>2, <2>3 DEF Deactivate
<1>5. ASSUME NEW c \in Clients, AwaitOff(c) PROVE AInv'
  <2>1. /\ at[c] = "await_off" /\ seek[c] \in Ids /\ SameTask(seek[c], want[c])
        /\ off[c] = Nobody
    BY <1>5, <1>o DEF AInv, AwaitOff, TxAt
  <2>2. CASE seek[c] \in active
    BY <1>5, <1>o, <2>1, <2>2, OffAInv DEF AwaitOff, At, ActivationTypeOK
  <2>3. CASE seek[c] \notin active
    BY <1>5, <1>o, <2>1, <2>3, QuietAInv
    DEF AInv, AwaitOff, At, ActivationTypeOK, TxAt, InTx
  <2> QED
    BY <2>2, <2>3
<1>6. ASSUME NEW c \in Clients, ActivateRow(c) PROVE AInv'
  <2>1. \A d \in Clients : TxAt(d)'
    BY <1>6, <1>o DEF AInv, ActivationTypeOK, ActivateRow, At, TxAt, InTx, SameTask
  <2>2. LocksExclude'
    BY <1>6, <1>o
    DEF AInv, ActivationTypeOK, ActivateRow, LocksExclude, Writes, LockedByOther
  <2>3. PastIndex' /\ OnePastIndex'
    BY <1>6, <1>o
    DEF AInv, ActivationTypeOK, ActivateRow, At, PastIndex, OnePastIndex, SameTask
  <2>4. OneActivePerTask'
    BY <1>6 DEF AInv, ActivateRow, OneActivePerTask, SameTask
  <2> QED
    BY <1>o, <2>1, <2>2, <2>3, <2>4 DEF AInv
<1>7. ASSUME NEW c \in Clients, IndexCheck(c) PROVE AInv'
  <2>1. CASE Rollback(c)
    BY <1>o, <2>1, RollbackAInv
  <2>2. CASE /\ Conflicting(c) = {} /\ At(c, "commit")
             /\ UNCHANGED <<rows, active, want, seek, off, on>>
    <3>1. at[c] = "index" /\ on[c] = want[c] /\ Undecided(c) = {}
      BY <1>7 DEF IndexCheck, AInv, TxAt
    <3>2. \A d \in Clients : TxAt(d)'
      BY <1>o, <2>2, <3>1 DEF AInv, ActivationTypeOK, At, TxAt, InTx, SameTask
    <3>3. PastIndex'
      BY <1>o, <2>2, <3>1
      DEF AInv, ActivationTypeOK, At, PastIndex, Conflicting, Incumbents, SameTask
    <3>4. OnePastIndex'
      BY <1>o, <2>2, <3>1
      DEF AInv, ActivationTypeOK, At, OnePastIndex, Undecided, SameTask
    <3>5. LocksExclude' /\ OneActivePerTask'
      BY <2>2 DEF AInv, LocksExclude, Writes, OneActivePerTask, SameTask
    <3> QED
      BY <1>o, <3>2, <3>3, <3>4, <3>5 DEF AInv
  <2> QED
    BY <1>7, <2>1, <2>2 DEF IndexCheck
<1>8. ASSUME NEW c \in Clients, DeadlockVictim(c) PROVE AInv'
  BY <1>8, <1>o, RollbackAInv DEF DeadlockVictim
<1>9. ASSUME NEW c \in Clients, Commit(c) PROVE AInv'
  BY <1>9, <1>o, CommitAInv
<1>10. CASE CrashActivations
  <2>1. \A d \in Clients : TxAt(d)'
    BY <1>10, <1>o
    DEF AInv, ActivationTypeOK, CrashActivations, TxAt, Pending, InTx, Answers
  <2>2. LocksExclude'
    BY <1>10, NobodyAssumption DEF CrashActivations, LocksExclude, Writes
  <2>3. \A d \in Clients : at'[d] # "commit"
    BY <1>10, <1>o DEF ActivationTypeOK, CrashActivations, Pending, InTx, Answers
  <2>4. OneActivePerTask'
    BY <1>10 DEF AInv, CrashActivations, OneActivePerTask, SameTask
  <2> QED
    BY <1>o, <2>1, <2>2, <2>3, <2>4 DEF AInv, PastIndex, OnePastIndex
<1>11. ASSUME NEW r \in Ids \ rows, AddRow(r) PROVE AInv'
  BY <1>11, <1>o DEF AInv, AddRow, txVars, TxAt, LocksExclude, Writes,
     PastIndex, OnePastIndex, OneActivePerTask, SameTask
<1> QED
  BY <1>1, <1>2, <1>3, <1>4, <1>5, <1>6, <1>7, <1>8, <1>9, <1>10, <1>11
  DEF ActivationNext, ActivationStep

\* AInv holds in every reachable state.
LEMMA Invariance == ActivationSpec => []AInv
  BY InitAInv, NextAInv, PTL DEF ActivationSpec

----------------------------------------------------------------------------
\* Type correctness of _activate's transactions.
THEOREM ActivationTypeCorrect == ActivationSpec => []ActivationTypeOK
<1>1. AInv => ActivationTypeOK
  BY DEF AInv
<1> QED
  BY <1>1, Invariance, PTL

\* However many activations run, wait, fail and crash, a task never has two
\* active models in a committed state.
THEOREM OneActive == ActivationSpec => []OneActivePerTask
<1>1. AInv => OneActivePerTask
  BY DEF AInv
<1> QED
  BY <1>1, Invariance, PTL

\* Only a commit removes an active row, and it adds one of the same task.
LEMMA NextNeverLost ==
  AInv /\ [ActivationNext]_activationVars
    => \A r \in active : \E s \in active' : SameTask(r, s)
<1> SUFFICES ASSUME AInv, [ActivationNext]_activationVars
             PROVE  \A r \in active : \E s \in active' : SameTask(r, s)
  OBVIOUS
<1>1. CASE active' = active
  BY <1>1 DEF SameTask
<1>2. ASSUME NEW c \in Clients, Commit(c), NEW r \in active
      PROVE  \E s \in active' : SameTask(r, s)
  <2>1. on[c] = want[c] /\ (off[c] # Nobody => SameTask(off[c], want[c]))
    BY <1>2 DEF AInv, TxAt, Commit
  <2>2. active' = (active \ {off[c]}) \cup {on[c]}
    BY <1>2 DEF Commit
  <2>3. r # Nobody
    BY NobodyAssumption DEF AInv, ActivationTypeOK
  <2> QED
    BY <2>1, <2>2, <2>3 DEF SameTask
<1>3. [ActivationNext]_activationVars /\ (\A c \in Clients : ~Commit(c))
        => active' = active
  BY DEF activationVars, ActivationNext, ActivationStep, AskActivate, QueryTask, Deactivate,
         AwaitOff, ActivateRow, IndexCheck, DeadlockVictim, Rollback, CrashActivations,
         AddRow
<1> QED
  BY <1>1, <1>2, <1>3

\* No step of any activation, and no crash, takes from a task its active model
\* without giving it another.
THEOREM NeverLost == ActivationSpec => ActiveNeverLost
<1>1. AInv /\ [ActivationNext]_activationVars
        => [\A r \in active : \E s \in active' : SameTask(r, s)]_activationVars
  BY NextNeverLost
<1> QED
  BY <1>1, Invariance, PTL DEF ActivationSpec, ActiveNeverLost

----------------------------------------------------------------------------
\* In a set with one row per task, the row of a task is the one that was chosen.
LEMMA ChooseRow ==
  ASSUME NEW S, NEW r \in S, \A p, q \in S : SameTask(p, q) => p = q,
         NEW k, TaskOf[r] = k
  PROVE  (CHOOSE q \in S : TaskOf[q] = k) = r
  BY DEF SameTask

\* The register of each task, and each client's reply, as ActiveRegister sees them.
register == [k \in Tasks |-> RegisterOf(k)]
reply == [c \in Clients |-> ReplyOf(c)]

\* A step of one request changes its own reply only.
LEMMA ReplyEdit ==
  ASSUME NEW c \in Clients, \A d \in Clients \ {c} : at'[d] = at[d]
  PROVE  reply' = [reply EXCEPT ![c] = ReplyOf(c)']
<1>1. \A d \in Clients \ {c} : ReplyOf(d)' = ReplyOf(d)
  BY DEF ReplyOf
<1> QED
  BY <1>1 DEF reply

\* The register changes only with the set of active rows.
LEMMA RegisterKept == active' = active => register' = register
  BY DEF register, RegisterOf

\* A request that is refused changes nothing but its reply.
LEMMA RefuseMaps ==
  ASSUME ActivationTypeOK, NEW c \in Clients, at[c] \in Pending,
         at' = [at EXCEPT ![c] = "refused"], UNCHANGED <<active, want>>
  PROVE  Register!Refuse(c)
<1>1. ReplyOf(c) = "pending" /\ ReplyOf(c)' = "refused"
  BY DEF ActivationTypeOK, ReplyOf, Pending, InTx
<1>2. reply' = [reply EXCEPT ![c] = "refused"] /\ reply[c] = "pending"
  BY <1>1, ReplyEdit DEF ActivationTypeOK, reply
<1> QED
  BY <1>2, RegisterKept DEF Register!Refuse, register, reply

\* A request that moves on inside the database is still unanswered.
LEMMA PendingMaps ==
  ASSUME ActivationTypeOK, NEW c \in Clients, at[c] \in Pending, at'[c] \in Pending,
         \A d \in Clients \ {c} : at'[d] = at[d], UNCHANGED <<active, want>>
  PROVE  UNCHANGED <<register, want, reply>>
<1>1. ReplyOf(c) = "pending" /\ ReplyOf(c)' = "pending"
  BY DEF ReplyOf, Pending, InTx
<1>2. reply' = reply
  BY <1>1, ReplyEdit DEF reply
<1> QED
  BY <1>2, RegisterKept

\* A commit is the write of the register: its row is then the active one of its
\* task, and the other tasks' rows stay.
LEMMA CommitMaps ==
  ASSUME AInv, AInv', NEW c \in Clients, Commit(c)
  PROVE  Register!Write(c)
<1>t. ActivationTypeOK /\ OneActivePerTask /\ OneActivePerTask'
  BY DEF AInv
<1>1. /\ at[c] = "commit" /\ on[c] = want[c] /\ want[c] \in Ids
      /\ active' = (active \ {off[c]}) \cup {want[c]}
      /\ at' = [at EXCEPT ![c] = "activated"] /\ want' = want
  BY DEF AInv, ActivationTypeOK, TxAt, InTx, Commit, At
<1>2. reply' = [reply EXCEPT ![c] = "activated"] /\ reply[c] = "pending"
  <2>1. ReplyOf(c) = "pending" /\ ReplyOf(c)' = "activated"
    BY <1>t, <1>1 DEF ActivationTypeOK, ReplyOf, Pending, InTx
  <2> QED
    BY <1>t, <1>1, <2>1, ReplyEdit DEF ActivationTypeOK, reply
<1>3. RegisterOf(TaskOf[want[c]])' = want[c]
  <2>1. (CHOOSE q \in active' : TaskOf[q] = TaskOf[want[c]]) = want[c]
    BY <1>t, <1>1, ChooseRow DEF OneActivePerTask, SameTask
  <2> QED
    BY <1>1, <2>1 DEF RegisterOf
<1>4. ASSUME NEW k \in Tasks, k # TaskOf[want[c]]
      PROVE  RegisterOf(k)' = RegisterOf(k)
  <2>1. \A r \in Ids : TaskOf[r] = k => (r \in active' <=> r \in active)
    BY <1>1, <1>4, NobodyAssumption DEF AInv, ActivationTypeOK, TxAt, SameTask
  <2>2. CASE \E r \in active : TaskOf[r] = k
    <3>1. PICK r \in active : TaskOf[r] = k
      BY <2>2
    <3>2. r \in active'
      BY <1>t, <2>1, <3>1 DEF ActivationTypeOK
    <3>3. (CHOOSE q \in active : TaskOf[q] = k) = r
      BY <1>t, <3>1, ChooseRow DEF OneActivePerTask
    <3>4. (CHOOSE q \in active' : TaskOf[q] = k) = r
      BY <1>t, <3>1, <3>2, ChooseRow DEF OneActivePerTask, SameTask
    <3> QED
      BY <3>1, <3>2, <3>3, <3>4 DEF RegisterOf
  <2>3. CASE ~\E r \in active : TaskOf[r] = k
    <3>1. ~\E r \in active' : TaskOf[r] = k
      BY <1>t, <1>1, <1>4, <2>1, <2>3 DEF ActivationTypeOK
    <3> QED
      BY <2>3, <3>1 DEF RegisterOf
  <2> QED
    BY <2>2, <2>3
<1>5. register' = [register EXCEPT ![TaskOf[want[c]]] = want[c]]
  BY <1>1, <1>3, <1>4, TaskAssumption DEF register
<1> QED
  BY <1>1, <1>2, <1>5 DEF Register!Write, register, reply

\* Concurrent activations are atomic: each "activated" is one write of its
\* task's register, each refusal, rollback and crash leaves it alone.
THEOREM RefinesRegister == ActivationSpec => ImplementsRegister
<1>1. ActivationInit => Register!Init
  <2> SUFFICES ASSUME ActivationInit PROVE Register!Init
    OBVIOUS
  <2>1. \A k \in Tasks : RegisterOf(k) = Nobody
    BY DEF ActivationInit, RegisterOf
  <2>2. ASSUME NEW c \in Clients PROVE ReplyOf(c) = "none"
    <3>1. at[c] = "idle"
      BY DEF ActivationInit
    <3> QED
      BY <3>1 DEF ReplyOf, Pending, InTx
  <2> QED
    BY <2>1, <2>2 DEF ActivationInit, Register!Init
<1>2. AInv /\ AInv' /\ [ActivationNext]_activationVars
        => [Register!Next]_<<register, want, reply>>
  <2> SUFFICES ASSUME AInv, AInv', [ActivationNext]_activationVars
               PROVE  [Register!Next]_<<register, want, reply>>
    OBVIOUS
  <2>t. ActivationTypeOK
    BY DEF AInv
  <2>1. CASE UNCHANGED activationVars
    BY <2>1 DEF activationVars, txVars, register, reply, RegisterOf, ReplyOf
  <2>2. ASSUME NEW c \in Clients, NEW m \in Ids, AskActivate(c, m)
        PROVE  Register!Ask(c, m)
    <3>1. ReplyOf(c) = "none" /\ ReplyOf(c)' = "pending"
      BY <2>t, <2>2 DEF ActivationTypeOK, AskActivate, At, ReplyOf, Pending, InTx
    <3>2. reply' = [reply EXCEPT ![c] = "pending"] /\ reply[c] = "none"
      BY <2>t, <2>2, <3>1, ReplyEdit DEF ActivationTypeOK, AskActivate, At, reply
    <3> QED
      BY <2>2, <3>2, RegisterKept DEF AskActivate, Register!Ask, register, reply
  <2>3. ASSUME NEW c \in Clients, QueryTask(c)
        PROVE  Register!Refuse(c) \/ UNCHANGED <<register, want, reply>>
    <3>1. CASE want[c] \in rows
      BY <2>t, <2>3, <3>1, PendingMaps DEF ActivationTypeOK, QueryTask, At, Pending, InTx
    <3>2. CASE want[c] \notin rows
      BY <2>t, <2>3, <3>2, RefuseMaps DEF QueryTask, At, Pending
    <3> QED
      BY <3>1, <3>2
  <2>4. ASSUME NEW c \in Clients, Deactivate(c) \/ AwaitOff(c) \/ ActivateRow(c)
        PROVE  UNCHANGED <<register, want, reply>>
    <3>1. /\ at[c] \in Pending /\ at'[c] \in Pending
          /\ \A d \in Clients \ {c} : at'[d] = at[d]
          /\ UNCHANGED <<active, want>>
      BY <2>t, <2>4
      DEF ActivationTypeOK, Deactivate, AwaitOff, ActivateRow, At, Pending, InTx
    <3> QED
      BY <2>t, <3>1, PendingMaps
  <2>5. ASSUME NEW c \in Clients, at[c] \in Pending, Rollback(c)
        PROVE  Register!Refuse(c)
    BY <2>t, <2>5, RefuseMaps DEF Rollback, At
  <2>6. ASSUME NEW c \in Clients, IndexCheck(c)
        PROVE  Register!Refuse(c) \/ UNCHANGED <<register, want, reply>>
    <3>1. at[c] \in Pending
      BY <2>6 DEF IndexCheck, Pending, InTx
    <3>2. CASE At(c, "commit") /\ UNCHANGED <<active, want>>
      BY <2>t, <3>1, <3>2, PendingMaps DEF ActivationTypeOK, At, Pending, InTx
    <3> QED
      BY <2>5, <2>6, <3>1, <3>2 DEF IndexCheck
  <2>7. ASSUME NEW c \in Clients, DeadlockVictim(c) PROVE Register!Refuse(c)
    <3>1. at[c] \in Pending
      BY <2>7 DEF DeadlockVictim, WaitsFor, Pending, InTx
    <3> QED
      BY <2>5, <2>7, <3>1 DEF DeadlockVictim
  <2>8. ASSUME CrashActivations PROVE Register!RefuseAll
    <3>1. \A c \in Clients : ReplyOf(c)' = IF ReplyOf(c) = "pending" THEN "refused"
                                                                   ELSE ReplyOf(c)
      BY <2>t, <2>8
      DEF ActivationTypeOK, CrashActivations, ReplyOf, Pending, InTx, Answers
    <3>2. reply' = [c \in Clients |-> IF reply[c] = "pending" THEN "refused"
                                                              ELSE reply[c]]
      BY <3>1 DEF reply
    <3> QED
      BY <2>8, <3>2, RegisterKept
      DEF CrashActivations, Register!RefuseAll, register, reply
  <2>9. ASSUME NEW r \in Ids \ rows, AddRow(r)
        PROVE  UNCHANGED <<register, want, reply>>
    BY <2>9 DEF AddRow, txVars, register, reply, RegisterOf, ReplyOf
  <2>10. ASSUME NEW c \in Clients, Commit(c) PROVE Register!Write(c)
    BY <2>10, CommitMaps
  <2> QED
    BY <2>1, <2>2, <2>3, <2>4, <2>6, <2>7, <2>8, <2>9, <2>10
    DEF ActivationNext, ActivationStep, Register!Next
<1> QED
  BY <1>1, <1>2, Invariance, PTL
  DEF ActivationSpec, ImplementsRegister, Register!Spec, register, reply
=============================================================================
