------------------------------ MODULE Migrate ------------------------------
(***************************************************************************)
(* Start-up of the gateway (gateway/app/main.py, lifespan) as far as the   *)
(* schema is concerned: migrate in gateway/app/db.py applies, in filename  *)
(* order, the .sql files of the image that schema_migrations does not      *)
(* name, and commits each with its record.  A statement can fail and the   *)
(* process can die anywhere; docker starts it again; a deployment replaces *)
(* the image by one with other files.                                      *)
(*                                                                         *)
(* A file is its place in filename order.  Open is what the connection has *)
(* executed since its last commit; CREATE TABLE IF NOT EXISTS              *)
(* schema_migrations is part of it and may be lost and done again.         *)
(***************************************************************************)
EXTENDS Naturals, Sequences, FiniteSets

CONSTANTS
  Installed,  \* the files an earlier installation has applied, in their order
  Releases,   \* the images deployed one after the other: the files of each
  MaxFaults   \* bound: failing statements and crashes

ASSUME InstalledAssumption ==
  /\ Installed \in Seq(Nat)
  /\ \A i, j \in DOMAIN Installed : Installed[i] = Installed[j] => i = j
ASSUME ReleasesAssumption ==
  /\ Releases # <<>>
  /\ Releases \in Seq(SUBSET Nat)
ASSUME FaultsAssumption == MaxFaults \in Nat

VARIABLES
  phase,     \* "down", "migrating", "recording", "committing" or "serving"
  release,   \* the image that runs
  todo,      \* the files this boot still has to apply
  applied,   \* what the committed schema is made of, in order
  recorded,  \* the committed rows of schema_migrations
  ran,       \* Open: the files executed and not committed
  named,     \* Open: the records inserted and not committed
  faults

open == <<ran, named>>
schema == <<applied, recorded>>
migrateVars == <<phase, release, todo, schema, open, faults>>

Booting == {"migrating", "recording", "committing"}

MigrateTypeOK ==
  /\ phase \in {"down", "serving"} \cup Booting
  /\ release \in DOMAIN Releases
  /\ todo \subseteq Releases[release]
  /\ applied \in Seq(Nat)
  /\ recorded \subseteq Nat
  /\ ran \in Seq(Nat)
  /\ named \subseteq Nat
  /\ faults \in 0..MaxFaults

MigrateInit ==
  /\ phase = "down"
  /\ release = 1
  /\ todo = {}
  /\ applied = Installed
  /\ recorded = {Installed[i] : i \in DOMAIN Installed}
  /\ ran = <<>> /\ named = {}
  /\ faults = 0

Faulty == faults < MaxFaults /\ faults' = faults + 1

\* sorted(MIGRATIONS_DIR.glob("*.sql")): the first that is not done
NextFile(f) == f \in todo /\ \A g \in todo : f <= g

\* Mutant: the container is not started again after a failure.
BootOnce ==
  /\ phase = "down"
  /\ faults = 0
  /\ phase' = "migrating"
  /\ todo' = Releases[release] \ recorded
  /\ UNCHANGED <<release, schema, open, faults>>

\* The pool is open; done is what schema_migrations holds.
Boot ==
  /\ phase = "down"
  /\ phase' = "migrating"
  /\ todo' = Releases[release] \ recorded
  /\ UNCHANGED <<release, schema, open, faults>>

\* Mutant: the connection is in autocommit mode.
ExecuteCommitted(f) ==
  /\ phase = "migrating"
  /\ NextFile(f)
  /\ applied' = Append(applied, f)
  /\ phase' = "recording"
  /\ UNCHANGED <<release, todo, recorded, open, faults>>

Execute(f) ==
  /\ phase = "migrating"
  /\ NextFile(f)
  /\ ran' = Append(ran, f)
  /\ phase' = "recording"
  /\ UNCHANGED <<release, todo, schema, named, faults>>

Record(f) ==
  /\ phase = "recording"
  /\ NextFile(f)
  /\ named' = named \cup {f}
  /\ phase' = "committing"
  /\ UNCHANGED <<release, todo, schema, ran, faults>>

Commit(f) ==
  /\ phase = "committing"
  /\ NextFile(f)
  /\ applied' = applied \o ran
  /\ recorded' = recorded \cup named
  /\ ran' = <<>> /\ named' = {}
  /\ todo' = todo \ {f}
  /\ phase' = "migrating"
  /\ UNCHANGED <<release, faults>>

\* Everything is applied, ensure_bucket finds or makes the bucket: yield.
Serve ==
  /\ phase = "migrating"
  /\ todo = {}
  /\ phase' = "serving"
  /\ UNCHANGED <<release, todo, schema, open, faults>>

\* Whatever is open is rolled back; without lifespan the process ends.
Fail ==
  /\ phase \in Booting
  /\ Faulty
  /\ ran' = <<>> /\ named' = {} /\ todo' = {}
  /\ phase' = "down"
  /\ UNCHANGED <<release, schema>>

\* The process that serves dies.
Die ==
  /\ phase = "serving"
  /\ Faulty
  /\ phase' = "down"
  /\ UNCHANGED <<release, todo, schema, open>>

\* docker compose up replaces the container by one of the next image, in
\* whatever state it is: one whose boot keeps failing as well.
Deploy ==
  /\ release < Len(Releases)
  /\ release' = release + 1
  /\ ran' = <<>> /\ named' = {} /\ todo' = {}
  /\ phase' = "down"
  /\ UNCHANGED <<schema, faults>>

BootStep ==
  \/ Boot \/ Serve
  \/ \E f \in todo : Execute(f) \/ Record(f) \/ Commit(f)

MigrateNext == BootStep \/ Fail \/ Die \/ Deploy
----------------------------------------------------------------------------
\* db.py 4-5, 33-34: through failures, crashes and deployments the committed
\* schema holds exactly the files it names, each once, and no request meets a
\* schema that lacks a file of the image.
SchemaFollowsRecord ==
  /\ \A f \in recorded : \E i \in DOMAIN applied : applied[i] = f
  /\ \A i \in DOMAIN applied : applied[i] \in recorded
  /\ \A i, j \in DOMAIN applied : applied[i] = applied[j] => i = j
  /\ phase = "serving" => Releases[release] \subseteq recorded

\* A boot that failed is tried again until the gateway serves.
Boots == []<>(phase = "serving")
=============================================================================
