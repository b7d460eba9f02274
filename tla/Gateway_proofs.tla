--------------------------- MODULE Gateway_proofs ---------------------------
(***************************************************************************)
(* Proofs about the gateway process, for any images, keys, links, browsers,*)
(* requests and bounds: first the schema, then keys, links and sessions.   *)
(***************************************************************************)
EXTENDS Gateway, TLAPS

\* What a boot has open, and what is left for it to do.
Open ==
  /\ phase \in {"down", "serving", "migrating"} => ran = <<>> /\ named = {}
  /\ phase \in {"recording", "committing"} =>
       \E f \in todo : /\ NextFile(f)
                       /\ ran = <<f>>
                       /\ named = IF phase = "recording" THEN {} ELSE {f}
  /\ todo \cap recorded = {}
  /\ phase \in Booting => Releases[release] \subseteq recorded \cup todo
  /\ phase \notin Booting => todo = {}

MInv == MigrateTypeOK /\ Open /\ SchemaFollowsRecord

\* The invariant of the schema holds initially: what is installed is recorded.
LEMMA InitMInv == MigrateInit => MInv
<1> SUFFICES ASSUME MigrateInit PROVE MInv
  OBVIOUS
<1>1. MigrateTypeOK
  BY InstalledAssumption, ReleasesAssumption, FaultsAssumption
  DEF MigrateInit, MigrateTypeOK
<1>2. Open /\ SchemaFollowsRecord
  BY InstalledAssumption DEF MigrateInit, Open, SchemaFollowsRecord, Booting
<1> QED
  BY <1>1, <1>2 DEF MInv

\* The file that comes next is one.
LEMMA NextFileUnique ==
  ASSUME MigrateTypeOK, NEW f, NEW g, NextFile(f), NextFile(g) PROVE f = g
  BY ReleasesAssumption DEF MigrateTypeOK, NextFile

\* A commit adds a file that the record did not name, with its record.
LEMMA CommitMInv ==
  ASSUME MInv, NEW f \in todo, Commit(f) PROVE MInv'
<1>t. MigrateTypeOK
  BY DEF MInv
<1>1. /\ phase = "committing" /\ NextFile(f) /\ f \in Nat /\ f \notin recorded
      /\ Releases[release] \subseteq Nat
  BY ReleasesAssumption DEF Commit, MInv, MigrateTypeOK, Open
<1>2. ran = <<f>> /\ named = {f}
  BY <1>t, <1>1, NextFileUnique DEF MInv, Open
<1>3. /\ applied' = Append(applied, f) /\ recorded' = recorded \cup {f}
      /\ ran' = <<>> /\ named' = {} /\ todo' = todo \ {f} /\ phase' = "migrating"
      /\ UNCHANGED <<release, faults>>
  <2>1. applied \o <<f>> = Append(applied, f)
    BY <1>1, <1>t DEF MigrateTypeOK
  <2> QED
    BY <1>2, <2>1 DEF Commit
<1>4. MigrateTypeOK'
  BY <1>t, <1>1, <1>3 DEF MigrateTypeOK, Booting
<1>5. Open'
  BY <1>1, <1>3 DEF MInv, Open, Booting
<1>6. SchemaFollowsRecord'
  <2>1. /\ Len(applied') = Len(applied) + 1 /\ Len(applied) \in Nat
        /\ applied'[Len(applied) + 1] = f
        /\ \A i \in 1..Len(applied) : applied'[i] = applied[i]
        /\ DOMAIN applied = 1..Len(applied) /\ DOMAIN applied' = 1..(Len(applied) + 1)
    BY <1>t, <1>1, <1>3 DEF MigrateTypeOK
  <2>2. \A i \in 1..Len(applied) : applied[i] \in recorded
    BY <2>1 DEF MInv, SchemaFollowsRecord
  <2>3. \A g \in recorded' : \E i \in DOMAIN applied' : applied'[i] = g
    BY <1>3, <2>1 DEF MInv, SchemaFollowsRecord
  <2>4. \A i, j \in DOMAIN applied' : applied'[i] = applied'[j] => i = j
    BY <1>1, <2>1, <2>2 DEF MInv, SchemaFollowsRecord
  <2>5. \A i \in DOMAIN applied' : applied'[i] \in recorded'
    BY <1>3, <2>1, <2>2
  <2> QED
    BY <1>3, <2>3, <2>4, <2>5 DEF SchemaFollowsRecord
<1> QED
  BY <1>4, <1>5, <1>6 DEF MInv

\* The invariant of the schema is inductive.
LEMMA NextMInv == MInv /\ [MigrateNext]_migrateVars => MInv'
<1> SUFFICES ASSUME MInv, [MigrateNext]_migrateVars PROVE MInv'
  OBVIOUS
<1>t. MigrateTypeOK
  BY DEF MInv
<1> USE DEF schema, open
<1>1. CASE UNCHANGED migrateVars
  BY <1>1 DEF migrateVars, MInv, MigrateTypeOK, Open, SchemaFollowsRecord, NextFile
<1>2. CASE Boot
  <2>1. MigrateTypeOK'
    BY <1>2, <1>t DEF Boot, MigrateTypeOK, Booting
  <2>2. Open'
    BY <1>2 DEF Boot, MInv, Open, Booting
  <2>3. SchemaFollowsRecord'
    BY <1>2 DEF Boot, MInv, SchemaFollowsRecord
  <2> QED
    BY <2>1, <2>2, <2>3 DEF MInv
<1>3. CASE Serve
  <2>1. MigrateTypeOK'
    BY <1>3, <1>t DEF Serve, MigrateTypeOK, Booting
  <2>2. Open' /\ SchemaFollowsRecord'
    BY <1>3 DEF Serve, MInv, Open, Booting, SchemaFollowsRecord
  <2> QED
    BY <2>1, <2>2 DEF MInv
<1>4. ASSUME NEW f \in todo, Execute(f) PROVE MInv'
  <2>1. f \in Nat /\ ran = <<>>
    BY <1>4, <1>t, ReleasesAssumption DEF Execute, MInv, Open, MigrateTypeOK
  <2>2. ran' = <<f>>
    BY <1>4, <2>1 DEF Execute
  <2>3. MigrateTypeOK'
    BY <1>4, <1>t, <2>1, <2>2 DEF Execute, MigrateTypeOK, Booting
  <2>4. Open'
    BY <1>4, <2>2 DEF Execute, MInv, Open, Booting, NextFile
  <2>5. SchemaFollowsRecord'
    BY <1>4 DEF Execute, MInv, SchemaFollowsRecord
  <2> QED
    BY <2>3, <2>4, <2>5 DEF MInv
<1>5. ASSUME NEW f \in todo, Record(f) PROVE MInv'
  <2>1. f \in Nat /\ ran = <<f>> /\ named = {}
    BY <1>5, <1>t, ReleasesAssumption, NextFileUnique
    DEF Record, MInv, Open, MigrateTypeOK
  <2>2. MigrateTypeOK'
    BY <1>5, <1>t, <2>1 DEF Record, MigrateTypeOK, Booting
  <2>3. Open'
    BY <1>5, <2>1 DEF Record, MInv, Open, Booting, NextFile
  <2>4. SchemaFollowsRecord'
    BY <1>5 DEF Record, MInv, SchemaFollowsRecord
  <2> QED
    BY <2>2, <2>3, <2>4 DEF MInv
<1>6. ASSUME NEW f \in todo, Commit(f) PROVE MInv'
  BY <1>6, CommitMInv
<1>7. CASE Fail
  <2>1. MigrateTypeOK'
    BY <1>7, <1>t, FaultsAssumption DEF Fail, Faulty, MigrateTypeOK
  <2>2. Open' /\ SchemaFollowsRecord'
    BY <1>7 DEF Fail, MInv, Open, Booting, SchemaFollowsRecord
  <2> QED
    BY <2>1, <2>2 DEF MInv
<1>8. CASE Die \/ Deploy
  <2>1. todo' = {} /\ ran' = <<>> /\ named' = {}
    BY <1>8 DEF Die, Deploy, MInv, Open, Booting
  <2>2. MigrateTypeOK'
    <3>1. release' \in DOMAIN Releases /\ faults' \in 0..MaxFaults
      <4>1. release \in 1..Len(Releases) /\ Len(Releases) \in Nat /\ faults \in 0..MaxFaults
        BY <1>t, ReleasesAssumption DEF MigrateTypeOK
      <4>2. release' \in 1..Len(Releases)
        BY <1>8, <4>1 DEF Die, Deploy
      <4> QED
        BY <1>8, <4>1, <4>2, FaultsAssumption, ReleasesAssumption DEF Die, Deploy, Faulty
    <3>2. phase' = "down" /\ UNCHANGED <<applied, recorded>>
      BY <1>8 DEF Die, Deploy
    <3> QED
      BY <1>t, <2>1, <3>1, <3>2 DEF MigrateTypeOK
  <2>3. Open' /\ SchemaFollowsRecord'
    BY <1>8, <2>1 DEF Die, Deploy, MInv, Open, Booting, SchemaFollowsRecord
  <2> QED
    BY <2>2, <2>3 DEF MInv
<1> QED
  BY <1>1, <1>2, <1>3, <1>4, <1>5, <1>6, <1>7, <1>8 DEF MigrateNext, BootStep
----------------------------------------------------------------------------
\* Every step of the process is one of start-up, or none of its business.
LEMMA StepMigrates == [Next]_vars => [MigrateNext]_migrateVars
  BY DEF vars, Next, Starts, Serves, Stops, TimePasses, MigrateNext

\* MInv holds in every reachable state.
LEMMA SchemaInvariance == Spec => []MInv
<1>1. Init => MInv
  BY InitMInv DEF Init
<1>2. MInv /\ [Next]_vars => MInv'
  BY StepMigrates, NextMInv
<1> QED
  BY <1>1, <1>2, PTL DEF Spec

\* Through failing statements, crashes and deployments the schema holds exactly
\* the files it names, each once, and the gateway serves with all of its image.
THEOREM SchemaSafe == Spec => []SchemaFollowsRecord
<1>1. MInv => SchemaFollowsRecord
  BY DEF MInv
<1> QED
  BY <1>1, SchemaInvariance, PTL

----------------------------------------------------------------------------
\* What a request may count on at each step of its handler.
RequestAt(r) ==
  /\ at[r] \notin Ended /\ stale[r] => key[r] \in revoked
  /\ at[r] = "check" => op[r] \in {"mint", "create_admin", "create_ingest", "revoke"}
  /\ at[r] = "check" /\ op[r] = "revoke" => arg[r] \in Keys
  /\ at[r] \in {"mint", "device", "insert", "update"} => ~stale[r]
  /\ at[r] = "mint" => key[r] \in Keys
  /\ at[r] = "update" =>
       key[r] \in Keys /\ arg[r] \in Keys \ {key[r]} /\ scope[key[r]] = "admin"
  /\ at[r] = "fresh" => \E e \in minted : e.link = arg[r]

\* A link is in the dictionary, or with the one request that popped it, or has
\* logged in once.
LinkHeld ==
  /\ \A e, f \in minted : e.link = f.link => e = f
  /\ \A g \in granted, e \in links : e.link # g.link
  /\ \A r \in Requests : at[r] = "fresh" =>
       /\ \A e \in links : e.link # arg[r]
       /\ \A g \in granted : g.link # arg[r]
       /\ \A q \in Requests \ {r} : at[q] = "fresh" => arg[q] # arg[r]

GInv ==
  /\ AccessTypeOK
  /\ \A r \in Requests : RequestAt(r)
  /\ LinkHeld
  /\ LinkOnce
  /\ RevokedActsNoMore
  /\ AdminStays

\* The invariant of keys and links holds initially: no request came yet.
LEMMA InitGInv == AccessInit => GInv
<1> SUFFICES ASSUME AccessInit PROVE GInv
  OBVIOUS
<1>1. AccessTypeOK
  BY AccessAssumption DEF AccessInit, AccessTypeOK, Ended, Login
<1>2. (\A r \in Requests : RequestAt(r)) /\ LinkHeld /\ LinkOnce /\ RevokedActsNoMore
  BY DEF AccessInit, Ended, RequestAt, LinkHeld, LinkOnce, RevokedActsNoMore
<1>3. AdminStays
  BY AccessAssumption DEF AccessInit, AdminStays, Admins
<1> QED
  BY <1>1, <1>2, <1>3 DEF GInv

\* A request that arrives, whatever it is, but for what becomes of the links.
LEMMA ArriveGInv ==
  ASSUME GInv, NEW r \in Requests, NEW what \in Kinds, NEW label, NEW k, NEW x, NEW b,
         Arrive(r, what, label, k, x, b),
         \/ label = "check" /\ what = "mint" /\ k \in Keys
         \/ label = "check" /\ what \in {"create_admin", "create_ingest"} /\ k \in Keys
         \/ label = "check" /\ what = "revoke" /\ k \in Keys /\ x \in Keys
         \/ label = "verify" /\ k \in Keys
         \/ label = "insert" /\ k = None
         \/ label = "denied" /\ k = None
         \/ label = "fresh" /\ k \in Keys /\ \E e \in minted : e.link = x,
         x \in Keys \cup Links \cup {None}, b \in Browsers \cup {None},
         links' \subseteq links,
         label = "fresh" => /\ \A e \in links' : e.link # x
                            /\ \E e \in links : e.link = x
  PROVE  GInv'
<1> USE DEF Arrive, Go, tables, history, Ended
<1>t. AccessTypeOK
  BY DEF GInv
<1>1. AccessTypeOK'
  <2>1. k \in Keys \cup {None} /\ label \in Ended \cup {"check", "fresh", "verify", "insert"}
    BY DEF Ended
  <2> QED
    BY <1>t, <2>1 DEF AccessTypeOK
<1>2. ASSUME NEW q \in Requests PROVE RequestAt(q)'
  <2>1. CASE q # r
    BY <2>1, <1>t DEF GInv, RequestAt, AccessTypeOK
  <2>2. CASE q = r
    <3>1. /\ at'[r] = label /\ op'[r] = what /\ key'[r] = k /\ arg'[r] = x
          /\ stale'[r] = (k \in revoked) /\ revoked' = revoked /\ minted' = minted
      BY <1>t, <1>1 DEF AccessTypeOK
    <3>2. None \notin revoked
      BY <1>t, AccessAssumption DEF AccessTypeOK
    <3> QED
      BY <2>2, <3>1, <3>2 DEF RequestAt
  <2> QED
    BY <2>1, <2>2
<1>3. LinkHeld'
  <2>1. /\ minted' = minted /\ granted' = granted
        /\ at' = [at EXCEPT ![r] = label] /\ arg' = [arg EXCEPT ![r] = x]
        /\ at \in [Requests -> Ended \cup {"check", "mint", "fresh", "verify",
                                     "device", "insert", "update"}]
        /\ arg \in [Requests -> Keys \cup Links \cup {None}]
    BY <1>t DEF AccessTypeOK
  <2>2. label = "fresh" => /\ \A g \in granted : g.link # x
                           /\ \A q \in Requests : at[q] = "fresh" => arg[q] # x
    BY DEF GInv, LinkHeld
  <2> QED
    BY <2>1, <2>2 DEF GInv, LinkHeld
<1>4. LinkOnce' /\ AdminStays'
  BY DEF GInv, LinkOnce, AdminStays, Admins
<1>5. RevokedActsNoMore'
  BY <1>t DEF GInv, RevokedActsNoMore, AccessTypeOK
<1> QED
  BY <1>1, <1>2, <1>3, <1>4, <1>5 DEF GInv

\* Every arrival is one of those.
LEMMA AskGInv == ASSUME GInv, NEW r \in Requests, Ask(r) PROVE GInv'
<1>t. AccessTypeOK
  BY DEF GInv
<1>1. ASSUME NEW k \in Keys, AskLink(r, k) PROVE GInv'
  BY <1>1, ArriveGInv DEF AskLink, Kinds
<1>2. CASE RunScript(r)
  BY <1>2, ArriveGInv DEF RunScript, Kinds
<1>3. ASSUME NEW b \in Browsers, AskCreate(r, b) PROVE GInv'
  <2>1. cookie[b] \in Keys
    BY <1>3, <1>t DEF AskCreate, AccessTypeOK
  <2> QED
    BY <1>3, <2>1, ArriveGInv DEF AskCreate, Kinds
<1>4. ASSUME NEW b \in Browsers, NEW k \in Keys, AskLogin(r, k, b) PROVE GInv'
  BY <1>4, ArriveGInv DEF AskLogin, Kinds
<1>5. ASSUME NEW b \in Browsers, NEW k \in Keys, AskRevoke(r, k, b) PROVE GInv'
  <2>1. cookie[b] \in Keys
    BY <1>5, <1>t DEF AskRevoke, AccessTypeOK
  <2> QED
    BY <1>5, <2>1, ArriveGInv DEF AskRevoke, Kinds
<1>6. ASSUME NEW b \in Browsers, NEW l \in Links, FollowLink(r, l, b) PROVE GInv'
  <2>1. ASSUME NEW e \in links, e.link = l, Arrive(r, "link", "fresh", e.key, l, b),
               links' = links \ {e}
        PROVE  GInv'
    <3>1. e \in minted /\ e.key \in Keys
      BY <1>t DEF AccessTypeOK, Login
    <3>2. \A f \in links \ {e} : f.link # l
      BY <2>1, <3>1, <1>t DEF GInv, LinkHeld, AccessTypeOK
    <3> QED
      BY <2>1, <3>1, <3>2, ArriveGInv DEF Kinds
  <2>2. ASSUME Arrive(r, "link", "denied", None, None, None), UNCHANGED links PROVE GInv'
    BY <2>2, ArriveGInv DEF Kinds
  <2> QED
    BY <1>6, <2>1, <2>2 DEF FollowLink
<1> QED
  BY <1>1, <1>2, <1>3, <1>4, <1>5, <1>6 DEF Ask

\* A handler goes on to a step that holds neither a link nor an answer.
LEMMA ProceedGInv ==
  ASSUME GInv, NEW r \in Requests, at[r] \notin Ended,
         NEW label \in {"mint", "verify", "device", "insert", "update"},
         Proceed(r, label), RequestAt(r)',
         UNCHANGED <<scope, revoked, cookie, links, clock, minted, late>>,
         devices' \subseteq {Device},
         LinkOnce',
         \/ granted' = granted
         \/ /\ at[r] = "fresh"
            /\ granted' \in SUBSET [link : Links, key : Keys, exp : Nat,
                                    by : Requests, time : Nat]
            /\ \A g \in granted' : g \in granted \/ g.link = arg[r]
  PROVE  GInv'
<1> USE DEF Proceed, Go
<1>t. AccessTypeOK
  BY DEF GInv
<1>1. AccessTypeOK'
  BY <1>t DEF AccessTypeOK
<1>2. \A q \in Requests \ {r} : RequestAt(q)'
  BY <1>t DEF GInv, RequestAt, AccessTypeOK
<1>3. LinkHeld'
  BY <1>t DEF GInv, LinkHeld, AccessTypeOK
<1>4. AdminStays'
  BY DEF GInv, AdminStays, Admins
<1>5. RevokedActsNoMore'
  BY <1>t DEF GInv, RevokedActsNoMore, AccessTypeOK
<1> QED
  BY <1>1, <1>2, <1>3, <1>4, <1>5 DEF GInv

\* A request is answered, with what its last statement did to the tables: keys
\* keep their scope and stay revoked, and links come and go as given.
LEMMA FinishGInv ==
  ASSUME GInv, NEW r \in Requests, NEW label \in {"ok", "denied"}, Finish(r, label),
         label = "ok" => ~stale[r],
         AccessTypeOK', AdminStays',
         revoked \subseteq revoked',
         \A k \in Keys : scope[k] = "admin" => scope'[k] = "admin",
         granted' = granted, minted \subseteq minted',
         \A e, f \in minted' : e.link = f.link => e = f,
         \A e \in links' : e \in links \/ \A f \in minted : f.link # e.link
  PROVE  GInv'
<1> USE DEF Finish, Go
<1>t. AccessTypeOK
  BY DEF GInv
<1>a. at' = [at EXCEPT ![r] = label] /\ stale' = stale
      /\ \A q \in Requests \ {r} : /\ at'[q] = at[q] /\ op'[q] = op[q]
                                   /\ key'[q] = key[q] /\ arg'[q] = arg[q]
  BY <1>t DEF AccessTypeOK
<1>1. ASSUME NEW q \in Requests PROVE RequestAt(q)'
  <2>1. CASE q = r
    BY <2>1, <1>t, <1>a DEF RequestAt, Ended, AccessTypeOK
  <2>2. CASE q # r
    BY <2>2, <1>a DEF GInv, RequestAt
  <2> QED
    BY <2>1, <2>2
<1>2. LinkHeld'
  <2>1. \A g \in granted : \E e \in minted : e.link = g.link
    BY DEF GInv, LinkOnce
  <2>2. \A g \in granted, e \in links' : e.link # g.link
    BY <2>1 DEF GInv, LinkHeld
  <2>3. ASSUME NEW q \in Requests, at'[q] = "fresh"
        PROVE  q # r /\ at[q] = "fresh" /\ arg'[q] = arg[q]
    BY <2>3, <1>t, <1>a DEF AccessTypeOK
  <2>4. ASSUME NEW q \in Requests, at'[q] = "fresh"
        PROVE  \A e \in links' : e.link # arg[q]
    BY <2>3, <2>4 DEF GInv, LinkHeld, RequestAt
  <2> QED
    BY <2>2, <2>3, <2>4 DEF GInv, LinkHeld
<1>3. LinkOnce'
  BY DEF GInv, LinkOnce
<1>4. RevokedActsNoMore'
  BY <1>t, <1>a DEF GInv, RevokedActsNoMore, AccessTypeOK
<1> QED
  BY <1>1, <1>2, <1>3, <1>4 DEF GInv

\* Every step of a handler is one of those.
LEMMA AnswerGInv == ASSUME GInv, NEW r \in Requests, Answer(r) PROVE GInv'
<1>t. AccessTypeOK
  BY DEF GInv
<1>r. RequestAt(r)
  BY DEF GInv
<1> USE DEF tables, history
<1>f. ASSUME NEW label \in {"ok", "denied"}, Finish(r, label),
             UNCHANGED <<revoked, devices, scope, links, clock, minted, granted, late>>,
             cookie' \in [Browsers -> Keys \cup {None}], label = "ok" => ~stale[r]
      PROVE  GInv'
  <2>1. AccessTypeOK'
    BY <1>f, <1>t DEF Finish, Go, AccessTypeOK, Ended
  <2>2. AdminStays'
    BY <1>f DEF GInv, AdminStays, Admins
  <2> QED
    BY <1>f, <2>1, <2>2, FinishGInv DEF GInv, LinkHeld
<1>c. cookie \in [Browsers -> Keys \cup {None}]
  BY <1>t DEF AccessTypeOK
<1>1. CASE Check(r)
  <2>1. CASE key[r] \in Admins /\ ~(op[r] = "revoke" /\ arg[r] = key[r])
    <3>1. Proceed(r, Then(r)) /\ at[r] = "check"
      BY <1>1, <2>1 DEF Check
    <3>2. key[r] \in Keys /\ scope[key[r]] = "admin" /\ key[r] \notin revoked
      BY <2>1 DEF Admins
    <3>3. /\ Then(r) \in {"mint", "device", "insert", "update"}
          /\ Then(r) = "update" => op[r] = "revoke"
      BY <3>1, <1>r DEF Then, RequestAt
    <3>4. RequestAt(r)'
      BY <1>1, <1>r, <1>t, <2>1, <3>1, <3>2, <3>3
      DEF Check, Proceed, Go, RequestAt, AccessTypeOK, Ended
    <3> QED
      BY <1>1, <1>t, <3>1, <3>3, <3>4, ProceedGInv DEF Check, GInv, LinkOnce, AccessTypeOK, Ended
  <2>2. CASE ~(key[r] \in Admins /\ ~(op[r] = "revoke" /\ arg[r] = key[r]))
    BY <1>1, <2>2, <1>f, <1>c DEF Check
  <2> QED
    BY <2>1, <2>2
<1>2. CASE Fresh(r)
  <2>1. PICK e \in minted :
          /\ e.link = arg[r]
          /\ IF clock <= e.exp
               THEN /\ Proceed(r, "verify")
                    /\ granted' = granted \cup
                         {[link |-> e.link, key |-> e.key, exp |-> e.exp,
                           by |-> r, time |-> clock]}
               ELSE Finish(r, "denied") /\ UNCHANGED granted
    BY <1>2 DEF Fresh
  <2>2. at[r] = "fresh" /\ UNCHANGED <<tables, cookie, links, clock, minted, late>>
    BY <1>2 DEF Fresh
  <2>3. CASE clock <= e.exp
    <3> DEFINE g == [link |-> e.link, key |-> e.key, exp |-> e.exp, by |-> r, time |-> clock]
    <3>1. Proceed(r, "verify") /\ granted' = granted \cup {g}
      BY <2>1, <2>3
    <3>2. e.link \in Links /\ e.key \in Keys /\ e.exp \in Nat /\ clock \in Nat
          /\ [link |-> e.link, key |-> e.key, exp |-> e.exp] = e
      BY <1>t DEF AccessTypeOK, Login
    <3>3. \A h \in granted : h.link # e.link
      BY <2>1, <2>2 DEF GInv, LinkHeld
    <3>4. LinkOnce'
      <4>1. /\ g.link = e.link /\ g.time <= g.exp
            /\ [link |-> g.link, key |-> g.key, exp |-> g.exp] \in minted
        BY <2>3, <3>2
      <4> HIDE DEF g
      <4>2. ASSUME NEW a \in granted, NEW b \in granted', a.link = b.link PROVE a = b
        BY <4>2, <3>1, <3>3, <4>1 DEF GInv, LinkOnce
      <4>3. ASSUME NEW b \in granted', g.link = b.link PROVE g = b
        BY <4>3, <3>1, <3>3, <4>1
      <4>4. minted' = minted
        BY <2>2
      <4> QED
        BY <3>1, <4>1, <4>2, <4>3, <4>4 DEF GInv, LinkOnce
    <3>5. RequestAt(r)'
      BY <1>r, <1>t, <2>2, <3>1 DEF Proceed, Go, RequestAt, AccessTypeOK, Ended
    <3>6. /\ granted' \in SUBSET [link : Links, key : Keys, exp : Nat,
                                  by : Requests, time : Nat]
          /\ \A h \in granted' : h \in granted \/ h.link = arg[r]
      BY <1>t, <2>1, <3>1, <3>2 DEF AccessTypeOK
    <3> QED
      BY <1>t, <2>2, <3>1, <3>4, <3>5, <3>6, ProceedGInv DEF AccessTypeOK, Ended
  <2>4. CASE ~(clock <= e.exp)
    BY <2>1, <2>2, <2>4, <1>f, <1>c
  <2> QED
    BY <2>3, <2>4
<1>3. CASE Verify(r)
  <2>1. key[r] \in Admins => key[r] \in Keys /\ ~stale[r]
    BY <1>3, <1>r DEF Verify, Admins, RequestAt, Ended
  <2>2. cookie' \in [Browsers -> Keys \cup {None}]
    BY <1>3, <1>c, <2>1 DEF Verify
  <2> QED
    BY <1>3, <1>f, <2>1, <2>2 DEF Verify
<1>4. CASE InsertDevice(r)
  <2>1. RequestAt(r)'
    BY <1>4, <1>r, <1>t DEF InsertDevice, Proceed, Go, RequestAt, AccessTypeOK, Ended
  <2>2. LinkOnce' /\ devices' \subseteq {Device}
    BY <1>4, <1>t DEF InsertDevice, GInv, LinkOnce, AccessTypeOK
  <2> QED
    BY <1>4, <2>1, <2>2, ProceedGInv DEF InsertDevice, Ended
<1>5. CASE Revoke(r)
  <2>1. /\ at[r] = "update" /\ Finish(r, "ok")
        /\ UNCHANGED <<scope, devices, cookie, links, clock, minted, granted>>
        /\ late' = IF key[r] \in revoked THEN late \cup {r} ELSE late
    BY <1>5 DEF Revoke
  <2>2. /\ key[r] \in Keys /\ arg[r] \in Keys \ {key[r]} /\ scope[key[r]] = "admin"
        /\ ~stale[r]
    BY <1>r, <2>1 DEF RequestAt
  <2>3. revoked \subseteq revoked' /\ revoked' \subseteq revoked \cup {arg[r]}
    BY <1>5 DEF Revoke
  <2>4. AccessTypeOK'
    BY <1>t, <2>1, <2>2, <2>3 DEF Finish, Go, AccessTypeOK, Ended
  <2>5. AdminStays'
    <3>1. CASE key[r] \in revoked
      BY <2>1, <3>1 DEF AdminStays
    <3>2. CASE key[r] \notin revoked
      BY <2>1, <2>2, <2>3, <3>2 DEF AdminStays, Admins
    <3> QED
      BY <3>1, <3>2
  <2> QED
    BY <2>1, <2>2, <2>3, <2>4, <2>5, FinishGInv DEF GInv, LinkHeld
<1>6. ASSUME NEW l \in Links, Mint(r, l) PROVE GInv'
  <2> DEFINE e == [link |-> l, key |-> key[r], exp |-> clock + TTL]
  <2>1. /\ at[r] = "mint" /\ \A f \in minted : f.link # l
        /\ links' = {f \in links : f.exp >= clock} \cup {e}
        /\ minted' = minted \cup {e}
        /\ Finish(r, "ok")
        /\ UNCHANGED <<tables, cookie, clock, granted, late>>
    BY <1>6 DEF Mint
  <2>2. key[r] \in Keys /\ ~stale[r]
    BY <1>r, <2>1 DEF RequestAt
  <2>3. e \in Login
    BY <1>t, <2>2, AccessAssumption DEF AccessTypeOK, Login
  <2>4. AccessTypeOK'
    BY <1>t, <2>1, <2>3 DEF Finish, Go, AccessTypeOK, Ended
  <2>5. AdminStays'
    BY <2>1 DEF GInv, AdminStays, Admins
  <2>6. /\ \A f, g \in minted' : f.link = g.link => f = g
        /\ \A f \in links' : f \in links \/ \A g \in minted : g.link # f.link
    BY <2>1 DEF GInv, LinkHeld
  <2> HIDE DEF e
  <2> QED
    BY <2>1, <2>2, <2>4, <2>5, <2>6, FinishGInv
<1>7. ASSUME NEW k \in Keys, InsertKey(r, k) PROVE GInv'
  <2>1. /\ at[r] = "insert" /\ scope[k] = "none" /\ Finish(r, "ok")
        /\ scope' = [scope EXCEPT ![k] = IF op[r] = "create_ingest" THEN "ingest"
                                                                     ELSE "admin"]
        /\ UNCHANGED <<revoked, devices, cookie, links, clock, minted, granted, late>>
    BY <1>7 DEF InsertKey
  <2>2. ~stale[r]
    BY <1>r, <2>1 DEF RequestAt
  <2>3. \A a \in Keys : scope[a] = "admin" => scope'[a] = "admin"
    BY <1>t, <2>1 DEF AccessTypeOK
  <2>4. AccessTypeOK'
    BY <1>t, <2>1 DEF Finish, Go, AccessTypeOK, Ended
  <2>5. AdminStays'
    BY <2>1, <2>3 DEF GInv, AdminStays, Admins
  <2> QED
    BY <2>1, <2>2, <2>3, <2>4, <2>5, FinishGInv DEF GInv, LinkHeld
<1>8. CASE StatementFails(r)
  BY <1>8, <1>f, <1>c DEF StatementFails
<1> QED
  BY <1>1, <1>2, <1>3, <1>4, <1>5, <1>6, <1>7, <1>8 DEF Answer

\* A restart forgets links and requests, and nothing else.
LEMMA AccessCrashGInv == GInv /\ AccessCrash => GInv'
<1> SUFFICES ASSUME GInv, AccessCrash PROVE GInv'
  OBVIOUS
<1> USE DEF AccessCrash, tables, history
<1>t. AccessTypeOK
  BY DEF GInv
<1>1. AccessTypeOK'
  BY <1>t DEF AccessTypeOK, Ended
<1>2. \A r \in Requests : at'[r] \in Ended /\ (at'[r] = "ok" => at[r] = "ok")
  BY DEF Ended
<1>3. (\A r \in Requests : RequestAt(r)') /\ LinkHeld' /\ RevokedActsNoMore'
  BY <1>2 DEF GInv, RequestAt, LinkHeld, RevokedActsNoMore, Ended
<1>4. LinkOnce' /\ AdminStays'
  BY DEF GInv, LinkOnce, AdminStays, Admins
<1> QED
  BY <1>1, <1>3, <1>4 DEF GInv

\* The invariant of keys and links is inductive.
LEMMA NextGInv == GInv /\ [Next]_vars => GInv'
<1> SUFFICES ASSUME GInv, [Next]_vars PROVE GInv'
  OBVIOUS
<1> USE DEF tables, request, history
<1>1. CASE UNCHANGED accessVars
  BY <1>1 DEF accessVars, GInv, AccessTypeOK, RequestAt, LinkHeld, LinkOnce,
     RevokedActsNoMore, AdminStays, Admins
<1>2. CASE AccessNext
  <2>1. ASSUME NEW b \in Browsers, LogOut(b) PROVE GInv'
    <3>1. AccessTypeOK'
      BY <2>1 DEF LogOut, GInv, AccessTypeOK
    <3>2. (\A r \in Requests : RequestAt(r)') /\ LinkHeld' /\ LinkOnce'
          /\ RevokedActsNoMore' /\ AdminStays'
      BY <2>1 DEF LogOut, GInv, RequestAt, LinkHeld, LinkOnce, RevokedActsNoMore,
         AdminStays, Admins
    <3> QED
      BY <3>1, <3>2 DEF GInv
  <2> QED
    BY <1>2, <2>1, AskGInv, AnswerGInv DEF AccessNext
<1>3. CASE Tick
  <2>1. AccessTypeOK'
    BY <1>3 DEF Tick, GInv, AccessTypeOK
  <2>2. (\A r \in Requests : RequestAt(r)') /\ LinkHeld' /\ LinkOnce'
        /\ RevokedActsNoMore' /\ AdminStays'
    BY <1>3 DEF Tick, GInv, RequestAt, LinkHeld, LinkOnce, RevokedActsNoMore,
       AdminStays, Admins
  <2> QED
    BY <2>1, <2>2 DEF GInv
<1>4. CASE AccessCrash
  BY <1>4, AccessCrashGInv
<1> QED
  BY <1>1, <1>2, <1>3, <1>4 DEF vars, Next, Starts, Serves, Stops, TimePasses

\* GInv holds in every reachable state.
LEMMA AccessInvariance == Spec => []GInv
<1>1. Init => GInv
  BY InitGInv DEF Init
<1> QED
  BY <1>1, NextGInv, PTL DEF Spec

----------------------------------------------------------------------------
\* Type correctness of the gateway process.
THEOREM TypeCorrect == Spec => []TypeOK
<1>1. MInv /\ GInv => TypeOK
  BY DEF MInv, GInv, TypeOK
<1> QED
  BY <1>1, SchemaInvariance, AccessInvariance, PTL

\* A login link opens at most one session, in its time, however many requests
\* follow it at once: pop gives it to one of them.
THEOREM LinksLogInOnce == Spec => []LinkOnce
<1>1. GInv => LinkOnce
  BY DEF GInv
<1> QED
  BY <1>1, AccessInvariance, PTL

\* A key revoked before a request arrives gets nothing done by it.
THEOREM RevokedKeysActNoMore == Spec => []RevokedActsNoMore
<1>1. GInv => RevokedActsNoMore
  BY DEF GInv
<1> QED
  BY <1>1, AccessInvariance, PTL

\* An admin remains unless two of them revoked each other at once.
THEOREM AnAdminStays == Spec => []AdminStays
<1>1. GInv => AdminStays
  BY DEF GInv
<1> QED
  BY <1>1, AccessInvariance, PTL
=============================================================================
