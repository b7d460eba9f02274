------------------------------- MODULE Access -------------------------------
(***************************************************************************)
(* Keys, browser sessions and one-time login links: gateway/app/auth.py    *)
(* and the key and login handlers of gateway/app/web.py.  All of them are  *)
(* plain functions, so they run side by side in the thread pool, and every *)
(* query or statement is a transaction of its own: a key checked by the    *)
(* dependency may be revoked before the handler acts.                      *)
(*                                                                         *)
(* A key stands for its row, its plaintext and its hash; a request with a  *)
(* text that is no key presents one that was never created.  Login links   *)
(* live in the dictionary _login_tokens of the process; they are random,   *)
(* so none is minted twice.  last_used_at is not modelled.                 *)
(***************************************************************************)
EXTENDS Naturals, FiniteSets

CONSTANTS
  Keys,             \* the keys there may be
  Bootstrap,        \* the admin keys made before
  Device,           \* the device an ingest key is created for
  Links,            \* login tokens
  Browsers,
  Sessions,         \* the cookies the browsers may hold at the start
  Requests,
  Ops,              \* what each request may be
  TTL,              \* LOGIN_TOKEN_TTL
  MaxTime,          \* bound: the clock
  None

ASSUME AccessAssumption ==
  /\ Bootstrap \subseteq Keys /\ Bootstrap # {}
  /\ Sessions \subseteq [Browsers -> Bootstrap \cup {None}]
  /\ TTL \in Nat /\ MaxTime \in Nat
  /\ None \notin Keys \cup Links \cup Browsers

VARIABLES
  scope,    \* of each key: "admin", "ingest", or "none" while it has no row
  revoked,  \* the keys with revoked_at set
  devices,  \* the rows of table devices
  cookie,   \* the session_key each browser holds, or None
  links,    \* _login_tokens: its keys and expiry times
  clock,
  at,       \* where each request is
  op,       \* what it is
  key,      \* the key it presents, or that its link carries
  arg,      \* its link, or the key to revoke
  from,     \* the browser it comes from
  stale,    \* history: that key was revoked when it arrived
  minted,   \* history: the links there have been, with the key and expiry time
  granted,  \* history: the logins by link, with the time of their check
  late      \* history: the requests that revoked when their own key was

tables == <<scope, revoked, devices>>
request == <<at, op, key, arg, from, stale>>
history == <<minted, granted, late>>
accessVars == <<tables, cookie, links, clock, request, history>>

Login == [link : Links, key : Keys, exp : Nat]
Admins == {k \in Keys : scope[k] = "admin" /\ k \notin revoked}
Ended == {"new", "ok", "denied"}
Kinds == {"mint", "login", "link", "create_admin", "create_ingest", "revoke", "script"}

AccessTypeOK ==
  /\ scope \in [Keys -> {"none", "admin", "ingest"}]
  /\ revoked \subseteq Keys
  /\ devices \subseteq {Device}
  /\ cookie \in [Browsers -> Keys \cup {None}]
  /\ links \subseteq minted /\ minted \subseteq Login
  /\ clock \in Nat
  /\ at \in [Requests -> Ended \cup {"check", "mint", "fresh", "verify",
                                     "device", "insert", "update"}]
  /\ op \in [Requests -> Kinds \cup {"none"}]
  /\ key \in [Requests -> Keys \cup {None}]
  /\ arg \in [Requests -> Keys \cup Links \cup {None}]
  /\ from \in [Requests -> Browsers \cup {None}]
  /\ stale \in [Requests -> BOOLEAN]
  /\ granted \subseteq [link : Links, key : Keys, exp : Nat,
                        by : Requests, time : Nat]
  /\ late \subseteq Requests

AccessInit ==
  /\ scope = [k \in Keys |-> IF k \in Bootstrap THEN "admin" ELSE "none"]
  /\ revoked = {} /\ devices = {}
  /\ cookie \in Sessions
  /\ links = {}
  /\ clock = 0
  /\ at = [r \in Requests |-> "new"]
  /\ op = [r \in Requests |-> "none"]
  /\ key = [r \in Requests |-> None]
  /\ arg = [r \in Requests |-> None]
  /\ from = [r \in Requests |-> None]
  /\ stale = [r \in Requests |-> FALSE]
  /\ minted = {} /\ granted = {} /\ late = {}

Go(r, label) == at' = [at EXCEPT ![r] = label]
Proceed(r, label) == Go(r, label) /\ UNCHANGED <<op, key, arg, from, stale>>

\* The answer is sent, and the locals of the handler are gone.
Finish(r, label) ==
  /\ Go(r, label)
  /\ op' = [op EXCEPT ![r] = "none"]
  /\ key' = [key EXCEPT ![r] = None]
  /\ arg' = [arg EXCEPT ![r] = None]
  /\ from' = [from EXCEPT ![r] = None]
  /\ UNCHANGED stale
----------------------------------------------------------------------------
(* Arrivals.                                                               *)

Arrive(r, what, label, k, x, b) ==
  /\ at[r] = "new"
  /\ what \in Ops[r]
  /\ Go(r, label)
  /\ op' = [op EXCEPT ![r] = what]
  /\ key' = [key EXCEPT ![r] = k]
  /\ arg' = [arg EXCEPT ![r] = x]
  /\ from' = [from EXCEPT ![r] = b]
  /\ stale' = [stale EXCEPT ![r] = k \in revoked]
  /\ UNCHANGED <<tables, cookie, clock, history>>

\* GET /ui/login-qr with the key in its header
AskLink(r, k) == Arrive(r, "mint", "check", k, None, None) /\ UNCHANGED links

\* POST /ui/login
AskLogin(r, k, b) == Arrive(r, "login", "verify", k, None, b) /\ UNCHANGED links

\* Mutant: the link is looked up, and stays in the dictionary.
LookUpLink(r, l, b) ==
  \/ \E e \in links :
       /\ e.link = l
       /\ Arrive(r, "link", "fresh", e.key, l, b)
       /\ UNCHANGED links
  \/ /\ \A e \in links : e.link # l
     /\ Arrive(r, "link", "denied", None, None, None)
     /\ UNCHANGED links

\* GET /ui/login?t=: _login_tokens.pop
FollowLink(r, l, b) ==
  \/ \E e \in links :
       /\ e.link = l
       /\ Arrive(r, "link", "fresh", e.key, l, b)
       /\ links' = links \ {e}
  \/ /\ \A e \in links : e.link # l
     /\ Arrive(r, "link", "denied", None, None, None)
     /\ UNCHANGED links

\* /ui/keys/create and /ui/keys/{id}/revoke with the cookie of the browser
AskCreate(r, b) ==
  /\ cookie[b] # None
  /\ \E what \in {"create_admin", "create_ingest"} :
       Arrive(r, what, "check", cookie[b], None, b)
  /\ UNCHANGED links

AskRevoke(r, k, b) ==
  /\ cookie[b] # None
  /\ Arrive(r, "revoke", "check", cookie[b], k, b)
  /\ UNCHANGED links

\* scripts/create_key.py, in the container
RunScript(r) ==
  /\ Arrive(r, "script", "insert", None, None, None)
  /\ UNCHANGED links

\* GET /ui/logout
LogOut(b) ==
  /\ cookie' = [cookie EXCEPT ![b] = None]
  /\ UNCHANGED <<tables, links, clock, request, history>>
----------------------------------------------------------------------------
(* The handlers.                                                           *)

Then(r) == CASE op[r] = "mint" -> "mint"
             [] op[r] = "create_ingest" -> "device"
             [] op[r] = "create_admin" -> "insert"
             [] op[r] = "revoke" -> "update"

\* Mutant: the handler of revoke does not compare the ids.
CheckRevokesAny(r) ==
  /\ at[r] = "check"
  /\ IF key[r] \in Admins THEN Proceed(r, Then(r)) ELSE Finish(r, "denied")
  /\ UNCHANGED <<tables, cookie, links, clock, history>>

\* require_admin or require_web_admin, and what precedes the first statement:
\* an admin does not revoke the key he is logged in with.
Check(r) ==
  /\ at[r] = "check"
  /\ IF key[r] \in Admins /\ ~(op[r] = "revoke" /\ arg[r] = key[r])
       THEN Proceed(r, Then(r))
       ELSE Finish(r, "denied")
  /\ UNCHANGED <<tables, cookie, links, clock, history>>

\* mint_login_token: expired links go, the new one enters.
Mint(r, l) ==
  /\ at[r] = "mint"
  /\ \A e \in minted : e.link # l
  /\ LET e == [link |-> l, key |-> key[r], exp |-> clock + TTL] IN
       /\ links' = {f \in links : f.exp >= clock} \cup {e}
       /\ minted' = minted \cup {e}
  /\ Finish(r, "ok")
  /\ UNCHANGED <<tables, cookie, clock, granted, late>>

\* consume_login_token: time.time() <= exp, of the entry popped
Fresh(r) ==
  /\ at[r] = "fresh"
  /\ \E e \in minted :
       /\ e.link = arg[r]
       /\ IF clock <= e.exp
            THEN /\ Proceed(r, "verify")
                 /\ granted' = granted \cup
                      {[link |-> e.link, key |-> e.key, exp |-> e.exp,
                        by |-> r, time |-> clock]}
            ELSE Finish(r, "denied") /\ UNCHANGED granted
  /\ UNCHANGED <<tables, cookie, links, clock, minted, late>>

\* Mutant: the key of a link is taken at its word.
VerifyLogin(r) ==
  /\ at[r] = "verify"
  /\ IF key[r] \in Admins \/ op[r] = "link"
       THEN /\ Finish(r, "ok")
            /\ cookie' = [cookie EXCEPT ![from[r]] = key[r]]
       ELSE Finish(r, "denied") /\ UNCHANGED cookie
  /\ UNCHANGED <<tables, links, clock, history>>

\* admin_from_cookie, and the cookie is set
Verify(r) ==
  /\ at[r] = "verify"
  /\ IF key[r] \in Admins
       THEN /\ Finish(r, "ok")
            /\ cookie' = [cookie EXCEPT ![from[r]] = key[r]]
       ELSE Finish(r, "denied") /\ UNCHANGED cookie
  /\ UNCHANGED <<tables, links, clock, history>>

\* INSERT INTO devices ... ON CONFLICT DO NOTHING
InsertDevice(r) ==
  /\ at[r] = "device"
  /\ devices' = devices \cup {Device}
  /\ Proceed(r, "insert")
  /\ UNCHANGED <<scope, revoked, cookie, links, clock, history>>

\* INSERT INTO api_keys, which refers to the device
InsertKey(r, k) ==
  /\ at[r] = "insert"
  /\ scope[k] = "none"
  /\ op[r] = "create_ingest" => Device \in devices
  /\ scope' = [scope EXCEPT ![k] = IF op[r] = "create_ingest" THEN "ingest"
                                                               ELSE "admin"]
  /\ Finish(r, "ok")
  /\ UNCHANGED <<revoked, devices, cookie, links, clock, history>>

\* UPDATE api_keys SET revoked_at, of whatever key the id names
Revoke(r) ==
  /\ at[r] = "update"
  /\ revoked' = IF scope[arg[r]] = "none" THEN revoked ELSE revoked \cup {arg[r]}
  /\ late' = IF key[r] \in revoked THEN late \cup {r} ELSE late
  /\ Finish(r, "ok")
  /\ UNCHANGED <<scope, devices, cookie, links, clock, minted, granted>>

\* A statement raises: the request ends in a 500.
StatementFails(r) ==
  /\ at[r] \in {"check", "verify", "device", "insert", "update"}
  /\ Finish(r, "denied")
  /\ UNCHANGED <<tables, cookie, links, clock, history>>

Tick ==
  /\ clock < MaxTime
  /\ clock' = clock + 1
  /\ UNCHANGED <<tables, cookie, links, request, history>>

\* The process dies: the links and the requests under way with it.
AccessCrash ==
  /\ links' = {}
  /\ at' = [r \in Requests |-> IF at[r] \in Ended THEN at[r] ELSE "denied"]
  /\ op' = [r \in Requests |-> "none"]
  /\ key' = [r \in Requests |-> None]
  /\ arg' = [r \in Requests |-> None]
  /\ from' = [r \in Requests |-> None]
  /\ UNCHANGED <<tables, cookie, clock, stale, history>>

Ask(r) ==
  \/ \E k \in Keys : AskLink(r, k)
  \/ RunScript(r)
  \/ \E b \in Browsers :
       \/ AskCreate(r, b)
       \/ \E k \in Keys : AskLogin(r, k, b) \/ AskRevoke(r, k, b)
       \/ \E l \in Links : FollowLink(r, l, b)

Answer(r) ==
  \/ Check(r) \/ Fresh(r) \/ Verify(r) \/ InsertDevice(r) \/ Revoke(r)
  \/ \E l \in Links : Mint(r, l)
  \/ \E k \in Keys : InsertKey(r, k)
  \/ StatementFails(r)

AccessNext ==
  \/ \E r \in Requests : Ask(r) \/ Answer(r)
  \/ \E b \in Browsers : LogOut(b)
----------------------------------------------------------------------------
\* auth.py 88-91: a link logs in once, within its time, as the key that
\* minted it, however its uses overlap and whatever restarts.
LinkOnce ==
  \A g \in granted :
    /\ g.time <= g.exp
    /\ [link |-> g.link, key |-> g.key, exp |-> g.exp] \in minted
    /\ \A h \in granted : g.link = h.link => g = h

\* A request that arrives when the key it acts by was revoked already changes
\* nothing: no session, link or key comes of it, a link minted before included.
RevokedActsNoMore == \A r \in Requests : at[r] = "ok" => ~stale[r]

\* web.py 389: the admins do not lock themselves out, unless a revocation
\* overtook another one, whose key it revoked between its check and its UPDATE.
AdminStays == Admins # {} \/ late # {}
=============================================================================
