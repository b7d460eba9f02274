----------------------------- MODULE MCGateway -----------------------------
(* A small instance of Gateway: two admins, a third key, a link, three      *)
(* requests, and an upgrade whose second image has an older file as well.   *)
EXTENDS Gateway, TLC

CONSTANTS k1, k2, k3, l1, b1, b2, r1, r2, r3

MCInstalled == <<1>>
MCReleases == <<{1, 3}, {1, 2, 3, 4}>>
MCSessions == {(b1 :> k1) @@ (b2 :> k2)}
MCOps == (r1 :> {"mint", "revoke"}) @@ (r2 :> {"link", "revoke"})
           @@ (r3 :> {"link", "login", "create_ingest", "script"})
=============================================================================
