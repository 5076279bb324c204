------------------------------- MODULE MCDial -------------------------------
(***************************************************************************)
(* A modern device that takes nothing but keys, known by name and by       *)
(* address, an old one that only asks for passwords, and one between the   *)
(* two that asks for a key and then puts questions, behind a bastion.      *)
(* The ladder has a key that does not load and an agent's above the keys.  *)
(***************************************************************************)
EXTENDS Dial, TLC

CONSTANTS name, addr, oldName, midName, modern, old, mid, gate, k1, k2,
          missing, sso, deploy, admin

Answering == (name :> modern) @@ (addr :> modern) @@ (oldName :> old) @@ (midName :> mid)
SomeDeviceAt == [h \in Hosts |-> Answering[h]]
SomeFirstKey == [h \in AllHosts |-> k1]
SomeMethod == (missing :> "key") @@ (sso :> "agent") @@ (deploy :> "key") @@ (admin :> "password")
SomeHolds == (missing :> {"key"}) @@ (sso :> {"agent"}) @@ (deploy :> {"key", "password"})
             @@ (admin :> {"password"})
Offering == (modern :> {"publickey"}) @@ (old :> {"password", "interactive"})
            @@ (mid :> {"publickey", "interactive"})
Taking == (modern :> {sso, deploy}) @@ (old :> {admin}) @@ (mid :> {deploy, admin})
SomeOffers == [d \in Devices |-> Offering[d]]
SomeTakes == [d \in Devices |-> Taking[d]]
SomeLadder == <<missing, sso, deploy, admin>>

\* Bound: two walks at once, down to the second rung, or one all the way down.
OneOrShort ==
    \/ \E w \in Walks : walk[w].at = "idle"
    \/ \A w \in Walks : walk[w].rung < 3

\* Walks do the same, and only invariants are checked.
AnyWalk == Permutations(Walks)
=============================================================================
