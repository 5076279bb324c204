----------------------------- MODULE MCBindings -----------------------------
(***************************************************************************)
(* Two devices with one first label: spine.usa at 10.1 and spine.eng at    *)
(* 10.2.  Both have a bare prompt, spine; the first is also called oob on  *)
(* its console server.  One of them sits behind a carrier address.         *)
(***************************************************************************)
EXTENDS Bindings

CONSTANTS addr1, addr2, cgnat, usaName, engName, spine, oob, \* strings
          usa, eng, cred1, s1, s2, s3, s4

SomeStrings == {addr1, addr2, cgnat, usaName, engName, spine, oob}
SomeShapes ==
    [n \in SomeStrings |->
        IF n \in {addr1, addr2, cgnat} THEN "addr"
        ELSE IF n \in {usaName, engName} THEN "qualified" ELSE "bare"]
FirstLabels == [n \in SomeStrings |-> IF n \in {usaName, engName} THEN spine ELSE n]
\* 10.1 < 10.2 < 100.64.0.9 < oob < spine < spine.eng < spine.usa
Alphabet ==
    [n \in SomeStrings |->
        CASE n = addr1 -> 1 [] n = addr2 -> 2 [] n = cgnat -> 3 [] n = oob -> 4
          [] n = spine -> 5 [] n = engName -> 6 [] n = usaName -> 7]
SomeOwners == [n \in SomeStrings |-> IF n \in {addr2, engName} THEN eng ELSE usa]

\* Seeds by name and by address, neighbors by both, and a bare prompt.
SomeTargets ==
    {<<usaName>>, <<addr1, oob>>, <<spine, oob>>, <<engName, cgnat>>, <<spine, addr2>>, <<cgnat>>}
\* Canonical, hostname, system name, address.
SomeFolds ==
    {<<usaName, addr1, usaName, addr1>>, <<spine, spine, oob>>, <<spine, addr2, spine, addr2>>}

\* No file yet, or one of the first format: a record per string, pins of
\* unknown age.
OldRecord(n) ==
    [aliases |-> {n}, canonical |-> n, pin |-> [cred |-> cred1, box |-> Unsure], ok |-> 0]
SomeFiles == {{}, {OldRecord(addr1), OldRecord(spine), OldRecord(cgnat)}}
=============================================================================
