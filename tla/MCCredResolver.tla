--------------------------- MODULE MCCredResolver ---------------------------
(***************************************************************************)
(* Two devices, each under two identities, over a vault of three           *)
(* credentials: key opens spine and is never refused; stale is refused by  *)
(* whatever answers; broken is a key that may not load.  leaf's address is *)
(* dialed through a bastion.                                               *)
(***************************************************************************)
EXTENDS CredResolver

CONSTANTS key, stale, broken,       \* credentials
          spine, spineAddr, leaf, leafAddr, \* identities
          boxSpine, boxLeaf,        \* binding records
          w1, w2                    \* goroutines

SomeCreds == {key, stale, broken}
SomeIdents == {spine, spineAddr, leaf, leafAddr}
AtLeaf == {leaf, leafAddr}
SomeRecords == {boxSpine, boxLeaf}
TwoNamesOfOneBox ==
    [d \in SomeIdents |-> IF d \in AtLeaf THEN boxLeaf ELSE boxSpine]
SomeScopes == [d \in SomeIdents |-> IF d = leaf THEN SomeCreds ELSE {key, stale}]
StaleFirst == [c \in SomeCreds |-> IF c = stale THEN 0 ELSE IF c = broken THEN 1 ELSE 2]
StalePinned == {[r \in SomeRecords |-> IF r = boxSpine THEN stale ELSE NoCred]}
BehindBastion == [d \in SomeIdents |-> IF d = leafAddr THEN {key, stale} ELSE {}]
LeafNamesKey == [d \in SomeIdents |-> IF d = leaf THEN key ELSE NoCred]

SomeAnswers ==
    [d \in SomeIdents |-> [c \in SomeCreds |->
        IF c = stale THEN {"AuthRejected", "NoAnswer", "Success"}
        ELSE IF c = broken THEN {"KeyMaterial", "AuthRejected"}
        ELSE IF d \in AtLeaf THEN {"NoAnswer", "Unreachable"} ELSE {"Success"}]]
=============================================================================
