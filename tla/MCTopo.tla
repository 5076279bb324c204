------------------------------- MODULE MCTopo -------------------------------
(***************************************************************************)
(* Two sites whose leaves have one first label, a core in front of both    *)
(* and a device that never answers.  A leaf may name the other the way a   *)
(* device names its own site.                                              *)
(***************************************************************************)
EXTENDS Topo, TLC

SomeLabels == {"core", "dc", "leaf", "usa", "eng", "down", "lab", "et1", "et2", "et3", "et9", "detail",
               "10.1", "10.2", "10.3"}
SomeAddrs == {"10.1", "10.2", "10.3"}
SomePorts == { <<"et1">>, <<"et2">>, <<"et3">>, <<"leaf", "eng">>, <<"core", "dc">> }

InOrder == << "10.1", "10.2", "10.3", "core", "dc", "down", "eng", "lab", "leaf", "usa" >>
Rank(l) == CHOOSE i \in DOMAIN InOrder : InOrder[i] = l
Before(a, b) ==
    \E i \in 1..(Len(a) + 1) :
        /\ \A j \in 1..(i - 1) : j <= Len(b) /\ a[j] = b[j]
        /\ \/ i > Len(a) /\ Len(b) >= i
           \/ i <= Len(a) /\ i <= Len(b) /\ Rank(a[i]) < Rank(b[i])

SomeBoxOf ==
    [n \in { <<"core", "dc">>, <<"core", "dc", "lab">>, <<"core">>, <<"10.1">> } |-> "C"]
    @@ [n \in { <<"leaf", "usa">>, <<"leaf", "usa", "lab">>, <<"10.2">> } |-> "U"]
    @@ [n \in { <<"leaf", "eng">>, <<"leaf", "eng", "lab">>, <<"10.3">> } |-> "E"]
    @@ [n \in { <<"down">>, <<"down", "lab">> } |-> "D"]

Wires == { << <<"C", "et1">>, <<"U", "et1">> >>, << <<"C", "et2">>, <<"E", "et1">> >>,
           << <<"C", "et3">>, <<"D", "et1">> >>, << <<"U", "et2">>, <<"E", "et2">> >> }
SomeCables ==
    UNION {{ << <<w[1][1], <<w[1][2]>> >>, <<w[2][1], <<w[2][2]>> >> >>,
             << <<w[2][1], <<w[2][2]>> >>, <<w[1][1], <<w[1][2]>> >> >> } : w \in Wires}

SomeDomains == <<"lab">>
NoPTR == <<>>
SomeDebris == { <<"detail">> }

Claim(n, l, r) == [peer |-> n, lif |-> <<l>>, rif |-> <<r>>]
Described(n, l, r) == [peer |-> n, lif |-> <<l>>, rif |-> r]
Report(h, s, a, cs) == [host |-> h, sys |-> s, ip |-> a, failed |-> FALSE, claims |-> cs]
Down(h) == [host |-> h, sys |-> <<>>, ip |-> <<>>, failed |-> TRUE, claims |-> {}]

ToDown == Claim(<<"down">>, "et3", "et1")

SomeReports == {
    Report(<<"10.1">>, <<"core", "dc">>, <<"10.1">>,
        { Claim(<<"10.2">>, "et1", "et1"), Described(<<"leaf", "usa">>, "et1", <<"core", "dc">>),
          Claim(<<"10.3">>, "et2", "et1"), ToDown,
          Claim(<<"detail">>, "et9", "et9") }),
    Report(<<"core", "dc">>, <<>>, <<"10.1">>,
        { Claim(<<"leaf", "usa", "lab">>, "et1", "et1"), Claim(<<"leaf", "eng", "lab">>, "et2", "et1"),
          Described(<<"down">>, "et3", <<"core", "dc">>) }),
    Report(<<"leaf", "usa", "lab">>, <<"leaf", "usa">>, <<"10.2">>,
        { Claim(<<"core", "dc">>, "et1", "et1"), Claim(<<"leaf", "eng">>, "et2", "et2") }),
    Report(<<"10.2">>, <<>>, <<"10.2">>, { Claim(<<"10.1">>, "et1", "et1"), Claim(<<"10.3">>, "et2", "et2") }),
    Report(<<"leaf", "eng", "lab">>, <<"leaf", "eng">>, <<"10.3">>,
        { Claim(<<"core", "dc", "lab">>, "et1", "et2"), Claim(<<"leaf", "usa">>, "et2", "et2"),
          Described(<<"leaf">>, "et2", <<"leaf", "eng">>) }),
    Down(<<"leaf", "eng">>), Down(<<"down">>) }
=============================================================================
