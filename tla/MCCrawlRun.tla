---------------------------- MODULE MCCrawlRun -----------------------------
(***************************************************************************)
(* Two sites whose devices have the same roles, under an allow list and an *)
(* exclude pattern.  A box is a physical device: what it calls itself, its *)
(* address and its neighbor table; MixedWhere says which strings reach     *)
(* which box.  Seeds are a bare name, an address, a shared address that    *)
(* has a name, and the first seed again, qualified.  leaf.eng answers at   *)
(* its address only, rtr lies outside the allowed domains, and phone is    *)
(* described as one by only one of its reporters.  leaf.eng lists two      *)
(* access points, that of its own site by its bare name: the other's is    *)
(* refused beside it and never listed again.                               *)
(***************************************************************************)
EXTENDS CrawlRun, TLC

Name(n) == [kind |-> "name", name |-> n, addr |-> <<>>, excl |-> FALSE]
NameAt(n, a) == [kind |-> "name", name |-> n, addr |-> a, excl |-> FALSE]
Alias(a) == [kind |-> "alias", name |-> <<"mac">>, addr |-> a, excl |-> FALSE]
Debris == [kind |-> "artifact", name |-> <<"detail">>, addr |-> <<>>, excl |-> FALSE]
Excl(c) == [c EXCEPT !.excl = TRUE]

Answer(sys, ip, nbrs) ==
    [end |-> "ok", sys |-> sys, ip |-> ip, excl |-> FALSE, nbrs |-> nbrs]
NoAnswer == [end |-> "net", sys |-> <<>>, ip |-> <<>>, excl |-> FALSE, nbrs |-> <<>>]
Rejected == [NoAnswer EXCEPT !.end = "auth"]
BrokenOff(r) == [r EXCEPT !.end = "late", !.nbrs = <<>>]
Truncated(r) == [r EXCEPT !.end = "late"]
Restricted(r) == [r EXCEPT !.nbrs = <<>>]

\* The box a string reaches, as a function from strings to answers.
Reached(where, n) == IF n \in DOMAIN where THEN {where[n]} ELSE {NoAnswer}

SomeLabels == {"spine", "leaf", "srv", "ap", "phone", "rtr", "mac", "detail",
               "usa", "eng", "lab", "corp", "ix",
               "10.1", "10.2", "10.3", "10.4", "100.64.1"}
SomeAddrs == {"10.1", "10.2", "10.3", "10.4", "100.64.1"}

-----------------------------------------------------------------------------
SomeMethods == <<"ssh", "snmp">>
SomeTimed == {"snmp"}
SomeDomains == << "lab" >>

MixedSeeds == << <<"spine">>, <<"10.2">>, <<"spine", "lab">>, <<"100.64.1">> >>
MixedPTR == [n \in {<<"100.64.1">>} |-> <<"srv", "usa">>]
MixedResolvable ==
    { <<"spine", "lab">>, <<"leaf", "lab">>, <<"leaf", "usa", "lab">>, <<"srv", "usa">>,
      <<"ap", "lab">> }
MixedAllow == {"usa", "eng", "lab"}

MixedSpineUsa == Answer(<<"spine", "usa">>, <<"10.1">>,
    << Debris, NameAt(<<"leaf", "usa">>, <<"10.2">>), NameAt(<<"spine", "eng">>, <<"10.3">>),
       Excl(Name(<<"phone", "usa">>)), Name(<<"rtr", "corp">>) >>)
MixedLeafUsa == Answer(<<"leaf", "usa">>, <<"10.2">>,
    << Name(<<"spine", "usa", "lab">>), Alias(<<"10.3">>), Alias(<<>>), Name(<<"phone", "usa">>) >>)
MixedSpineEng == Answer(<<"spine", "eng", "ix">>, <<"10.3">>,
    << Name(<<"leaf", "usa">>), Name(<<"spine">>), NameAt(<<"leaf", "eng">>, <<"10.4">>) >>)
MixedLeafEng == Answer(<<"leaf", "eng", "ix">>, <<"10.4">>,
    << Name(<<"spine", "eng", "lab">>), Name(<<"leaf">>), Name(<<"spine", "usa">>),
       Name(<<"leaf", "usa">>), Name(<<"ap">>), Name(<<"ap", "usa">>) >>)
MixedSrv == Answer(<<"srv", "usa">>, <<"100.64.1">>, << Name(<<"leaf", "usa">>) >>)
MixedApEng == Answer(<<"ap", "eng">>, <<>>, << Name(<<"srv", "usa">>) >>)

MixedWhere ==
    [n \in {<<"spine", "lab">>, <<"spine", "usa">>, <<"spine", "usa", "lab">>, <<"10.1">>} |->
        MixedSpineUsa]
    @@ [n \in {<<"leaf", "usa">>, <<"leaf", "usa", "lab">>, <<"10.2">>} |-> MixedLeafUsa]
    @@ [n \in {<<"spine", "eng">>, <<"10.3">>} |-> MixedSpineEng]
    @@ [n \in {<<"10.4">>} |-> MixedLeafEng] @@ [n \in {<<"srv", "usa">>} |-> MixedSrv]
    @@ [n \in {<<"ap", "lab">>} |-> MixedApEng]

MixedReplies(m, n) ==
    LET reached == Reached(MixedWhere, n)
    IN  IF m = "ssh" THEN reached \cup {Truncated(r) : r \in reached \cap {MixedSpineUsa}}
                                  \cup {BrokenOff(r) : r \in reached \cap {MixedLeafEng}}
                                  \cup (IF n = <<"10.2">> THEN {Rejected} ELSE {})
        ELSE {Restricted(r) : r \in reached} \cup {Rejected}

MixedReports ==
    LET boxes == {MixedSpineUsa, MixedLeafUsa, MixedSpineEng, MixedLeafEng, MixedSrv, MixedApEng}
    IN  boxes \cup {Restricted(r) : r \in boxes}
        \cup {Truncated(MixedSpineUsa), BrokenOff(MixedLeafEng), NoAnswer, Rejected}

=============================================================================
