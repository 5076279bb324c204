----------------------------- MODULE MCSession -----------------------------
(***************************************************************************)
(* A device of the last family probed, behind a gate of two keys; its table *)
(* is longer than the session allows, and it pages until it is told not to.*)
(***************************************************************************)
EXTENDS Session, TLC

CONSTANTS term, clip, pager, version, lldp, detail, cdp, stdout, stderr

SomeBanner == <<"more", "more">>
SomeReply == term :> <<"error">> @@ clip :> <<>> @@ pager :> <<"error">> @@ version :> <<"os", "exos">>
             @@ lldp :> <<"a", "b", "c", "d">> @@ cdp :> <<"e", "f", "g">> @@ detail :> <<"h">>
SomeProbes == << [paging |-> term, version |-> version, names |-> {"eos"}],
                 [paging |-> NoCommand, version |-> version, names |-> {"asa"}],
                 [paging |-> pager, version |-> version, names |-> {"exos"}],
                 [paging |-> clip, version |-> version, names |-> {"exos"}] >>
SomeSteps == "exos" :> << [cmd |-> lldp, best |-> TRUE], [cmd |-> detail, best |-> TRUE],
                       [cmd |-> cdp, best |-> FALSE] >>
SomeBound == [c \in {term, clip, pager, version, lldp, detail} |-> 0] @@ cdp :> -1
=============================================================================
