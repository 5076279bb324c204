----------------------------- MODULE MCRunView ------------------------------
(* Small runs for RunView: two devices and one of each kind of event that   *)
(* is folded differently.                                                   *)
EXTENDS RunView, TLC

CONSTANTS a, b, none, w1, main

Ev(kind, id) == [kind |-> kind, id |-> id, depth |-> 0, via |-> none, detail |-> ""]

SomeText == {"", "why", "cmd", "unfinished", "ranked"}
SomeEvents ==
    {Ev("queued", a), [Ev("phase", a) EXCEPT !.detail = "cmd"], Ev("reached", a),
     Ev("auth-reject", a), [Ev("failed", b) EXCEPT !.detail = "why"], Ev("cred-parked", none),
     [Ev("not-dialed", b) EXCEPT !.detail = "why", !.depth = 1, !.via = a],
     [Ev("resolved", b) EXCEPT !.detail = "cmd"], Ev("depth", none)}
=============================================================================
