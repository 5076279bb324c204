---------------------------- MODULE MCRunHandle -----------------------------
(* Two crawls of one map, and requests of which each is refused elsewhere.  *)
EXTENDS RunHandle, TLC

CONSTANTS p, none

Asked(m, methods, v) == [map |-> m, valid |-> TRUE, methods |-> methods, vault |-> v]

SomeRequests ==
    {Asked(p, {"ssh"}, "ssh"), Asked(p, {"ssh", "snmp"}, "ssh"), Asked(p, {"ssh"}, "locked"),
     Asked(p, {"snmp"}, "none"), Asked(none, {"ssh"}, "full")}
SomeFaults == {"none", "events", "log", "bindings", "notifier"}
=============================================================================
