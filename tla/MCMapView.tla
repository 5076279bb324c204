----------------------------- MODULE MCMapView -----------------------------
(***************************************************************************)
(* One map crawled twice, one written in place by the command line.  What  *)
(* is a neighbor in one crawl of a map is a device in the next.            *)
(***************************************************************************)
EXTENDS MapView, TLC

CONSTANTS lab, site, old, again, cli, leaf, core

SomePaths == (old :> lab) @@ (again :> lab) @@ (cli :> site)
SomeDevices == (old :> {core}) @@ (again :> {core, leaf}) @@ (cli :> {core})
SomeLeaves == (old :> {leaf}) @@ (again :> {core}) @@ (cli :> {})
=============================================================================
