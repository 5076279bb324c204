-------------------------------- MODULE Topo --------------------------------
(***************************************************************************)
(* The topology map (internal/topo): Generate turns the devices of a crawl *)
(* into a map, Merge folds a map into another.  Crawls, their maps and the *)
(* fold are steps here; what a crawl finds is an input.                    *)
(*                                                                         *)
(* Names are those of Identity.  An interface name is written like a name, *)
(* because a description may be the name of a device; it is normalized,    *)
(* and two spellings of one port are one here.  A map keeps, per node, its *)
(* address and per peer the set of connections; platforms, the addresses   *)
(* of peers and the report of a merge decide nothing and are left out.     *)
(*                                                                         *)
(* BoxOf and Cables are what the maps are about, and are not in the code:  *)
(* which device a name is of, where it is of one only, and what is wired.  *)
(* What a map can be true to is what devices report; the assumptions after *)
(* Generate say what that is.                                              *)
(***************************************************************************)
EXTENDS Identity, FiniteSets, FiniteSetsExt, Functions

CONSTANTS
    Debris,              \* neighbor names that are parsing artifacts
    Ports,               \* strings that read as a port name (interfaceLike)
    TrustUnidirectional,
    MatchShortName, MatchIP,
    Precedes(_, _),      \* the alphabet, on map keys
    Reports,             \* what a crawl may find of one device
    MaxDevices, MaxMaps, \* bounds on the devices of a crawl, and on crawls
    BoxOf, Cables

ASSUME TopoAssumption ==
    /\ TrustUnidirectional \in BOOLEAN /\ MatchShortName \in BOOLEAN /\ MatchIP \in BOOLEAN
    /\ MaxDevices \in Nat /\ MaxMaps \in Nat
    /\ DOMAIN BoxOf \subseteq Names

VARIABLES devices,  \* the crawl under way: a sequence of reports
          maps,     \* the maps written, oldest first
          merged,   \* those folded so far into one
          folded    \* how many those are

topoVars == <<devices, maps, merged, folded>>

-----------------------------------------------------------------------------
(* Generate *)

Short(n) == <<ShortName(n)>>
Ids(d) == {d.host, d.sys, d.ip} \ {<<>>}

\* Device.Canonical
Canonical(d) == IF d.sys # <<>> THEN d.sys ELSE IF d.host # <<>> THEN d.host ELSE d.ip
Key(d) == StripSuffixes(Canonical(d))
GoesBy(d) == {StripSuffixes(id) : id \in Ids(d)}

\* A device by any of its names; of two with one name, the later.
Info(ds, n) ==
    LET found == {i \in DOMAIN ds : n \in GoesBy(ds[i])}
    IN  IF found = {} THEN {} ELSE {ds[Max(found)]}

Forms(ds) ==
    UNION {{StripSuffixes(id), Short(id)} : id \in UNION {Ids(d) : d \in ds}}
Known(ds) == Forms(Range(ds))

\* Mutant: a device that failed counts as discovered.
Discovered_WithFailed(ds) == Forms(Range(ds))

Discovered(ds) == Forms({d \in Range(ds) : ~d.failed})

\* Mutant: a first label is enough to tell who is meant.
CanonOf_ByLabel(ds, n) ==
    LET alike == {d \in Range(ds) : \E id \in Ids(d) : Short(id) = Short(n)}
    IN  IF alike = {} THEN StripSuffixes(n)
        ELSE Key(CHOOSE d \in alike : TRUE)

\* The key of whoever a name is of.
CanonOf(ds, n) ==
    LET found == IF Info(ds, StripSuffixes(n)) # {} THEN Info(ds, StripSuffixes(n))
                 ELSE Info(ds, Short(n))
    IN  IF found = {} THEN StripSuffixes(n)
        ELSE Key(CHOOSE d \in found : TRUE)

WasDiscovered(ds, n) ==
    StripSuffixes(n) \in Discovered(ds) \/ Short(n) \in Discovered(ds)

NamesADevice(ds, s) == StripSuffixes(s) \in Known(ds) \/ Short(s) \in Known(ds)

\* Every usable claim of every device, failed ones included.
UsableOf(d) == {c \in d.claims : c.peer \notin Debris /\ c.lif # <<>> /\ c.rif # <<>>}
ClaimsOf(ds, d) ==
    {[dev |-> Key(d), lif |-> c.lif, peer |-> CanonOf(ds, c.peer), rif |-> c.rif] :
        c \in UsableOf(d)}
AllClaims(ds) == UNION {ClaimsOf(ds, d) : d \in {e \in Range(ds) : Ids(e) # {}}}

\* The peer claims the same cable, under the key or another name of the device.
HasReverse(ds, c) ==
    LET alternates == UNION {GoesBy(d) : d \in Info(ds, StripSuffixes(c.dev))}
    IN  \E r \in AllClaims(ds) :
            /\ r.dev = c.peer /\ r.lif = c.rif /\ r.rif = c.lif
            /\ r.peer = c.dev \/ StripSuffixes(r.peer) \in alternates

Accepted(ds, c) ==
    TrustUnidirectional \/ ~WasDiscovered(ds, c.peer) \/ HasReverse(ds, c)

\* dropDescriptionClaims: the peer stays, without the connection.
IsLabel(ds, rif) == rif \in Ports /\ ~NamesADevice(ds, rif)

NodeOf(ds, d) ==
    LET accepted == {c \in AllClaims(ds) : c.dev = Key(d) /\ Accepted(ds, c)}
    IN  [ip |-> d.ip,
         peers |-> [p \in {c.peer : c \in accepted} |->
                       {<<c.lif, c.rif>> : c \in {e \in accepted : e.peer = p /\ IsLabel(ds, e.rif)}}]]

Reached(ds) == {i \in DOMAIN ds : ~ds[i].failed /\ Ids(ds[i]) # {}}

Generate(ds) ==
    [n \in {Key(ds[i]) : i \in Reached(ds)} |->
        NodeOf(ds, ds[Max({i \in Reached(ds) : Key(ds[i]) = n})])]

-----------------------------------------------------------------------------
(* What devices report *)

Said == UNION {Ids(d) \cup {c.peer : c \in UsableOf(d)} : d \in Reports}
Answering == {d \in Reports : ~d.failed}
Box(d) == BoxOf[Canonical(d)]

\* The crawler asks for every device by some name.
ASSUME ReportsAssumption ==
    \A d \in Reports :
        /\ d \in [host : Seq(Labels), sys : Seq(Labels), ip : Seq(Labels), failed : BOOLEAN,
                  claims : SUBSET [peer : Names, lif : Seq(Labels), rif : Seq(Labels)]]
        /\ Ids(d) # {}

\* Names: all of a report's are of one device, a suffix tells no devices apart
\* and no name ends in two, and a bare name that a device goes by is of no other
\* device whose name begins with it.
ASSUME NamesAssumption ==
    /\ \A d \in Reports : \A n \in Ids(d) : n \in DOMAIN BoxOf /\ BoxOf[n] = Box(d)
    /\ \A n \in Said :
        /\ StripSuffixes(StripSuffixes(n)) = StripSuffixes(n)
        /\ n \in DOMAIN BoxOf <=> StripSuffixes(n) \in DOMAIN BoxOf
        /\ n \in DOMAIN BoxOf => BoxOf[n] = BoxOf[StripSuffixes(n)]
        /\ \A d \in Reports : Short(n) \in GoesBy(d) => n \in DOMAIN BoxOf /\ BoxOf[n] = Box(d)

IsCable(n, p, c) ==
    n \in DOMAIN BoxOf /\ p \in DOMAIN BoxOf
        => << <<BoxOf[n], c[1]>>, <<BoxOf[p], c[2]>> >> \in Cables

\* Claims: a device lists what is wired to it; what reads as the far port and is
\* not is that port's description, which names the device itself.
ASSUME ClaimsAssumption ==
    \A d \in Reports : \A c \in UsableOf(d) :
        c.rif \in Ports /\ {StripSuffixes(c.rif), Short(c.rif)} \cap Forms({d}) = {}
            => IsCable(Canonical(d), c.peer, <<c.lif, c.rif>>)

\* What merging goes by: two crawls know a device by one name or, where
\* addresses count, by one address; and where first labels count, a node shares
\* its own with no other device.
ASSUME MergeAssumption ==
    \A d \in Answering :
        /\ \A e \in Answering :
            Box(d) = Box(e) => Key(d) = Key(e) \/ (MatchIP /\ d.ip = e.ip /\ d.ip # <<>>)
        /\ \A n \in Said :
            MatchShortName /\ Short(n) = Short(Key(d)) => n \in DOMAIN BoxOf /\ BoxOf[n] = Box(d)

-----------------------------------------------------------------------------
(* Merge *)

First(S) == CHOOSE k \in S : \A j \in S \ {k} : Precedes(k, j)

\* The base nodes a name may be of, under the first rule that finds any.  Only
\* the first rule never leaves a choice.
Candidates(base, n, ip) ==
    LET same == {k \in DOMAIN base : StripSuffixes(k) = StripSuffixes(n)}
        there == {k \in DOMAIN base : MatchIP /\ ip # <<>> /\ base[k].ip = ip}
        alike == {k \in DOMAIN base : MatchShortName /\ Short(k) = Short(n)}
    IN  IF same # {} THEN {First(same)} ELSE IF there # {} THEN there ELSE alike

\* mergeIndex.lookup: the node a name is of; none, or more than one, leaves it.
Lookup(base, n, ip) ==
    LET found == Candidates(base, n, ip)
    IN  IF Cardinality(found) = 1 THEN found ELSE {}

\* The key a node of the incoming map gets.  Its own name is free where it is
\* kept: were it a key of the base, the first rule would have found it.
Resolved(base, incoming, k) ==
    LET found == Lookup(base, k, incoming[k].ip)
    IN  IF found = {} THEN k ELSE CHOOSE t \in found : TRUE

\* Mutant: peers go by the names their own map has for them.
PeerKey_Unresolved(base, incoming, n) == n

\* resolveName
PeerKey(base, incoming, n) ==
    IF n \in DOMAIN incoming THEN Resolved(base, incoming, n)
    ELSE LET found == Lookup(base, n, <<>>) IN IF found = {} THEN n ELSE CHOOSE t \in found : TRUE

\* mergeConnections: those of either map.
Connections(base, incoming, n, p) ==
    (IF n \in DOMAIN base /\ p \in DOMAIN base[n].peers THEN base[n].peers[p] ELSE {})
    \cup UNION {UNION {incoming[k].peers[q] : q \in {r \in DOMAIN incoming[k].peers :
                          PeerKey(base, incoming, r) = p}} :
                   k \in {j \in DOMAIN incoming : Resolved(base, incoming, j) = n}}

\* A node and the nodes of the incoming map that are it: its address is the
\* base's, or fills the gap; it is never made its own peer.
MergedNode(base, incoming, n) ==
    LET from == {k \in DOMAIN incoming : Resolved(base, incoming, k) = n}
        old == IF n \in DOMAIN base THEN base[n] ELSE [ip |-> <<>>, peers |-> <<>>]
        gained == {PeerKey(base, incoming, q) : q \in UNION {DOMAIN incoming[k].peers : k \in from}}
        ips == {k \in from : incoming[k].ip # <<>>}
    IN  [ip |-> IF old.ip # <<>> \/ ips = {} THEN old.ip ELSE incoming[First(ips)].ip,
         peers |-> [p \in DOMAIN old.peers \cup (gained \ {n}) |->
                       IF p = n THEN old.peers[p] ELSE Connections(base, incoming, n, p)]]

Merge(base, incoming) ==
    [n \in DOMAIN base \cup {Resolved(base, incoming, k) : k \in DOMAIN incoming} |->
        MergedNode(base, incoming, n)]

-----------------------------------------------------------------------------
NoMap == [n \in {} |-> n]

TopoInit == devices = <<>> /\ maps = <<>> /\ merged = NoMap /\ folded = 0

\* A device is crawled: reached under one of its names, or not.  One that is
\* met twice in one crawl gives its name both times.
Crawled(d) ==
    /\ Len(maps) < MaxMaps /\ Len(devices) < MaxDevices
    /\ \A i \in DOMAIN devices :
          GoesBy(devices[i]) \cap GoesBy(d) # {} => Key(devices[i]) = Key(d)
    /\ devices' = Append(devices, d)
    /\ UNCHANGED <<maps, merged, folded>>

\* The crawl ends, and its map is written.
EndCrawl ==
    /\ Len(maps) < MaxMaps /\ devices # <<>>
    /\ maps' = Append(maps, Generate(devices))
    /\ devices' = <<>>
    /\ UNCHANGED <<merged, folded>>

\* MergeAll, one map: the first is the base.
FoldMap ==
    /\ folded < Len(maps)
    /\ merged' = IF folded = 0 THEN maps[1] ELSE Merge(merged, maps[folded + 1])
    /\ folded' = folded + 1
    /\ UNCHANGED <<devices, maps>>

TopoNext == (\E d \in Reports : Crawled(d)) \/ EndCrawl \/ FoldMap

TopoSpec == TopoInit /\ [][TopoNext]_topoVars

-----------------------------------------------------------------------------
(* Properties *)

Links(map) ==
    UNION {UNION {{<<n, p, c>> : c \in map[n].peers[p]} : p \in DOMAIN map[n].peers} :
              n \in DOMAIN map}

\* Every connection drawn is a cable between the two devices it is drawn
\* between, in every map and in their merge: claims under bare, qualified and
\* numeric names are never taken for those of a namesake, and no description of
\* a port passes for the port.
DrawnIsCabled ==
    /\ LET map == Generate(devices) IN \A l \in Links(map) : IsCable(l[1], l[2], l[3])
    /\ \A l \in Links(merged) : IsCable(l[1], l[2], l[3])

\* Unless one side is taken at its word, a connection between two devices that
\* answered is drawn at both ends, where both read as ports, or not at all.
DrawnAtBothEnds ==
    LET map == Generate(devices)
    IN  \A l \in Links(map) :
            ~TrustUnidirectional /\ l[2] \in DOMAIN map /\ IsLabel(devices, l[3][1])
                => <<l[2], l[1], <<l[3][2], l[3][1]>>>> \in Links(map)

\* A connection that two answering devices claim of each other, under any name
\* the other goes by, is drawn, whichever names those are and whatever a device
\* that did not answer is called.
Mutual(c, r) == c.lif = r.rif /\ c.rif = r.lif
AgreedIsDrawn ==
    LET map == Generate(devices)
    IN  \A d, e \in {x \in Range(devices) : ~x.failed} :
            \A c \in UsableOf(d), r \in UsableOf(e) :
                /\ Mutual(c, r) /\ IsLabel(devices, c.rif)
                /\ StripSuffixes(c.peer) \in GoesBy(e) /\ StripSuffixes(r.peer) \in GoesBy(d)
                => <<Key(d), Key(e), <<c.lif, c.rif>>>> \in Links(map)

\* A map draws what is cabled, at both ends, and everything two devices agree
\* on.
LinksAreTrue == DrawnIsCabled /\ DrawnAtBothEnds /\ AgreedIsDrawn

\* A device that could not be reached is a peer of every device that reported
\* it by a name it goes by.
Shown(d) ==
    LET map == Generate(devices)
    IN  \A e \in {x \in Range(devices) : ~x.failed} : \A c \in UsableOf(e) :
            StripSuffixes(c.peer) \in GoesBy(d) => Key(d) \in DOMAIN map[Key(e)].peers

\* What should hold of every device that failed, and does where no device
\* that answered shares its first label.
FailedIsShownUnlessNamesake ==
    \A d \in Range(devices) :
        d.failed
        /\ (\A e \in Range(devices) :
              e.failed \/ {Short(id) : id \in Ids(d)} \cap {Short(id) : id \in Ids(e)} = {})
        => Shown(d)

\* What a map drew between two devices, the merge still draws between them,
\* under whatever keys the fold gave them; and where both were nodes, both ends
\* are nodes still, not names that nothing is known of.  A peer that is a node
\* of another map alone may stay such a name: Merge looks up none of the base's
\* peers, and those of the incoming map by name only.
SameBox(n, m) == n = m \/ (n \in DOMAIN BoxOf /\ m \in DOMAIN BoxOf /\ BoxOf[n] = BoxOf[m])
MergeLosesNothing ==
    \A i \in 1..folded : \A l \in Links(maps[i]) :
        ~SameBox(l[1], l[2]) =>
            \E m \in Links(merged) :
                /\ m[3] = l[3] /\ SameBox(m[1], l[1]) /\ SameBox(m[2], l[2])
                /\ l[2] \in DOMAIN maps[i] => m[2] \in DOMAIN merged

\* A device that is a node of any map is one node of the merge.
OneNodePerBox ==
    \A n, m \in DOMAIN merged : SameBox(n, m) => n = m

\* Merging maps neither loses a connection nor splits a device in two.
MergeIsLossless == MergeLosesNothing /\ OneNodePerBox
=============================================================================
