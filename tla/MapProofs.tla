------------------------------ MODULE MapProofs ------------------------------
(***************************************************************************)
(* Theorems about maps.                                                    *)
(*                                                                         *)
(* MapView: a layout stays with its map, and a page opens what it shows,   *)
(* for any number of crawls, viewers, threads and pages; a map that one    *)
(* crawl at a time wrote is whole; and a viewer that loads from one thread *)
(* shows, serves and saves one map.  The first two rest on one chain:      *)
(* whatever a file of a map's name holds was written by a crawl of that    *)
(* map (FilesApart), so a load pairs a map with its own layout file        *)
(* (Loads, Served), and a page whose generation is its server's shows the  *)
(* server's map (PagesShow).                                               *)
(*                                                                         *)
(* Topo: what a map draws is what devices reported, and merging keeps it,  *)
(* for any reports that names can tell apart.  A name leads to the key of  *)
(* its device (CanonOfKnown, CanonOfSaid), so a claim and its reverse meet *)
(* under the keys of both (ReverseByKey); a merge renames every name to    *)
(* one of the same device (ResolvedIs, PeerKeyIs), so a map that says what *)
(* is true of devices (Charted) stays one.                                 *)
(***************************************************************************)
EXTENDS MapView, Topo, FiniteSetTheorems, WellFoundedInduction, TLAPS

FilesType ==
    /\ dir \in [FileNames -> Crawls \cup {Nothing}]
    /\ bytes \in [Crawls -> Crawls \cup {Empty, Mixed}]
    /\ crawl \in [Crawls -> [at : {"crawling", "opened", "written", "done", "failed"},
                             file : Crawls, shared : BOOLEAN]]

FilesApart ==
    /\ \A n \in FileNames : dir[n] # Nothing => PathOf[dir[n]] = n[1]
    /\ \A c \in Crawls : bytes[c] \in Crawls => PathOf[bytes[c]] = PathOf[c]
    /\ \A c \in Crawls : PathOf[crawl[c].file] = PathOf[c]

\* A load under way brings a map of its path.
Bringing(x) ==
    /\ x.at # "idle" => x.viewer \in Viewers /\ x.path \in Paths
    /\ x.at = "read" /\ x.data \in Crawls => PathOf[x.data] = x.path

Loads ==
    /\ call \in [Threads -> [at : {"idle", "reading", "read", "set"}, viewer : Viewers \cup {Nothing},
                             path : Paths \cup {Nothing},
                             data : Crawls \cup {Empty, Mixed, Nothing}]]
    /\ \A t \in Threads : Bringing(call[t])

ViewerRec == [state : {"none", "opening", "open", "closed"}, data : Crawls \cup {Nothing}, gen : Nat,
              layout : Paths \cup {Nothing}, path : Paths \cup {Nothing}, locked : BOOLEAN]

Served ==
    /\ viewer \in [Viewers -> ViewerRec]
    /\ \A v \in Viewers : viewer[v].data # Nothing => viewer[v].layout = PathOf[viewer[v].data]

PageRec == [viewer : Viewers \cup {Nothing}, data : Crawls \cup {Nothing}, gen : Nat,
            restored : Layout \cup {Nothing}, asks : {"nothing", "save", "saving", "clear"},
            file : Paths \cup {Nothing}, body : Layout \cup {Nothing}]

\* A page and the server it came from.
Followed(x, s) ==
    /\ x.gen <= s.gen
    /\ x.gen = s.gen => x.data = s.data

\* A page's own layouts are of the map it shows, or come of its being stale.
Kept(x) ==
    /\ x.asks # "nothing" => /\ x.data # Nothing
                             /\ x.file \in Paths /\ x.body \in Layout
                             /\ x.body.of = x.file \/ x.body.stale
    /\ x.restored # Nothing => /\ x.data # Nothing /\ x.restored \in Layout
                               /\ x.restored.of = PathOf[x.data] \/ x.restored.stale

PagesShow ==
    /\ page \in [Pages -> PageRec]
    /\ \A g \in Pages : /\ page[g].data # Nothing => /\ page[g].viewer \in Viewers
                                                     /\ Followed(page[g], viewer[page[g].viewer])
                        /\ Kept(page[g])

Saved ==
    /\ layouts \in [Paths -> Layout \cup {Nothing}]
    /\ \A p \in Paths : layouts[p] # Nothing =>
          layouts[p] \in Layout /\ (layouts[p].of = p \/ layouts[p].stale)

IInv == FilesType /\ FilesApart /\ Loads /\ Served /\ PagesShow /\ Saved /\ ConnectsToWhatIsShown

-----------------------------------------------------------------------------
(* FileNames and paths *)

LEMMA NamesOf ==
    ASSUME NEW c \in Crawls
    PROVE  /\ PathOf[c] \in Paths /\ PathOf[c] # Nothing /\ c # Nothing
           /\ <<PathOf[c], "map">> \in FileNames /\ <<PathOf[c], "tmp">> \in FileNames
           /\ <<PathOf[c], "map">>[1] = PathOf[c] /\ <<PathOf[c], "tmp">>[1] = PathOf[c]
<1>1. PathOf[c] \in Paths
  BY DEF Paths
<1> QED
  BY <1>1, MapViewAssumption DEF FileNames

\* What leaves the files alone.
LEMMA FilesStay ==
    ASSUME FilesType, FilesApart, UNCHANGED files
    PROVE  FilesType' /\ FilesApart'
BY DEF FilesType, FilesApart, files

\* What leaves servers, loads, pages and layouts alone.
LEMMA ViewsStay ==
    ASSUME Loads, Served, PagesShow, Saved, ConnectsToWhatIsShown,
           UNCHANGED <<viewer, call, page, layouts, opened>>
    PROVE  Loads' /\ Served' /\ PagesShow' /\ Saved' /\ ConnectsToWhatIsShown'
BY DEF Loads, Bringing, Served, PagesShow, Followed, Kept, Saved, ConnectsToWhatIsShown

-----------------------------------------------------------------------------
(* Crawls *)

LEMMA OpenMapStep == ASSUME IInv, NEW c \in Crawls, OpenMap(c) PROVE IInv'
<1> DEFINE n == WrittenTo(c)
           f == IF dir[n] = Nothing THEN c ELSE dir[n]
           others == {d \in Crawls : Writing(d) /\ PathOf[d] = PathOf[c]}
<1>1. /\ dir' = [dir EXCEPT ![n] = f]
      /\ bytes' = [bytes EXCEPT ![f] = Empty]
      /\ crawl' = [d \in Crawls |->
                IF d = c THEN [at |-> "opened", file |-> f, shared |-> others # {}]
                ELSE [crawl[d] EXCEPT !.shared = @ \/ d \in others]]
      /\ UNCHANGED <<viewer, call, page, layouts, opened>>
  BY DEF OpenMap
<1>2. n \in FileNames /\ n[1] = PathOf[c]
  BY NamesOf DEF WrittenTo, Tmp
<1>3. FilesType /\ FilesApart
  BY DEF IInv
<1> HIDE DEF n
<1>4. f \in Crawls /\ PathOf[f] = PathOf[c]
  BY <1>2, <1>3 DEF FilesType, FilesApart
<1>5. (others # {}) \in BOOLEAN
  OBVIOUS
<1> HIDE DEF f, others
<1>6. dir' \in [FileNames -> Crawls \cup {Nothing}] /\ bytes' \in [Crawls -> Crawls \cup {Empty, Mixed}]
  BY <1>1, <1>2, <1>3, <1>4 DEF FilesType
<1>7. \A d \in Crawls : /\ crawl'[d] \in [at : {"crawling", "opened", "written", "done", "failed"},
                                         file : Crawls, shared : BOOLEAN]
                        /\ PathOf[crawl'[d].file] = PathOf[d]
  <2> SUFFICES ASSUME NEW d \in Crawls
               PROVE  /\ crawl'[d] \in [at : {"crawling", "opened", "written", "done", "failed"},
                                        file : Crawls, shared : BOOLEAN]
                      /\ PathOf[crawl'[d].file] = PathOf[d]
    OBVIOUS
  <2>1. CASE d = c
    BY <1>1, <1>4, <1>5, <2>1
  <2>2. CASE d # c
    <3>1. crawl'[d] = [crawl[d] EXCEPT !.shared = @ \/ d \in others]
      BY <1>1, <2>2
    <3>2. crawl[d] \in [at : {"crawling", "opened", "written", "done", "failed"},
                        file : Crawls, shared : BOOLEAN] /\ PathOf[crawl[d].file] = PathOf[d]
      BY <1>3 DEF FilesType, FilesApart
    <3> QED
      BY <3>1, <3>2
  <2> QED
    BY <2>1, <2>2
<1>8. DOMAIN crawl' = Crawls
  BY <1>1
<1>9. crawl' \in [Crawls -> [at : {"crawling", "opened", "written", "done", "failed"},
                             file : Crawls, shared : BOOLEAN]]
  <2> DEFINE S == [at : {"crawling", "opened", "written", "done", "failed"}, file : Crawls, shared : BOOLEAN]
  <2>1. \A d \in Crawls : crawl'[d] \in S
    BY <1>7
  <2> HIDE DEF S
  <2>2. crawl' = [d \in Crawls |-> crawl'[d]]
    BY <1>1
  <2>3. crawl' \in [Crawls -> S]
    BY <2>1, <2>2
  <2> QED
    BY <2>3 DEF S
<1>10. FilesApart'
  <2>1. \A m \in FileNames : dir'[m] # Nothing => PathOf[dir'[m]] = m[1]
    BY <1>1, <1>2, <1>3, <1>4 DEF FilesType, FilesApart
  <2>2. \A d \in Crawls : bytes'[d] \in Crawls => PathOf[bytes'[d]] = PathOf[d]
    BY <1>1, <1>3, <1>4, MapViewAssumption DEF FilesType, FilesApart
  <2> QED
    BY <1>7, <2>1, <2>2 DEF FilesApart
<1> QED
  BY <1>1, <1>6, <1>9, <1>10, ViewsStay DEF IInv, FilesType

\* A crawl whose record, file and bytes change as a write's do.
LEMMA CrawlMoves ==
    ASSUME IInv, NEW c \in Crawls, NEW at \in {"written", "done", "failed"}, NEW f \in Crawls,
           PathOf[f] = PathOf[c], NEW b \in Crawls \cup {Empty, Mixed},
           b \in Crawls => PathOf[b] = PathOf[c],
           crawl' = [crawl EXCEPT ![c].at = at, ![c].file = f],
           bytes' = bytes \/ bytes' = [bytes EXCEPT ![crawl[c].file] = b],
           dir' \in [FileNames -> Crawls \cup {Nothing}],
           \A n \in FileNames : dir'[n] # Nothing => PathOf[dir'[n]] = n[1],
           UNCHANGED <<viewer, call, page, layouts, opened>>
    PROVE  IInv'
<1> DEFINE S == [at : {"crawling", "opened", "written", "done", "failed"}, file : Crawls, shared : BOOLEAN]
<1>1. crawl \in [Crawls -> S] /\ crawl[c] \in S
  BY DEF IInv, FilesType
<1>2. crawl' = [crawl EXCEPT ![c] = [crawl[c] EXCEPT !.at = at, !.file = f]]
  BY <1>1
<1>3. [crawl[c] EXCEPT !.at = at, !.file = f] \in S /\ [crawl[c] EXCEPT !.at = at, !.file = f].file = f
  BY <1>1
<1>4. crawl' \in [Crawls -> S] /\ \A d \in Crawls : crawl'[d].file = IF d = c THEN f ELSE crawl[d].file
  BY <1>1, <1>2, <1>3
<1>5. bytes' \in [Crawls -> Crawls \cup {Empty, Mixed}]
      /\ \A d \in Crawls : bytes'[d] \in Crawls => PathOf[bytes'[d]] = PathOf[d]
  BY <1>1 DEF IInv, FilesType, FilesApart
<1>6. FilesType'
  BY <1>4, <1>5 DEF FilesType
<1>7. FilesApart'
  <2>1. \A d \in Crawls : PathOf[crawl'[d].file] = PathOf[d]
    BY <1>4 DEF IInv, FilesApart
  <2> QED
    BY <1>5, <2>1 DEF FilesApart
<1> QED
  BY <1>6, <1>7, ViewsStay DEF IInv

LEMMA CrawlStep ==
    ASSUME IInv, NEW c \in Crawls,
           WriteMap(c) \/ WriteMapFails(c) \/ Publish(c) \/ PublishFails(c) \/ CrawlDies(c)
    PROVE  IInv'
<1> DEFINE f == crawl[c].file
<1>1. /\ crawl[c] \in [at : {"crawling", "opened", "written", "done", "failed"},
                       file : Crawls, shared : BOOLEAN]
      /\ f \in Crawls /\ PathOf[f] = PathOf[c]
      /\ dir \in [FileNames -> Crawls \cup {Nothing}]
      /\ \A n \in FileNames : dir[n] # Nothing => PathOf[dir[n]] = n[1]
      /\ crawl \in [Crawls -> [at : {"crawling", "opened", "written", "done", "failed"},
                               file : Crawls, shared : BOOLEAN]]
  BY DEF IInv, FilesType, FilesApart
<1>2. CASE WriteMap(c)
  <2>1. PICK b \in IF bytes[f] = Empty THEN {c} ELSE {c, Mixed} : bytes' = [bytes EXCEPT ![f] = b]
    BY <1>2 DEF WriteMap
  <2>2. crawl' = [crawl EXCEPT ![c].at = "written", ![c].file = f]
    BY <1>1, <1>2 DEF WriteMap
  <2>3. b \in Crawls \cup {Empty, Mixed} /\ (b \in Crawls => PathOf[b] = PathOf[c])
    BY <2>1, MapViewAssumption
  <2>4. UNCHANGED <<dir, viewer, call, page, layouts, opened>>
    BY <1>2 DEF WriteMap
  <2> QED
    BY <1>1, <2>1, <2>2, <2>3, <2>4, CrawlMoves
<1>3. CASE WriteMapFails(c)
  <2>1. /\ bytes' = [bytes EXCEPT ![f] = Mixed] /\ crawl' = [crawl EXCEPT ![c].at = "failed", ![c].file = c]
        /\ UNCHANGED <<dir, viewer, call, page, layouts, opened>>
    BY <1>3 DEF WriteMapFails, Ends
  <2> QED
    BY <1>1, <2>1, CrawlMoves, MapViewAssumption
<1>4. CASE Publish(c)
  <2>1. /\ bytes' = bytes /\ crawl' = [crawl EXCEPT ![c].at = "done", ![c].file = c]
        /\ UNCHANGED <<viewer, call, page, layouts, opened>>
    BY <1>4 DEF Publish, Ends
  <2> DEFINE m == <<PathOf[c], "map">>
             k == <<PathOf[c], "tmp">>
  <2>2. m \in FileNames /\ k \in FileNames /\ m[1] = PathOf[c] /\ k[1] = PathOf[c]
    BY NamesOf
  <2>3. dir' = dir \/ (dir[k] # Nothing /\ dir' = [dir EXCEPT ![m] = dir[k], ![k] = Nothing])
    BY <1>4 DEF Publish, Tmp
  <2> HIDE DEF m, k
  <2>4. dir' \in [FileNames -> Crawls \cup {Nothing}]
    BY <1>1, <2>2, <2>3
  <2>5. \A n \in FileNames : dir'[n] # Nothing => PathOf[dir'[n]] = n[1]
    BY <1>1, <2>2, <2>3
  <2> QED
    BY <1>1, <2>1, <2>4, <2>5, CrawlMoves
<1>5. CASE PublishFails(c) \/ CrawlDies(c)
  <2>1. /\ bytes' = bytes /\ crawl' = [crawl EXCEPT ![c].at = "failed", ![c].file = c]
        /\ UNCHANGED <<dir, viewer, call, page, layouts, opened>>
    BY <1>5 DEF PublishFails, CrawlDies, Ends
  <2> QED
    BY <1>1, <2>1, CrawlMoves
<1> QED
  BY <1>2, <1>3, <1>4, <1>5

-----------------------------------------------------------------------------
(* One record changes *)

CallRec == [at : {"idle", "reading", "read", "set"}, viewer : Viewers \cup {Nothing},
            path : Paths \cup {Nothing}, data : Crawls \cup {Empty, Mixed, Nothing}]

LEMMA CallIs ==
    ASSUME Loads, NEW t \in Threads, NEW y \in CallRec, Bringing(y), call' = [call EXCEPT ![t] = y]
    PROVE  Loads'
<1>1. call \in [Threads -> CallRec] /\ \A u \in Threads : Bringing(call[u])
  BY DEF Loads, CallRec
<1>2. call' \in [Threads -> CallRec]
  BY <1>1
<1>3. \A u \in Threads : Bringing(call'[u])
  BY <1>1
<1> QED
  BY <1>2, <1>3 DEF Loads, CallRec, Bringing

LEMMA Hangup == NoCall \in CallRec /\ Bringing(NoCall)
BY DEF NoCall, CallRec, Bringing

\* A server's map is replaced under a new generation, or not at all.
Grows(s, y) == y.gen > s.gen \/ (y.gen = s.gen /\ y.data = s.data)

LEMMA ViewerIs ==
    ASSUME Served, NEW v \in Viewers, NEW y \in ViewerRec, Grows(viewer[v], y),
           y.data # Nothing => y.layout = PathOf[y.data],
           viewer' = [viewer EXCEPT ![v] = y]
    PROVE  Served' /\ \A u \in Viewers : Grows(viewer[u], viewer'[u])
<1>1. viewer' \in [Viewers -> ViewerRec] /\ \A u \in Viewers : viewer'[u] = IF u = v THEN y ELSE viewer[u]
  BY DEF Served
<1>2. Served'
  BY <1>1 DEF Served
<1>3. \A u \in Viewers : Grows(viewer[u], viewer'[u])
  BY <1>1 DEF Grows
<1> QED
  BY <1>2, <1>3

\* A page shows what it showed, or nothing.
SamePage(x, y) == y.data # Nothing => y.viewer = x.viewer /\ y.gen = x.gen /\ y.data = x.data

LEMMA ShownIs ==
    ASSUME Served, PagesShow, Served', \A u \in Viewers : Grows(viewer[u], viewer'[u]),
           page' \in [Pages -> PageRec],
           \A g \in Pages : Kept(page'[g]) /\ SamePage(page[g], page'[g])
    PROVE  PagesShow'
<1> SUFFICES ASSUME NEW g \in Pages, page'[g].data # Nothing
             PROVE  /\ page'[g].viewer \in Viewers
                    /\ Followed(page'[g], viewer'[page'[g].viewer])
  BY DEF PagesShow, Kept, Followed
<1> DEFINE v == page[g].viewer
<1>1. /\ page'[g].viewer = v /\ page'[g].gen = page[g].gen /\ page'[g].data = page[g].data
      /\ page[g] \in PageRec
  BY DEF SamePage, PagesShow
<1>2. v \in Viewers /\ Followed(page[g], viewer[v])
  BY <1>1 DEF PagesShow
<1>3. Grows(viewer[v], viewer'[v]) /\ viewer[v].gen \in Nat /\ viewer'[v].gen \in Nat /\ page[g].gen \in Nat
  BY <1>1, <1>2 DEF Served, ViewerRec, PageRec
<1> QED
  BY <1>1, <1>2, <1>3 DEF Followed, Grows

LEMMA ShownStays ==
    ASSUME Served, PagesShow, Served', \A u \in Viewers : Grows(viewer[u], viewer'[u]), page' = page
    PROVE  PagesShow'
<1>1. page' \in [Pages -> PageRec] /\ \A g \in Pages : Kept(page'[g]) /\ SamePage(page[g], page'[g])
  BY DEF PagesShow, SamePage
<1> QED
  BY <1>1, ShownIs

LEMMA Unmoved ==
    ASSUME Served, viewer' = viewer
    PROVE  Served' /\ \A u \in Viewers : Grows(viewer[u], viewer'[u])
BY DEF Served, Grows

LEMMA Rest ==
    ASSUME IInv, UNCHANGED <<files, opened>>
    PROVE  FilesType' /\ FilesApart' /\ ConnectsToWhatIsShown'
BY FilesStay DEF IInv, ConnectsToWhatIsShown

LEMMA SavedStays == ASSUME Saved, layouts' = layouts PROVE Saved'
BY DEF Saved

-----------------------------------------------------------------------------
(* Loads *)

LEMMA CallStep ==
    ASSUME IInv, NEW t \in Threads, NEW v \in Viewers, NEW p \in Paths, Call(t, v, p)
    PROVE  IInv'
<1> DEFINE y == [viewer[v] EXCEPT !.state = IF @ = "none" THEN "opening" ELSE @]
           z == [at |-> "reading", viewer |-> v, path |-> p, data |-> Nothing]
<1>1. /\ viewer' = [viewer EXCEPT ![v].state = IF @ = "none" THEN "opening" ELSE @]
      /\ call' = [call EXCEPT ![t] = z] /\ UNCHANGED <<files, page, layouts, opened>>
  BY DEF Call
<1>2. viewer[v] \in ViewerRec /\ (viewer[v].data # Nothing => viewer[v].layout = PathOf[viewer[v].data])
      /\ DOMAIN viewer = Viewers
  BY DEF IInv, Served
<1>3. y \in ViewerRec /\ y.data = viewer[v].data /\ y.gen = viewer[v].gen /\ y.layout = viewer[v].layout
  BY <1>2 DEF ViewerRec
<1>4. viewer' = [viewer EXCEPT ![v] = y] /\ Grows(viewer[v], y)
  BY <1>1, <1>2, <1>3 DEF Grows
<1>5. z \in CallRec /\ Bringing(z)
  BY DEF CallRec, Bringing
<1> HIDE DEF y, z
<1>6. Served' /\ \A u \in Viewers : Grows(viewer[u], viewer'[u])
  BY <1>2, <1>3, <1>4, ViewerIs DEF IInv
<1>7. PagesShow' /\ Loads' /\ Saved'
  BY <1>1, <1>5, <1>6, ShownStays, CallIs, SavedStays DEF IInv
<1> QED
  BY <1>1, <1>6, <1>7, Rest DEF IInv

LEMMA ReadMapStep == ASSUME IInv, NEW t \in Threads, ReadMap(t) PROVE IInv'
<1> DEFINE n == <<call[t].path, "map">>
           b == bytes[dir[n]]
           z == [call[t] EXCEPT !.at = "read", !.data = b]
<1>1. /\ call[t].at = "reading" /\ dir[n] # Nothing
      /\ call' = [call EXCEPT ![t].at = "read", ![t].data = b]
      /\ UNCHANGED <<files, viewer, page, layouts, opened>>
  BY DEF ReadMap
<1>2. call[t] \in CallRec /\ Bringing(call[t]) /\ DOMAIN call = Threads
  BY DEF IInv, Loads, CallRec
<1>3. call[t].path \in Paths /\ n \in FileNames /\ n[1] = call[t].path
  BY <1>1, <1>2 DEF Bringing, FileNames
<1>4. dir[n] \in Crawls /\ PathOf[dir[n]] = call[t].path
  BY <1>1, <1>3 DEF IInv, FilesType, FilesApart
<1>5. b \in Crawls \cup {Empty, Mixed} /\ (b \in Crawls => PathOf[b] = call[t].path)
  BY <1>4 DEF IInv, FilesType, FilesApart
<1> HIDE DEF b, n
<1>6. z \in CallRec /\ Bringing(z)
  BY <1>1, <1>2, <1>5 DEF CallRec, Bringing
<1>7. call' = [call EXCEPT ![t] = z]
  BY <1>1, <1>2
<1> HIDE DEF z
<1>8. Served' /\ \A u \in Viewers : Grows(viewer[u], viewer'[u])
  BY <1>1, Unmoved DEF IInv
<1>9. PagesShow' /\ Loads' /\ Saved'
  BY <1>1, <1>6, <1>7, <1>8, ShownStays, CallIs, SavedStays DEF IInv
<1> QED
  BY <1>1, <1>8, <1>9, Rest DEF IInv

LEMMA SetMapStep == ASSUME IInv, NEW t \in Threads, SetMap(t) PROVE IInv'
<1> DEFINE v == call[t].viewer
           b == call[t].data
           p == call[t].path
           y == [viewer[v] EXCEPT !.data = b, !.gen = @ + 1, !.layout = p]
           z == [call[t] EXCEPT !.at = "set"]
<1>1. /\ call[t].at = "read" /\ b \in Crawls
      /\ viewer' = [viewer EXCEPT ![v] = y]
      /\ call' = [call EXCEPT ![t].at = "set"]
      /\ UNCHANGED <<files, page, layouts, opened>>
  BY DEF SetMap, Parses, Loaded
<1>2. call[t] \in CallRec /\ Bringing(call[t]) /\ DOMAIN call = Threads
  BY DEF IInv, Loads, CallRec
<1>3. v \in Viewers /\ p \in Paths /\ PathOf[b] = p
  BY <1>1, <1>2 DEF Bringing
<1>4. viewer[v] \in ViewerRec /\ viewer[v].gen \in Nat
  BY <1>3 DEF IInv, Served, ViewerRec
<1>5. y \in ViewerRec /\ y.data = b /\ y.gen = viewer[v].gen + 1 /\ y.layout = p
  <2>1. viewer[v].gen + 1 \in Nat /\ b \in Crawls \cup {Nothing} /\ p \in Paths \cup {Nothing}
    BY <1>1, <1>3, <1>4
  <2>2. /\ DOMAIN viewer[v] = {"state", "data", "gen", "layout", "path", "locked"}
        /\ viewer[v].state \in {"none", "opening", "open", "closed"}
        /\ viewer[v].path \in Paths \cup {Nothing} /\ viewer[v].locked \in BOOLEAN
    BY <1>4 DEF ViewerRec
  <2> HIDE DEF b, p, v
  <2> QED
    BY <1>4, <2>1, <2>2 DEF ViewerRec
<1>6. Grows(viewer[v], y) /\ (y.data # Nothing => y.layout = PathOf[y.data])
  BY <1>3, <1>4, <1>5 DEF Grows
<1>7. z \in CallRec /\ Bringing(z)
  BY <1>2, <1>3 DEF CallRec, Bringing
<1>8. call' = [call EXCEPT ![t] = z]
  BY <1>1, <1>2
<1> HIDE DEF y, z
<1>9. Served' /\ \A u \in Viewers : Grows(viewer[u], viewer'[u])
  BY <1>1, <1>3, <1>5, <1>6, ViewerIs DEF IInv
<1>10. PagesShow' /\ Loads' /\ Saved'
  BY <1>1, <1>7, <1>8, <1>9, ShownStays, CallIs, SavedStays DEF IInv
<1> QED
  BY <1>1, <1>9, <1>10, Rest DEF IInv

\* A load that ends, well or not, leaves the server's map.
LEMMA LoadOver ==
    ASSUME IInv, NEW t \in Threads, NEW v \in Viewers, NEW y \in ViewerRec,
           y.data = viewer[v].data, y.gen = viewer[v].gen, y.layout = viewer[v].layout,
           viewer' = [viewer EXCEPT ![v] = y], Idle(t), UNCHANGED <<files, page, layouts, opened>>
    PROVE  IInv'
<1>1. Grows(viewer[v], y) /\ (y.data # Nothing => y.layout = PathOf[y.data])
  BY DEF IInv, Served, Grows
<1>2. Served' /\ \A u \in Viewers : Grows(viewer[u], viewer'[u])
  BY <1>1, ViewerIs DEF IInv
<1>3. PagesShow' /\ Loads' /\ Saved'
  BY <1>2, Hangup, ShownStays, CallIs, SavedStays DEF IInv, Idle
<1> QED
  BY <1>2, <1>3, Rest DEF IInv

LEMMA LoadEndsStep == ASSUME IInv, NEW t \in Threads, LoadEnds(t) \/ LoadFails(t) PROVE IInv'
<1> DEFINE v == call[t].viewer
<1>1. v \in Viewers /\ call[t].path \in Paths
  BY DEF LoadEnds, LoadFails, IInv, Loads, Bringing
<1>2. viewer \in [Viewers -> ViewerRec] /\ viewer[v] \in ViewerRec
  BY <1>1 DEF IInv, Served
<1>3. CASE LoadEnds(t)
  <2> DEFINE y == [viewer[v] EXCEPT !.path = call[t].path,
                                    !.state = IF @ = "opening" THEN "open" ELSE @]
  <2>1. y \in ViewerRec /\ y.data = viewer[v].data /\ y.gen = viewer[v].gen /\ y.layout = viewer[v].layout
    BY <1>1, <1>2 DEF ViewerRec
  <2>2. viewer' = [viewer EXCEPT ![v] = y] /\ Idle(t) /\ UNCHANGED <<files, page, layouts, opened>>
    BY <1>1, <1>2, <1>3 DEF LoadEnds
  <2> HIDE DEF y
  <2> QED
    BY <1>1, <2>1, <2>2, LoadOver
<1>4. CASE LoadFails(t)
  <2> DEFINE y == [viewer[v] EXCEPT !.state = IF @ = "opening" THEN "closed" ELSE @]
  <2>1. y \in ViewerRec /\ y.data = viewer[v].data /\ y.gen = viewer[v].gen /\ y.layout = viewer[v].layout
    BY <1>2 DEF ViewerRec
  <2>2. viewer' = [viewer EXCEPT ![v] = y] /\ Idle(t) /\ UNCHANGED <<files, page, layouts, opened>>
    BY <1>4 DEF LoadFails, AfterRefusal
  <2> HIDE DEF y
  <2> QED
    BY <1>1, <2>1, <2>2, LoadOver
<1> QED
  BY <1>3, <1>4

LEMMA CloseStep == ASSUME IInv, NEW v \in Viewers, Close(v) PROVE IInv'
<1> DEFINE y == [viewer[v] EXCEPT !.state = "closed"]
<1>1. viewer' = [viewer EXCEPT ![v].state = "closed"] /\ UNCHANGED <<files, call, page, layouts, opened>>
  BY DEF Close
<1>2. viewer \in [Viewers -> ViewerRec] /\ viewer[v] \in ViewerRec
      /\ (viewer[v].data # Nothing => viewer[v].layout = PathOf[viewer[v].data])
  BY DEF IInv, Served
<1>3. y \in ViewerRec /\ y.data = viewer[v].data /\ y.gen = viewer[v].gen /\ y.layout = viewer[v].layout
  BY <1>2 DEF ViewerRec
<1>4. viewer' = [viewer EXCEPT ![v] = y] /\ Grows(viewer[v], y)
  BY <1>1, <1>2, <1>3 DEF Grows
<1> HIDE DEF y
<1>5. Served' /\ \A u \in Viewers : Grows(viewer[u], viewer'[u])
  BY <1>2, <1>3, <1>4, ViewerIs DEF IInv
<1>6. PagesShow' /\ Loads' /\ Saved'
  BY <1>1, <1>5, ShownStays, SavedStays DEF IInv, Loads, Bringing
<1> QED
  BY <1>1, <1>5, <1>6, Rest DEF IInv

LEMMA Blank == NoPage \in PageRec /\ Kept(NoPage) /\ NoPage.data = Nothing
BY DEF NoPage, PageRec, Kept

LEMMA ViewerDiesStep == ASSUME IInv, NEW v \in Viewers, ViewerDies(v) PROVE IInv'
<1> DEFINE y == [viewer[v] EXCEPT !.state = "closed", !.locked = FALSE]
<1>1. /\ viewer' = [viewer EXCEPT ![v].state = "closed", ![v].locked = FALSE]
      /\ call' = [t \in Threads |-> IF call[t].viewer = v THEN NoCall ELSE call[t]]
      /\ page' = [g \in Pages |-> IF page[g].viewer = v THEN NoPage ELSE page[g]]
      /\ UNCHANGED <<files, layouts, opened>>
  BY DEF ViewerDies
<1>2. viewer \in [Viewers -> ViewerRec] /\ viewer[v] \in ViewerRec
      /\ (viewer[v].data # Nothing => viewer[v].layout = PathOf[viewer[v].data])
  BY DEF IInv, Served
<1>3. y \in ViewerRec /\ y.data = viewer[v].data /\ y.gen = viewer[v].gen /\ y.layout = viewer[v].layout
  BY <1>2 DEF ViewerRec
<1>4. viewer' = [viewer EXCEPT ![v] = y] /\ Grows(viewer[v], y)
  BY <1>1, <1>2, <1>3 DEF Grows
<1> HIDE DEF y
<1>5. Served' /\ \A u \in Viewers : Grows(viewer[u], viewer'[u])
  BY <1>2, <1>3, <1>4, ViewerIs DEF IInv
<1>6. page' \in [Pages -> PageRec] /\ \A g \in Pages : Kept(page'[g]) /\ SamePage(page[g], page'[g])
  <2>1. page \in [Pages -> PageRec] /\ \A g \in Pages : Kept(page[g])
    BY DEF IInv, PagesShow
  <2>2. \A g \in Pages : page'[g] = NoPage \/ page'[g] = page[g]
    BY <1>1
  <2>3. \A g \in Pages : page'[g] \in PageRec /\ Kept(page'[g]) /\ SamePage(page[g], page'[g])
    BY <2>1, <2>2, Blank DEF SamePage
  <2> QED
    BY <1>1, <2>3
<1>7. Loads'
  <2>1. call \in [Threads -> CallRec] /\ \A t \in Threads : Bringing(call[t])
    BY DEF IInv, Loads, CallRec
  <2>2. \A t \in Threads : call'[t] = NoCall \/ call'[t] = call[t]
    BY <1>1
  <2>3. \A t \in Threads : call'[t] \in CallRec /\ Bringing(call'[t])
    BY <2>1, <2>2, Hangup
  <2>4. call' \in [Threads -> CallRec]
    BY <1>1, <2>3
  <2> QED
    BY <2>3, <2>4 DEF Loads, CallRec, Bringing
<1>8. PagesShow' /\ Saved'
  BY <1>1, <1>5, <1>6, ShownIs, SavedStays DEF IInv
<1> QED
  BY <1>1, <1>5, <1>7, <1>8, Rest DEF IInv

-----------------------------------------------------------------------------
(* Pages *)

LEMMA GetMapStep == ASSUME IInv, NEW g \in Pages, NEW v \in Viewers, GetMap(g, v) PROVE IInv'
<1> DEFINE y == [NoPage EXCEPT !.viewer = v, !.data = viewer[v].data, !.gen = viewer[v].gen]
<1>1. /\ viewer[v].data # Nothing /\ page' = [page EXCEPT ![g] = y]
      /\ UNCHANGED <<files, viewer, call, layouts, opened>>
  BY DEF GetMap, Serves
<1>2. viewer[v] \in ViewerRec
  BY DEF IInv, Served
<1>3. /\ y \in PageRec /\ Kept(y)
      /\ y.viewer = v /\ y.data = viewer[v].data /\ y.gen = viewer[v].gen
  BY <1>2 DEF NoPage, PageRec, ViewerRec, Kept
<1>4. viewer[v].gen \in Nat
  BY <1>2 DEF ViewerRec
<1> HIDE DEF y
<1>5. Followed(y, viewer[v])
  BY <1>3, <1>4 DEF Followed
<1>6. page' \in [Pages -> PageRec]
      /\ \A h \in Pages : page'[h] = IF h = g THEN y ELSE page[h]
  BY <1>1, <1>3 DEF IInv, PagesShow
<1>7. \A h \in Pages : /\ page'[h].data # Nothing => /\ page'[h].viewer \in Viewers
                                                     /\ Followed(page'[h], viewer[page'[h].viewer])
                       /\ Kept(page'[h])
  BY <1>3, <1>5, <1>6 DEF IInv, PagesShow
<1>8. PagesShow'
  BY <1>1, <1>6, <1>7 DEF PagesShow, Followed, Kept
<1>9. Served' /\ Loads' /\ Saved'
  BY <1>1, Unmoved, SavedStays DEF IInv, Loads, Bringing
<1> QED
  BY <1>1, <1>8, <1>9, Rest DEF IInv

\* What a page that shows a map knows of its server.
LEMMA PageFacts ==
    ASSUME IInv, NEW g \in Pages, page[g].data # Nothing
    PROVE  /\ page[g] \in PageRec /\ page[g].viewer \in Viewers /\ page[g].data \in Crawls
           /\ Of(g) \in Paths /\ Stale(g) \in BOOLEAN
           /\ viewer[page[g].viewer] \in ViewerRec
           /\ ~Stale(g) => /\ page[g].data = viewer[page[g].viewer].data
                           /\ viewer[page[g].viewer].layout = Of(g)
<1>1. page[g] \in PageRec /\ page[g].viewer \in Viewers /\ page[g].data \in Crawls
      /\ Followed(page[g], viewer[page[g].viewer])
  BY DEF IInv, PagesShow, PageRec
<1>2. viewer[page[g].viewer] \in ViewerRec
      /\ (viewer[page[g].viewer].data # Nothing =>
             viewer[page[g].viewer].layout = PathOf[viewer[page[g].viewer].data])
  BY <1>1 DEF IInv, Served
<1>3. PathOf[page[g].data] \in Paths
  BY <1>1, NamesOf
<1> QED
  BY <1>1, <1>2, <1>3 DEF Followed, Of, Stale

\* A request that changes page g, and at most the lock of its server.
LEMMA PageMoves ==
    ASSUME IInv, NEW g \in Pages, page[g].data # Nothing, NEW y \in PageRec, Kept(y),
           SamePage(page[g], y), page' = [page EXCEPT ![g] = y],
           NEW b \in BOOLEAN,
           viewer' = viewer \/ viewer' = [viewer EXCEPT ![page[g].viewer].locked = b],
           Saved', UNCHANGED <<files, call, opened>>
    PROVE  IInv'
<1> DEFINE v == page[g].viewer
           s == [viewer[v] EXCEPT !.locked = b]
<1>1. v \in Viewers /\ viewer[v] \in ViewerRec /\ viewer \in [Viewers -> ViewerRec]
  BY PageFacts DEF IInv, Served
<1>2. s \in ViewerRec /\ s.data = viewer[v].data /\ s.gen = viewer[v].gen /\ s.layout = viewer[v].layout
  BY <1>1 DEF ViewerRec
<1>3. s.data # Nothing => s.layout = PathOf[s.data]
  BY <1>1, <1>2 DEF IInv, Served
<1>4. Served' /\ \A u \in Viewers : Grows(viewer[u], viewer'[u])
  <2>1. CASE viewer' = viewer
    BY <2>1, Unmoved DEF IInv
  <2>2. CASE viewer' = [viewer EXCEPT ![page[g].viewer].locked = b]
    <3>1. viewer' = [viewer EXCEPT ![v] = s] /\ Grows(viewer[v], s)
      BY <1>1, <1>2, <2>2 DEF Grows
    <3> HIDE DEF s, v
    <3> QED
      BY <1>1, <1>2, <1>3, <3>1, ViewerIs DEF IInv
  <2> QED
    BY <2>1, <2>2
<1>5. page' \in [Pages -> PageRec] /\ \A h \in Pages : Kept(page'[h]) /\ SamePage(page[h], page'[h])
  <2>1. page \in [Pages -> PageRec] /\ \A h \in Pages : Kept(page[h])
    BY DEF IInv, PagesShow
  <2>2. page' \in [Pages -> PageRec] /\ \A h \in Pages : page'[h] = IF h = g THEN y ELSE page[h]
    BY <2>1
  <2> QED
    BY <2>1, <2>2 DEF SamePage
<1>6. PagesShow' /\ Loads'
  BY <1>4, <1>5, ShownIs DEF IInv, Loads, Bringing
<1> QED
  BY <1>4, <1>6, Rest DEF IInv

LEMMA GetLayoutStep == ASSUME IInv, NEW g \in Pages, GetLayout(g) PROVE IInv'
<1> DEFINE p == viewer[page[g].viewer].layout
           saved == layouts[p]
           back == [saved EXCEPT !.stale = @ \/ Stale(g)]
           y == [page[g] EXCEPT !.restored = back]
<1>1. /\ page[g].data # Nothing /\ page[g].asks = "nothing" /\ saved # Nothing
      /\ page' = [page EXCEPT ![g].restored = back]
      /\ UNCHANGED <<files, viewer, call, layouts, opened>>
  BY DEF GetLayout, Shows
<1>2. /\ page[g] \in PageRec /\ page[g].viewer \in Viewers /\ viewer[page[g].viewer] \in ViewerRec
      /\ Stale(g) \in BOOLEAN /\ (~Stale(g) => p = PathOf[page[g].data])
      /\ page[g].data \in Crawls
  BY <1>1, PageFacts DEF Of
<1>3. viewer[page[g].viewer].data # Nothing
  BY DEF GetLayout, Shows, Serves
<1>4. p \in Paths
  BY <1>2, <1>3, NamesOf DEF IInv, Served, ViewerRec
<1>5. saved \in Layout /\ (saved.of = p \/ saved.stale)
  BY <1>1, <1>4 DEF IInv, Saved
<1> HIDE DEF saved, p
<1>6. back \in Layout /\ (back.of = PathOf[page[g].data] \/ back.stale)
  BY <1>2, <1>5 DEF Layout
<1> HIDE DEF back
<1>7. /\ y \in PageRec /\ y.data = page[g].data /\ y.viewer = page[g].viewer /\ y.gen = page[g].gen
      /\ y.asks = "nothing" /\ y.restored = back
  BY <1>1, <1>2, <1>6 DEF PageRec
<1>8. page' = [page EXCEPT ![g] = y]
  BY <1>1 DEF IInv, PagesShow
<1> HIDE DEF y
<1>9. Kept(y) /\ SamePage(page[g], y)
  BY <1>1, <1>6, <1>7 DEF Kept, SamePage
<1> QED
  BY <1>1, <1>7, <1>8, <1>9, PageMoves, SavedStays DEF IInv

LEMMA AskLayoutStep ==
    ASSUME IInv, NEW g \in Pages, NEW what \in {"save", "clear"}, AskLayout(g, what)
    PROVE  IInv'
<1> DEFINE p == viewer[page[g].viewer].layout
           body == [of |-> Of(g), stale |-> Stale(g)]
           y == [page[g] EXCEPT !.asks = what, !.file = p, !.body = body]
<1>1. /\ page[g].data # Nothing /\ viewer[page[g].viewer].data # Nothing
      /\ page' = [page EXCEPT ![g].asks = what, ![g].file = p, ![g].body = body]
      /\ UNCHANGED <<files, viewer, call, layouts, opened>>
  BY DEF AskLayout, Shows, Serves
<1>2. /\ page[g] \in PageRec /\ page[g].viewer \in Viewers /\ viewer[page[g].viewer] \in ViewerRec
      /\ Of(g) \in Paths /\ Stale(g) \in BOOLEAN /\ (~Stale(g) => p = Of(g))
  BY <1>1, PageFacts
<1>3. p \in Paths
  BY <1>1, <1>2, NamesOf DEF IInv, Served, ViewerRec
<1>4. body \in Layout /\ (body.of = p \/ body.stale)
  BY <1>2 DEF Layout
<1> HIDE DEF p, body
<1>5. /\ y \in PageRec /\ y.data = page[g].data /\ y.viewer = page[g].viewer /\ y.gen = page[g].gen
      /\ y.file = p /\ y.body = body /\ y.restored = page[g].restored
  BY <1>2, <1>3, <1>4 DEF PageRec
<1>6. page' = [page EXCEPT ![g] = y]
  BY <1>1 DEF IInv, PagesShow
<1> HIDE DEF y
<1>7. Kept(page[g])
  BY DEF IInv, PagesShow
<1>8. Kept(y) /\ SamePage(page[g], y)
  BY <1>1, <1>3, <1>4, <1>5, <1>7 DEF Kept, SamePage
<1> QED
  BY <1>1, <1>5, <1>6, <1>8, PageMoves, SavedStays DEF IInv

\* What a page that waits for an answer asked for.
LEMMA AskingFacts ==
    ASSUME IInv, NEW g \in Pages, page[g].asks # "nothing"
    PROVE  /\ page \in [Pages -> PageRec] /\ page[g] \in PageRec /\ Kept(page[g]) /\ page[g].data # Nothing
           /\ page[g].file \in Paths /\ page[g].body \in Layout
           /\ page[g].body.of = page[g].file \/ page[g].body.stale
BY DEF IInv, PagesShow, Kept

LEMMA SaveLayoutStep == ASSUME IInv, NEW g \in Pages, SaveLayout(g) PROVE IInv'
<1> DEFINE y == [page[g] EXCEPT !.asks = "saving"]
<1>1. /\ page[g].asks = "save" /\ viewer' = [viewer EXCEPT ![page[g].viewer].locked = TRUE]
      /\ page' = [page EXCEPT ![g].asks = "saving"]
      /\ layouts' = [layouts EXCEPT ![page[g].file] = layouts[page[g].file]]
      /\ UNCHANGED <<files, call, opened>>
  BY DEF SaveLayout, Lock, WhileSaving
<1>2. /\ page \in [Pages -> PageRec] /\ page[g] \in PageRec /\ Kept(page[g]) /\ page[g].data # Nothing
      /\ page[g].file \in Paths
  BY <1>1, AskingFacts
<1>3. /\ y \in PageRec /\ y.data = page[g].data /\ y.viewer = page[g].viewer /\ y.gen = page[g].gen
      /\ y.file = page[g].file /\ y.body = page[g].body /\ y.restored = page[g].restored
  BY <1>2 DEF PageRec
<1>4. page' = [page EXCEPT ![g] = y]
  BY <1>1, <1>2
<1> HIDE DEF y
<1>5. Kept(y) /\ SamePage(page[g], y)
  BY <1>1, <1>2, <1>3 DEF Kept, SamePage
<1>6. Saved'
  BY <1>1, <1>2 DEF IInv, Saved
<1> QED
  BY <1>1, <1>2, <1>3, <1>4, <1>5, <1>6, PageMoves

\* A request that is answered leaves the page as it was.
LEMMA AnswerMoves ==
    ASSUME IInv, NEW g \in Pages, page[g].asks # "nothing", Answered(g), NEW b \in BOOLEAN,
           viewer' = viewer \/ viewer' = [viewer EXCEPT ![page[g].viewer].locked = b],
           Saved', UNCHANGED <<files, call, opened>>
    PROVE  IInv'
<1> DEFINE y == [page[g] EXCEPT !.asks = "nothing", !.file = Nothing, !.body = Nothing]
<1>1. page \in [Pages -> PageRec] /\ page[g] \in PageRec /\ Kept(page[g]) /\ page[g].data # Nothing
  BY AskingFacts
<1>2. /\ y \in PageRec /\ y.data = page[g].data /\ y.viewer = page[g].viewer /\ y.gen = page[g].gen
      /\ y.asks = "nothing" /\ y.restored = page[g].restored
  BY <1>1 DEF PageRec
<1>3. page' = [page EXCEPT ![g] = y]
  BY <1>1 DEF Answered
<1> HIDE DEF y
<1>4. Kept(y) /\ SamePage(page[g], y)
  BY <1>1, <1>2 DEF Kept, SamePage
<1> QED
  BY <1>1, <1>2, <1>3, <1>4, PageMoves

LEMMA CommitLayoutStep == ASSUME IInv, NEW g \in Pages, CommitLayout(g) PROVE IInv'
<1>1. /\ page[g].asks = "saving" /\ Answered(g)
      /\ viewer' = [viewer EXCEPT ![page[g].viewer].locked = FALSE]
      /\ layouts' = [layouts EXCEPT ![page[g].file] = page[g].body] \/ layouts' = layouts
      /\ UNCHANGED <<files, call, opened>>
  BY DEF CommitLayout, Lock
<1>2. /\ page[g].file \in Paths /\ page[g].body \in Layout
      /\ page[g].body.of = page[g].file \/ page[g].body.stale
  BY <1>1, AskingFacts
<1>3. Saved'
  BY <1>1, <1>2 DEF IInv, Saved
<1> QED
  BY <1>1, <1>3, AnswerMoves

LEMMA ClearLayoutStep == ASSUME IInv, NEW g \in Pages, ClearLayout(g) PROVE IInv'
<1>1. /\ page[g].asks = "clear" /\ Answered(g) /\ viewer' = viewer
      /\ layouts' = [layouts EXCEPT ![page[g].file] = Nothing]
      /\ UNCHANGED <<files, call, opened>>
  BY DEF ClearLayout
<1>2. Saved'
  BY <1>1 DEF IInv, Saved
<1> QED
  BY <1>1, <1>2, AnswerMoves

\* An id names its generation, so the server has the page's map still.
LEMMA ConnectStep == ASSUME IInv, NEW g \in Pages, NEW name, Connect(g, name) PROVE IInv'
<1> DEFINE v == page[g].viewer
<1>1. PICK e \in ById(v) : /\ e[1] = Id(v, page[g].gen, name)
                           /\ opened' = {[shown |-> page[g].data, asked |-> name, got |-> e[2]]}
  BY DEF Connect
<1>2. PICK n \in NodeRefs(viewer[v].data) : e = <<Id(v, viewer[v].gen, n.name), n>>
  BY <1>1 DEF ById
<1>3. viewer[v].gen = page[g].gen /\ n.name = name /\ e[2] = n
  BY <1>1, <1>2 DEF Id
<1>4. page[g].data # Nothing /\ UNCHANGED <<files, viewer, call, page, layouts>>
  BY DEF Connect, Shows
<1>5. page[g].data = viewer[v].data
  BY <1>3, <1>4, PageFacts DEF Stale
<1>6. n \in NodeRefs(page[g].data)
  BY <1>2, <1>5
<1>7. ConnectsToWhatIsShown'
  BY <1>1, <1>3, <1>6 DEF ConnectsToWhatIsShown
<1>8. Loads' /\ Served' /\ PagesShow' /\ Saved'
  BY <1>4 DEF IInv, Loads, Bringing, Served, PagesShow, Followed, Kept, Saved
<1>9. FilesType' /\ FilesApart'
  BY <1>4, FilesStay DEF IInv
<1> QED
  BY <1>7, <1>8, <1>9 DEF IInv

-----------------------------------------------------------------------------
(* Whatever happens, in whatever order *)

LEMMA InitIInv == Init => IInv
<1> SUFFICES ASSUME Init PROVE IInv
  OBVIOUS
<1>1. FilesType /\ FilesApart
  BY MapViewAssumption DEF Init, FilesType, FilesApart, NoCrawl
<1>2. Loads
  BY DEF Init, Loads, Bringing, NoCall
<1>3. Served
  BY DEF Init, Served, ViewerRec, NoViewer
<1>4. PagesShow
  BY Blank DEF Init, PagesShow
<1>5. Saved /\ ConnectsToWhatIsShown
  BY DEF Init, Saved, ConnectsToWhatIsShown
<1> QED
  BY <1>1, <1>2, <1>3, <1>4, <1>5 DEF IInv

LEMMA IdleStep == ASSUME IInv, UNCHANGED vars PROVE IInv'
<1>1. UNCHANGED files /\ UNCHANGED <<viewer, call, page, layouts, opened>>
  BY DEF vars
<1> QED
  BY <1>1, FilesStay, ViewsStay DEF IInv

LEMMA NextIInv == IInv /\ [Next]_vars => IInv'
<1> SUFFICES ASSUME IInv, [Next]_vars PROVE IInv'
  OBVIOUS
<1>1. ASSUME NEW c \in Crawls,
             OpenMap(c) \/ WriteMap(c) \/ WriteMapFails(c) \/ Publish(c) \/ PublishFails(c) \/ CrawlDies(c)
      PROVE  IInv'
  BY <1>1, OpenMapStep, CrawlStep
<1>2. ASSUME NEW t \in Threads,
             (\E v \in Viewers, p \in Paths : Call(t, v, p))
             \/ ReadMap(t) \/ SetMap(t) \/ LoadEnds(t) \/ LoadFails(t)
      PROVE  IInv'
  BY <1>2, CallStep, ReadMapStep, SetMapStep, LoadEndsStep
<1>3. ASSUME NEW v \in Viewers, Close(v) \/ ViewerDies(v) \/ \E g \in Pages : GetMap(g, v)
      PROVE  IInv'
  BY <1>3, CloseStep, ViewerDiesStep, GetMapStep
<1>4. ASSUME NEW g \in Pages,
             GetLayout(g) \/ AskLayout(g, "save") \/ AskLayout(g, "clear")
             \/ SaveLayout(g) \/ CommitLayout(g) \/ ClearLayout(g)
             \/ \E c \in Crawls : \E n \in DevicesOf[c] \cup LeavesOf[c] : Connect(g, n)
      PROVE  IInv'
  BY <1>4, GetLayoutStep, AskLayoutStep, SaveLayoutStep, CommitLayoutStep, ClearLayoutStep, ConnectStep
<1> QED
  BY <1>1, <1>2, <1>3, <1>4, IdleStep DEF Next

LEMMA IInvLayouts == IInv => LayoutsStayWithTheirMap
BY DEF IInv, Saved, PagesShow, Kept, LayoutsStayWithTheirMap, Of

\* However maps are crawled, loaded, reloaded, closed and lost, a layout on
\* disk or on a page was saved by a page showing that map, unless it came
\* through a page whose server had moved on.
THEOREM MapViewLayoutsStay == Spec => []LayoutsStayWithTheirMap
<1>1. Spec => []IInv
  BY InitIInv, NextIInv, PTL DEF Spec
<1> QED
  BY <1>1, IInvLayouts, PTL

\* What a page opens is a node of the map it shows, under the name it asked
\* for, whatever its server has loaded since.
THEOREM MapViewConnects == Spec => []ConnectsToWhatIsShown
<1>1. Spec => []IInv
  BY InitIInv, NextIInv, PTL DEF Spec
<1>2. IInv => ConnectsToWhatIsShown
  BY DEF IInv
<1> QED
  BY <1>1, <1>2, PTL
-----------------------------------------------------------------------------
(* The whole map is there *)

\* A file has one name.
OneName == \A m, n \in FileNames : dir[m] = dir[n] /\ dir[m] # Nothing => m = n

\* A crawl that has yet to write has created no file and met nobody.
Fresh ==
    \A c \in Crawls : crawl[c].at = "crawling" =>
        ~crawl[c].shared /\ \A n \in FileNames : dir[n] # c

\* Two crawls that write to one path at once are known to have done so.
SharedKnown ==
    \A c, d \in Crawls :
        c # d /\ PathOf[c] = PathOf[d] /\ Writing(c) /\ Writing(d) => crawl[c].shared

\* Undisturbed, a crawl writes to the file its temporary name leads to.
Undisturbed ==
    \A c \in Crawls : Writing(c) /\ ~Disturbed(PathOf[c]) =>
        /\ dir[Tmp(c)] = crawl[c].file
        /\ bytes[crawl[c].file] = IF crawl[c].at = "opened" THEN Empty ELSE c

FInv ==
    /\ latest \in [Paths -> Crawls \cup {Nothing}]
    /\ OneName /\ Fresh /\ SharedKnown /\ Undisturbed /\ WholeMapIsThere

LEMMA PathsAndNames ==
    ASSUME NEW p \in Paths
    PROVE  /\ <<p, "map">> \in FileNames /\ <<p, "map">>[1] = p
           /\ \E c \in Crawls : p = PathOf[c]
BY DEF FileNames, Paths

\* The file of a name was created for the path of that name.
LEMMA FileOfName ==
    ASSUME IInv, NEW n \in FileNames, dir[n] # Nothing
    PROVE  dir[n] \in Crawls /\ PathOf[dir[n]] = n[1]
BY DEF IInv, FilesType, FilesApart

LEMMA FileOfCrawl ==
    ASSUME IInv, NEW c \in Crawls
    PROVE  /\ crawl[c].file \in Crawls /\ PathOf[crawl[c].file] = PathOf[c]
           /\ crawl[c].shared \in BOOLEAN
BY DEF IInv, FilesType, FilesApart

\* What disturbed a path once is remembered.
LEMMA StillDisturbed ==
    ASSUME NEW p \in Paths, Disturbed(p),
           \A d \in Crawls : /\ crawl[d].shared => crawl'[d].shared
                             /\ crawl[d].at # "crawling" => crawl'[d].at # "crawling"
    PROVE  Disturbed(p)'
BY DEF Disturbed

\* Where nothing was disturbed, no second crawl is writing.
LEMMA WritesAlone ==
    ASSUME FInv, NEW c \in Crawls, NEW d \in Crawls, Writing(c), Writing(d), c # d,
           ~Disturbed(PathOf[c])
    PROVE  PathOf[d] # PathOf[c]
BY DEF FInv, SharedKnown, Disturbed

LEMMA OpenMapKeeps == ASSUME IInv, FInv, NEW c \in Crawls, OpenMap(c) PROVE FInv'
<1> DEFINE n == WrittenTo(c)
           f == IF dir[n] = Nothing THEN c ELSE dir[n]
           others == {d \in Crawls : Writing(d) /\ PathOf[d] = PathOf[c]}
<1>1. /\ crawl[c].at = "crawling"
      /\ dir' = [dir EXCEPT ![n] = f]
      /\ bytes' = [bytes EXCEPT ![f] = Empty]
      /\ crawl' = [d \in Crawls |->
                IF d = c THEN [at |-> "opened", file |-> f, shared |-> others # {}]
                ELSE [crawl[d] EXCEPT !.shared = @ \/ d \in others]]
      /\ latest' = latest
  BY DEF OpenMap
<1>2. n \in FileNames /\ n[1] = PathOf[c] /\ n = (IF c \in InPlace THEN <<PathOf[c], "map">> ELSE Tmp(c))
  BY NamesOf DEF WrittenTo, Tmp
<1>3. dir \in [FileNames -> Crawls \cup {Nothing}] /\ bytes \in [Crawls -> Crawls \cup {Empty, Mixed}]
      /\ crawl \in [Crawls -> [at : {"crawling", "opened", "written", "done", "failed"},
                               file : Crawls, shared : BOOLEAN]]
  BY DEF IInv, FilesType
<1>4. \A d \in Crawls : d \in others <=> Writing(d) /\ PathOf[d] = PathOf[c]
  OBVIOUS
<1> HIDE DEF n
<1>5. f \in Crawls /\ PathOf[f] = PathOf[c]
  BY <1>2, FileOfName
<1>6. dir[n] = f \/ (dir[n] = Nothing /\ f = c)
  OBVIOUS
<1> HIDE DEF f
<1>7. crawl'[c].at = "opened" /\ crawl'[c].file = f /\ crawl'[c].shared = (others # {})
  BY <1>1
<1>8. \A d \in Crawls : d # c => /\ crawl'[d].at = crawl[d].at /\ crawl'[d].file = crawl[d].file
                                 /\ crawl'[d].shared = (crawl[d].shared \/ d \in others)
  <2> SUFFICES ASSUME NEW d \in Crawls, d # c
               PROVE  /\ crawl'[d].at = crawl[d].at /\ crawl'[d].file = crawl[d].file
                      /\ crawl'[d].shared = (crawl[d].shared \/ d \in others)
    OBVIOUS
  <2>1. crawl'[d] = [crawl[d] EXCEPT !.shared = @ \/ d \in others]
    BY <1>1
  <2>2. crawl[d] \in [at : {"crawling", "opened", "written", "done", "failed"},
                      file : Crawls, shared : BOOLEAN]
    BY <1>3
  <2> HIDE DEF others
  <2> QED
    BY <2>1, <2>2
<1> HIDE DEF others
<1>9. \A p \in Paths : ~Disturbed(p)' => ~Disturbed(p)
  <2> SUFFICES ASSUME NEW p \in Paths, Disturbed(p), ~Disturbed(p)' PROVE FALSE
    OBVIOUS
  <2>1. PICK d \in Crawls : PathOf[d] = p
                            /\ (crawl[d].shared \/ (d \in InPlace /\ crawl[d].at # "crawling"))
    BY DEF Disturbed
  <2>2. CASE d # c
    BY <1>8, <2>1, <2>2 DEF Disturbed
  <2>3. CASE d = c
    BY <1>1, <2>1, <2>3 DEF FInv, Fresh
  <2> QED
    BY <2>2, <2>3
<1>10. /\ \A m \in FileNames : dir'[m] = IF m = n THEN f ELSE dir[m]
       /\ \A b \in Crawls : bytes'[b] = IF b = f THEN Empty ELSE bytes[b]
  BY <1>1, <1>3
\* The file is of no other name.
<1>11. \A m \in FileNames : m # n /\ dir[m] # Nothing => dir[m] # f
  BY <1>1, <1>2, <1>5, <1>6, NamesOf DEF FInv, OneName, Fresh
<1>12. OneName'
  <2> SUFFICES ASSUME NEW m \in FileNames, NEW k \in FileNames, dir'[m] = dir'[k], dir'[m] # Nothing
               PROVE  m = k
    BY DEF OneName
  <2> QED
    BY <1>10, <1>11 DEF FInv, OneName
<1>13. Fresh'
  <2> SUFFICES ASSUME NEW d \in Crawls, crawl'[d].at = "crawling"
               PROVE  ~crawl'[d].shared /\ \A m \in FileNames : dir'[m] # d
    BY DEF Fresh
  <2>1. d # c /\ crawl[d].at = "crawling" /\ d \notin others
    BY <1>4, <1>7, <1>8 DEF Writing
  <2>2. ~crawl[d].shared /\ \A m \in FileNames : dir[m] # d
    BY <2>1 DEF FInv, Fresh
  <2> QED
    BY <1>2, <1>6, <1>8, <1>10, <2>1, <2>2
<1>14. SharedKnown'
  <2> SUFFICES ASSUME NEW d \in Crawls, NEW e \in Crawls, d # e, PathOf[d] = PathOf[e],
                      Writing(d)', Writing(e)'
               PROVE  crawl'[d].shared
    BY DEF SharedKnown
  <2>1. d # c => Writing(d)
    BY <1>8 DEF Writing
  <2>2. e # c => Writing(e)
    BY <1>8 DEF Writing
  <2>3. CASE d = c
    BY <1>4, <1>7, <2>2, <2>3
  <2>4. CASE e = c
    BY <1>4, <1>8, <2>1, <2>4
  <2>5. CASE d # c /\ e # c
    BY <1>8, <2>1, <2>2, <2>5 DEF FInv, SharedKnown
  <2> QED
    BY <2>3, <2>4, <2>5
<1>15. ~Disturbed(PathOf[c])' => c \notin InPlace /\ n = Tmp(c)
  BY <1>2, <1>7 DEF Disturbed
<1>16. Undisturbed'
  <2> SUFFICES ASSUME NEW d \in Crawls, Writing(d)', ~Disturbed(PathOf[d])'
               PROVE  /\ dir'[Tmp(d)] = crawl'[d].file
                      /\ bytes'[crawl'[d].file] = IF crawl'[d].at = "opened" THEN Empty ELSE d
    BY DEF Undisturbed, Tmp
  <2>1. CASE d = c
    BY <1>2, <1>5, <1>7, <1>10, <1>15, <2>1
  <2>2. CASE d # c
    <3>1. Writing(d) /\ ~Disturbed(PathOf[d])
      BY <1>8, <1>9, <2>2, NamesOf DEF Writing
    <3>2. PathOf[d] # PathOf[c]
      BY <1>4, <1>8, <2>2, <3>1 DEF Disturbed
    <3>3. Tmp(d) \in FileNames /\ Tmp(d) # n
      BY <1>2, <3>2, NamesOf DEF Tmp
    <3>4. crawl[d].file \in Crawls /\ crawl[d].file # f
      BY <1>5, <3>2, FileOfCrawl
    <3>5. /\ dir[Tmp(d)] = crawl[d].file
          /\ bytes[crawl[d].file] = IF crawl[d].at = "opened" THEN Empty ELSE d
      BY <3>1 DEF FInv, Undisturbed
    <3> QED
      BY <1>8, <1>10, <2>2, <3>3, <3>4, <3>5
  <2> QED
    BY <2>1, <2>2
<1>17. WholeMapIsThere'
  <2> SUFFICES ASSUME NEW p \in Paths, ~Disturbed(p)'
               PROVE  IF dir'[<<p, "map">>] = Nothing THEN latest'[p] = Nothing
                      ELSE bytes'[dir'[<<p, "map">>]] = latest'[p]
    BY DEF WholeMapIsThere
  <2> DEFINE m == <<p, "map">>
  <2>1. m \in FileNames /\ m[1] = p
    BY PathsAndNames
  <2>2. m # n
    BY <1>2, <1>15, <2>1 DEF Tmp
  <2>3. IF dir[m] = Nothing THEN latest[p] = Nothing ELSE bytes[dir[m]] = latest[p]
    BY <1>9 DEF FInv, WholeMapIsThere
  <2> HIDE DEF m
  <2>4. dir'[m] = dir[m] /\ (dir[m] # Nothing => bytes'[dir[m]] = bytes[dir[m]])
    BY <1>10, <1>11, <2>1, <2>2, FileOfName
  <2>5. IF dir'[m] = Nothing THEN latest'[p] = Nothing ELSE bytes'[dir'[m]] = latest'[p]
    BY <1>1, <2>3, <2>4
  <2> QED
    BY <2>5 DEF m
<1> QED
  BY <1>1, <1>12, <1>13, <1>14, <1>16, <1>17 DEF FInv

\* A crawl that is writing goes on or ends; files are renamed or removed.
LEMMA MoveKeeps ==
    ASSUME IInv, FInv, NEW c \in Crawls, Writing(c),
           NEW at \in {"written", "done", "failed"}, NEW f \in Crawls,
           crawl' = [crawl EXCEPT ![c].at = at, ![c].file = f],
           \A m \in FileNames : dir'[m] = Nothing \/ \E k \in FileNames : dir'[m] = dir[k]
    PROVE  /\ crawl'[c].at = at /\ crawl'[c].file = f
           /\ \A d \in Crawls : d # c => crawl'[d] = crawl[d]
           /\ \A d \in Crawls : Writing(d)' => Writing(d)
           /\ \A p \in Paths : ~Disturbed(p)' => ~Disturbed(p)
           /\ Fresh' /\ SharedKnown'
<1>1. /\ crawl'[c].at = at /\ crawl'[c].file = f /\ crawl'[c].shared = crawl[c].shared
      /\ \A d \in Crawls : d # c => crawl'[d] = crawl[d]
  <2>1. crawl \in [Crawls -> [at : {"crawling", "opened", "written", "done", "failed"},
                              file : Crawls, shared : BOOLEAN]]
    BY DEF IInv, FilesType
  <2> QED
    BY <2>1
<1>2. \A d \in Crawls : Writing(d)' => Writing(d)
  BY <1>1 DEF Writing
<1>3. \A d \in Crawls : /\ crawl'[d].shared = crawl[d].shared
                        /\ crawl[d].at # "crawling" <=> crawl'[d].at # "crawling"
  BY <1>1 DEF Writing
<1>4. \A p \in Paths : ~Disturbed(p)' => ~Disturbed(p)
  BY <1>3 DEF Disturbed
<1>5. Fresh'
  <2> SUFFICES ASSUME NEW d \in Crawls, crawl'[d].at = "crawling"
               PROVE  ~crawl'[d].shared /\ \A m \in FileNames : dir'[m] # d
    BY DEF Fresh
  <2>1. ~crawl[d].shared /\ \A m \in FileNames : dir[m] # d
    BY <1>3 DEF FInv, Fresh
  <2>2. d # Nothing
    BY NamesOf
  <2>3. ASSUME NEW m \in FileNames PROVE dir'[m] # d
    BY <2>1, <2>2
  <2> QED
    BY <1>3, <2>1, <2>3
<1>6. SharedKnown'
  BY <1>2, <1>3 DEF FInv, SharedKnown
<1> QED
  BY <1>1, <1>2, <1>4, <1>5, <1>6

LEMMA WriteKeeps ==
    ASSUME IInv, FInv, NEW c \in Crawls, WriteMap(c) \/ WriteMapFails(c)
    PROVE  FInv'
<1> DEFINE f == crawl[c].file
<1>1. crawl[c].at = "opened" /\ dir' = dir /\ latest' = latest /\ Writing(c)
  BY DEF WriteMap, WriteMapFails, Writing
<1>2. PICK b \in Crawls \cup {Mixed} : /\ bytes' = [bytes EXCEPT ![f] = b]
                                       /\ WriteMap(c) /\ bytes[f] = Empty => b = c
  <2>1. CASE WriteMap(c)
    <3>1. PICK b \in IF bytes[f] = Empty THEN {c} ELSE {c, Mixed} : bytes' = [bytes EXCEPT ![f] = b]
      BY <2>1 DEF WriteMap
    <3> QED
      BY <3>1
  <2>2. CASE WriteMapFails(c)
    <3>1. bytes' = [bytes EXCEPT ![f] = Mixed] /\ ~WriteMap(c)
      <4>1. bytes' = [bytes EXCEPT ![f] = Mixed] /\ crawl'[c].at = "failed"
        BY <2>2 DEF WriteMapFails, Ends, IInv, FilesType
      <4>2. WriteMap(c) => crawl'[c].at = "written"
        BY DEF WriteMap, IInv, FilesType
      <4> QED
        BY <4>1, <4>2
    <3> QED
      BY <3>1
  <2> QED
    BY <2>1, <2>2
<1>3. f \in Crawls /\ PathOf[f] = PathOf[c]
  BY FileOfCrawl
<1>4. /\ crawl'[c].at = "written" => WriteMap(c) /\ crawl'[c].file = f
      /\ crawl'[c].at # "opened"
      /\ \A d \in Crawls : d # c => crawl'[d] = crawl[d]
      /\ \A d \in Crawls : Writing(d)' => Writing(d)
      /\ \A p \in Paths : ~Disturbed(p)' => ~Disturbed(p)
      /\ Fresh' /\ SharedKnown'
  <2>1. \A m \in FileNames : dir'[m] = Nothing \/ \E k \in FileNames : dir'[m] = dir[k]
    BY <1>1
  <2>2. CASE WriteMap(c)
    <3>1. crawl' = [crawl EXCEPT ![c].at = "written", ![c].file = f]
      BY <2>2 DEF WriteMap, IInv, FilesType
    <3> HIDE DEF f
    <3> QED
      BY <1>1, <1>3, <2>1, <2>2, <3>1, MoveKeeps
  <2>3. CASE WriteMapFails(c)
    <3>1. crawl' = [crawl EXCEPT ![c].at = "failed", ![c].file = c]
      BY <2>3 DEF WriteMapFails, Ends
    <3> QED
      BY <1>1, <2>1, <3>1, MoveKeeps
  <2> QED
    BY <2>2, <2>3
<1>5. \A e \in Crawls : bytes'[e] = IF e = f THEN b ELSE bytes[e]
  BY <1>2, <1>3 DEF IInv, FilesType
<1>6. ~Disturbed(PathOf[c]) => dir[Tmp(c)] = f /\ bytes[f] = Empty
  BY <1>1 DEF FInv, Undisturbed
<1> HIDE DEF f
<1>7. Undisturbed'
  <2> SUFFICES ASSUME NEW d \in Crawls, Writing(d)', ~Disturbed(PathOf[d])'
               PROVE  /\ dir'[Tmp(d)] = crawl'[d].file
                      /\ bytes'[crawl'[d].file] = IF crawl'[d].at = "opened" THEN Empty ELSE d
    BY DEF Undisturbed, Tmp
  <2>1. Writing(d) /\ ~Disturbed(PathOf[d])
    BY <1>4, NamesOf
  <2>2. CASE d = c
    <3>1. crawl'[c].at = "written"
      BY <1>4, <2>2 DEF Writing
    <3> QED
      BY <1>1, <1>2, <1>3, <1>4, <1>5, <1>6, <2>1, <2>2, <3>1
  <2>3. CASE d # c
    <3>1. PathOf[c] # PathOf[d]
      BY <1>1, <2>1, <2>3, WritesAlone
    <3>2. crawl[d].file \in Crawls /\ crawl[d].file # f
      BY <1>3, <3>1, FileOfCrawl
    <3>3. /\ dir[Tmp(d)] = crawl[d].file
          /\ bytes[crawl[d].file] = IF crawl[d].at = "opened" THEN Empty ELSE d
      BY <2>1 DEF FInv, Undisturbed
    <3> QED
      BY <1>1, <1>4, <1>5, <2>3, <3>2, <3>3
  <2> QED
    BY <2>2, <2>3
<1>8. WholeMapIsThere'
  <2> SUFFICES ASSUME NEW p \in Paths, ~Disturbed(p)'
               PROVE  IF dir'[<<p, "map">>] = Nothing THEN latest'[p] = Nothing
                      ELSE bytes'[dir'[<<p, "map">>]] = latest'[p]
    BY DEF WholeMapIsThere
  <2> DEFINE m == <<p, "map">>
  <2>1. m \in FileNames /\ m[1] = p
    BY PathsAndNames
  <2>2. ~Disturbed(p)
    BY <1>4
  <2>3. IF dir[m] = Nothing THEN latest[p] = Nothing ELSE bytes[dir[m]] = latest[p]
    BY <2>2 DEF FInv, WholeMapIsThere
  <2>4. Tmp(c) \in FileNames /\ m # Tmp(c)
    BY NamesOf DEF Tmp
  <2> HIDE DEF m
  <2>5. dir[m] # Nothing => dir[m] \in Crawls /\ dir[m] # f
    BY <1>3, <1>6, <2>1, <2>2, <2>4, FileOfName DEF FInv, OneName
  <2>6. IF dir'[m] = Nothing THEN latest'[p] = Nothing ELSE bytes'[dir'[m]] = latest'[p]
    BY <1>1, <1>5, <2>3, <2>5
  <2> QED
    BY <2>6 DEF m
<1>9. OneName'
  BY <1>1 DEF FInv, OneName
<1> QED
  BY <1>1, <1>4, <1>7, <1>8, <1>9 DEF FInv

LEMMA EndKeeps ==
    ASSUME IInv, FInv, NEW c \in Crawls, PublishFails(c) \/ CrawlDies(c)
    PROVE  FInv'
<1>1. /\ Writing(c) /\ crawl' = [crawl EXCEPT ![c].at = "failed", ![c].file = c]
      /\ dir' = dir /\ bytes' = bytes /\ latest' = latest
  BY DEF PublishFails, CrawlDies, Ends, Writing
<1>2. /\ crawl'[c].at = "failed"
      /\ \A d \in Crawls : d # c => crawl'[d] = crawl[d]
      /\ \A d \in Crawls : Writing(d)' => Writing(d)
      /\ \A p \in Paths : ~Disturbed(p)' => ~Disturbed(p)
      /\ Fresh' /\ SharedKnown'
  BY <1>1, MoveKeeps
<1>3. Undisturbed'
  <2> SUFFICES ASSUME NEW d \in Crawls, Writing(d)', ~Disturbed(PathOf[d])'
               PROVE  /\ dir'[Tmp(d)] = crawl'[d].file
                      /\ bytes'[crawl'[d].file] = IF crawl'[d].at = "opened" THEN Empty ELSE d
    BY DEF Undisturbed, Tmp
  <2>1. d # c
    BY <1>2 DEF Writing
  <2>2. Writing(d) /\ ~Disturbed(PathOf[d])
    BY <1>2, NamesOf
  <2> QED
    BY <1>1, <1>2, <2>1, <2>2 DEF FInv, Undisturbed
<1>4. WholeMapIsThere'
  BY <1>1, <1>2 DEF FInv, WholeMapIsThere
<1>5. OneName'
  BY <1>1 DEF FInv, OneName
<1> QED
  BY <1>1, <1>2, <1>3, <1>4, <1>5 DEF FInv

LEMMA PublishKeeps == ASSUME IInv, FInv, NEW c \in Crawls, Publish(c) PROVE FInv'
<1> DEFINE m == <<PathOf[c], "map">>
           k == Tmp(c)
<1>1. /\ crawl[c].at = "written" /\ Writing(c)
      /\ crawl' = [crawl EXCEPT ![c].at = "done", ![c].file = c]
      /\ bytes' = bytes /\ latest' = [latest EXCEPT ![PathOf[c]] = c]
  BY DEF Publish, Ends, Writing
<1>2. /\ c \in InPlace => dir' = dir
      /\ c \notin InPlace => dir[k] # Nothing /\ dir' = [dir EXCEPT ![m] = dir[k], ![k] = Nothing]
  BY DEF Publish
<1>3. m \in FileNames /\ k \in FileNames /\ m # k /\ m[1] = PathOf[c] /\ k[1] = PathOf[c]
  BY NamesOf DEF Tmp
<1>4. dir \in [FileNames -> Crawls \cup {Nothing}]
  BY DEF IInv, FilesType
<1> HIDE DEF m, k
<1>5. c \notin InPlace => \A n \in FileNames : dir'[n] = IF n = k THEN Nothing
                                                     ELSE IF n = m THEN dir[k] ELSE dir[n]
  BY <1>2, <1>3, <1>4
<1>6. \A n \in FileNames : dir'[n] = Nothing \/ \E i \in FileNames : dir'[n] = dir[i]
  BY <1>2, <1>3, <1>5
<1>7. /\ crawl'[c].at = "done"
      /\ \A d \in Crawls : d # c => crawl'[d] = crawl[d]
      /\ \A d \in Crawls : Writing(d)' => Writing(d)
      /\ \A p \in Paths : ~Disturbed(p)' => ~Disturbed(p)
      /\ Fresh' /\ SharedKnown'
  BY <1>1, <1>6, MoveKeeps
<1>8. OneName'
  <2>1. CASE c \in InPlace
    BY <1>2, <2>1 DEF FInv, OneName
  <2>2. CASE c \notin InPlace
    <3> SUFFICES ASSUME NEW n \in FileNames, NEW i \in FileNames, dir'[n] = dir'[i], dir'[n] # Nothing
                 PROVE  n = i
      BY DEF OneName
    <3> QED
      BY <1>3, <1>5, <2>2 DEF FInv, OneName
  <2> QED
    BY <2>1, <2>2
<1>9. \A n \in FileNames : n[1] # PathOf[c] => dir'[n] = dir[n]
  BY <1>2, <1>3, <1>5
<1>10. Undisturbed'
  <2> SUFFICES ASSUME NEW d \in Crawls, Writing(d)', ~Disturbed(PathOf[d])'
               PROVE  /\ dir'[Tmp(d)] = crawl'[d].file
                      /\ bytes'[crawl'[d].file] = IF crawl'[d].at = "opened" THEN Empty ELSE d
    BY DEF Undisturbed, Tmp
  <2>1. d # c
    BY <1>7 DEF Writing
  <2>2. Writing(d) /\ ~Disturbed(PathOf[d])
    BY <1>7, NamesOf
  <2>3. PathOf[c] # PathOf[d]
    BY <1>1, <2>1, <2>2, WritesAlone
  <2>4. Tmp(d) \in FileNames /\ Tmp(d)[1] = PathOf[d]
    BY NamesOf DEF Tmp
  <2>5. /\ dir[Tmp(d)] = crawl[d].file
        /\ bytes[crawl[d].file] = IF crawl[d].at = "opened" THEN Empty ELSE d
    BY <2>2 DEF FInv, Undisturbed
  <2> QED
    BY <1>1, <1>7, <1>9, <2>1, <2>3, <2>4, <2>5
<1>11. latest' \in [Paths -> Crawls \cup {Nothing}]
       /\ \A p \in Paths : latest'[p] = IF p = PathOf[c] THEN c ELSE latest[p]
  BY <1>1, NamesOf DEF FInv
<1>12. WholeMapIsThere'
  <2> SUFFICES ASSUME NEW p \in Paths, ~Disturbed(p)'
               PROVE  IF dir'[<<p, "map">>] = Nothing THEN latest'[p] = Nothing
                      ELSE bytes'[dir'[<<p, "map">>]] = latest'[p]
    BY DEF WholeMapIsThere
  <2>1. ~Disturbed(p)
    BY <1>7
  <2>2. CASE p = PathOf[c]
    <3>1. c \notin InPlace
      BY <1>1, <2>1, <2>2 DEF Disturbed
    <3>2. dir[k] = crawl[c].file /\ bytes[crawl[c].file] = c
      BY <1>1, <2>1, <2>2 DEF FInv, Undisturbed, k
    <3>3. dir'[m] = dir[k] /\ dir[k] # Nothing
      BY <1>2, <1>3, <1>5, <3>1
    <3> QED
      BY <1>1, <1>11, <2>2, <3>2, <3>3 DEF m
  <2>3. CASE p # PathOf[c]
    <3>1. dir'[<<p, "map">>] = dir[<<p, "map">>]
      BY <1>9, <2>3, PathsAndNames
    <3> QED
      BY <1>1, <1>11, <2>1, <2>3, <3>1 DEF FInv, WholeMapIsThere
  <2> QED
    BY <2>2, <2>3
<1> QED
  BY <1>7, <1>8, <1>10, <1>11, <1>12 DEF FInv

LEMMA InitFInv == Init => FInv
<1> SUFFICES ASSUME Init PROVE FInv
  OBVIOUS
<1>1. /\ \A n \in FileNames : dir[n] = Nothing
      /\ \A c \in Crawls : crawl[c].at = "crawling" /\ ~crawl[c].shared /\ ~Writing(c)
      /\ latest = [p \in Paths |-> Nothing]
  BY DEF Init, NoCrawl, Writing
<1>2. OneName /\ Fresh /\ SharedKnown /\ Undisturbed
  BY <1>1, NamesOf DEF OneName, Fresh, SharedKnown, Undisturbed
<1>3. WholeMapIsThere
  BY <1>1, PathsAndNames DEF WholeMapIsThere
<1> QED
  BY <1>1, <1>2, <1>3 DEF FInv

LEMMA FilesKept == ASSUME FInv, UNCHANGED files PROVE FInv'
<1>1. dir' = dir /\ bytes' = bytes /\ crawl' = crawl /\ latest' = latest
  BY DEF files
<1> QED
  BY <1>1 DEF FInv, OneName, Fresh, SharedKnown, Undisturbed, WholeMapIsThere, Writing, Disturbed, Tmp

\* Nothing but a crawl touches the files.
LEMMA OthersKeepFiles ==
    ASSUME [Next]_vars,
           ~\E c \in Crawls : \/ OpenMap(c) \/ WriteMap(c) \/ WriteMapFails(c)
                              \/ Publish(c) \/ PublishFails(c) \/ CrawlDies(c)
    PROVE  UNCHANGED files
BY DEF Next, vars, Call, ReadMap, SetMap, LoadEnds, LoadFails, Close, ViewerDies, GetMap,
       GetLayout, AskLayout, SaveLayout, CommitLayout, ClearLayout, Connect

LEMMA NextFInv == IInv /\ FInv /\ [Next]_vars => FInv'
<1> SUFFICES ASSUME IInv, FInv, [Next]_vars PROVE FInv'
  OBVIOUS
<1>1. ASSUME NEW c \in Crawls,
             OpenMap(c) \/ WriteMap(c) \/ WriteMapFails(c) \/ Publish(c) \/ PublishFails(c) \/ CrawlDies(c)
      PROVE  FInv'
  BY <1>1, OpenMapKeeps, WriteKeeps, PublishKeeps, EndKeeps
<1> QED
  BY <1>1, OthersKeepFiles, FilesKept

LEMMA InvTypeOK == IInv /\ FInv => TypeOK
BY DEF IInv, FInv, TypeOK, FilesType, Loads, Served, ViewerRec, PagesShow, PageRec, Saved, Written

\* However crawls write, fail, die and follow each other, a reader of a map
\* that no two crawls wrote at once, and none in place, finds the whole map of
\* the crawl that last reported it written.
THEOREM MapViewLastDone == Spec => []LastDoneIsThere
<1>1. Spec => []IInv
  BY InitIInv, NextIInv, PTL DEF Spec
<1>2. Spec => []FInv
  BY <1>1, InitFInv, NextFInv, PTL DEF Spec
<1>3. IInv /\ FInv => LastDoneIsThere
  BY InvTypeOK DEF FInv, LastDoneIsThere
<1> QED
  BY <1>1, <1>2, <1>3, PTL

-----------------------------------------------------------------------------
(* One map per viewer *)

\* The viewer's process loads from one thread.
OneCaller == \A s, t \in Threads : s = t

\* A load that has set the map has yet to name it; any other server names
\* what it serves.
Named ==
    /\ \A t \in Threads : call[t].at = "set" =>
           /\ viewer[call[t].viewer].data \in Crawls
           /\ PathOf[viewer[call[t].viewer].data] = call[t].path
           /\ viewer[call[t].viewer].layout = call[t].path
    /\ OneMapPerViewer

\* A step that leaves each server's map and path, opens none, and leaves the
\* loads that have set theirs.
LEMMA NamedStays ==
    ASSUME Named, Loads,
           \A v \in Viewers : /\ viewer'[v].data = viewer[v].data
                              /\ viewer'[v].layout = viewer[v].layout
                              /\ viewer'[v].path = viewer[v].path
                              /\ viewer'[v].state = "open" => viewer[v].state = "open",
           \A t \in Threads : call'[t].at = "set" <=> call[t].at = "set",
           \A t \in Threads : call[t].at = "set" => call'[t] = call[t]
    PROVE  Named'
<1>1. \A t \in Threads : call[t].at = "set" => call[t].viewer \in Viewers
  BY DEF Loads, Bringing
<1>2. ASSUME NEW t \in Threads, call'[t].at = "set"
      PROVE  /\ viewer'[call'[t].viewer].data \in Crawls
             /\ PathOf[viewer'[call'[t].viewer].data] = call'[t].path
             /\ viewer'[call'[t].viewer].layout = call'[t].path
  <2>1. call[t].at = "set" /\ call'[t] = call[t] /\ call[t].viewer \in Viewers
    BY <1>1, <1>2
  <2> QED
    BY <2>1 DEF Named
<1>3. ASSUME NEW v \in Viewers, viewer'[v].state = "open",
             \A t \in Threads : call'[t].viewer = v => call'[t].at # "set"
      PROVE  /\ viewer'[v].data \in Crawls
             /\ PathOf[viewer'[v].data] = viewer'[v].path
             /\ viewer'[v].layout = viewer'[v].path
  <2>1. \A t \in Threads : call[t].viewer = v => call[t].at # "set"
    BY <1>3
  <2> QED
    BY <1>3, <2>1 DEF Named, OneMapPerViewer
<1> QED
  BY <1>2, <1>3 DEF Named, OneMapPerViewer

LEMMA SetMapNames == ASSUME OneCaller, IInv, Named, NEW t \in Threads, SetMap(t) PROVE Named'
<1> DEFINE v == call[t].viewer
           b == call[t].data
           p == call[t].path
<1>1. /\ call[t].at = "read" /\ b \in Crawls
      /\ viewer' = [viewer EXCEPT ![v] = [viewer[v] EXCEPT !.data = b, !.gen = @ + 1, !.layout = p]]
      /\ call' = [call EXCEPT ![t].at = "set"]
  BY DEF SetMap, Parses, Loaded
<1>2. call[t] \in CallRec /\ DOMAIN call = Threads /\ v \in Viewers /\ PathOf[b] = p
  BY <1>1 DEF IInv, Loads, Bringing, CallRec
<1>3. viewer \in [Viewers -> ViewerRec] /\ viewer[v] \in ViewerRec
  BY <1>2 DEF IInv, Served
<1>4. call'[t].at = "set" /\ call'[t].viewer = v /\ call'[t].path = p
  BY <1>1, <1>2 DEF CallRec
<1>5. viewer'[v].data = b /\ viewer'[v].layout = p
  BY <1>1, <1>2, <1>3 DEF ViewerRec
<1>6. \A u \in Viewers : u # v => viewer'[u] = viewer[u]
  BY <1>1, <1>3
<1>7. \A s \in Threads : s = t
  BY DEF OneCaller
<1> HIDE DEF v, b, p
<1>8. ASSUME NEW u \in Viewers, viewer'[u].state = "open",
             \A s \in Threads : call'[s].viewer = u => call'[s].at # "set"
      PROVE  /\ viewer'[u].data \in Crawls
             /\ PathOf[viewer'[u].data] = viewer'[u].path
             /\ viewer'[u].layout = viewer'[u].path
  <2>1. u # v
    BY <1>4, <1>8
  <2>2. \A s \in Threads : call[s].viewer = u => call[s].at # "set"
    BY <1>1, <1>7
  <2> QED
    BY <1>6, <1>8, <2>1, <2>2 DEF Named, OneMapPerViewer
<1> QED
  BY <1>1, <1>2, <1>4, <1>5, <1>7, <1>8 DEF Named, OneMapPerViewer

LEMMA LoadEndNames == ASSUME OneCaller, IInv, Named, NEW t \in Threads, LoadEnds(t) PROVE Named'
<1> DEFINE v == call[t].viewer
           p == call[t].path
<1>1. /\ call[t].at = "set"
      /\ viewer' = [viewer EXCEPT ![v].path = p, ![v].state = IF @ = "opening" THEN "open" ELSE @]
      /\ call' = [call EXCEPT ![t] = NoCall]
  BY DEF LoadEnds, Idle
<1>2. v \in Viewers /\ DOMAIN call = Threads
  BY <1>1 DEF IInv, Loads, Bringing
<1>3. viewer \in [Viewers -> ViewerRec] /\ viewer[v] \in ViewerRec
  BY <1>2 DEF IInv, Served
<1>4. viewer[v].data \in Crawls /\ PathOf[viewer[v].data] = p /\ viewer[v].layout = p
  BY <1>1 DEF Named
<1>5. \A s \in Threads : call'[s].at = "idle" /\ s = t
  BY <1>1, <1>2 DEF OneCaller, NoCall
<1>6. viewer'[v].data = viewer[v].data /\ viewer'[v].layout = viewer[v].layout /\ viewer'[v].path = p
  BY <1>1, <1>2, <1>3 DEF ViewerRec
<1>7. \A u \in Viewers : u # v => viewer'[u] = viewer[u]
  BY <1>1, <1>3
<1>8. ASSUME NEW u \in Viewers, viewer'[u].state = "open"
      PROVE  /\ viewer'[u].data \in Crawls
             /\ PathOf[viewer'[u].data] = viewer'[u].path
             /\ viewer'[u].layout = viewer'[u].path
  <2>1. CASE u = v
    BY <1>4, <1>6, <2>1
  <2>2. CASE u # v
    <3>1. \A s \in Threads : call[s].viewer # u
      BY <1>5, <2>2
    <3> QED
      BY <1>7, <1>8, <2>2, <3>1 DEF Named, OneMapPerViewer
  <2> QED
    BY <2>1, <2>2
<1> QED
  BY <1>5, <1>8 DEF Named, OneMapPerViewer

\* A load that is refused, and the calls of a process that dies, had set
\* nothing or leave no window open.
LEMMA EndNames ==
    ASSUME IInv, Named, NEW v \in Viewers,
           \A u \in Viewers : /\ viewer'[u].data = viewer[u].data
                              /\ viewer'[u].layout = viewer[u].layout
                              /\ viewer'[u].path = viewer[u].path
                              /\ viewer'[u].state = "open" => viewer[u].state = "open" /\ u # v,
           \A t \in Threads : call'[t] = call[t] \/ (call[t].viewer = v /\ call'[t] = NoCall)
    PROVE  Named'
<1>1. ASSUME NEW t \in Threads, call'[t].at = "set"
      PROVE  /\ viewer'[call'[t].viewer].data \in Crawls
             /\ PathOf[viewer'[call'[t].viewer].data] = call'[t].path
             /\ viewer'[call'[t].viewer].layout = call'[t].path
  <2>1. call'[t] = call[t] /\ call[t].viewer \in Viewers
    BY <1>1 DEF NoCall, IInv, Loads, Bringing
  <2> QED
    BY <1>1, <2>1 DEF Named
<1>2. ASSUME NEW u \in Viewers, viewer'[u].state = "open",
             \A t \in Threads : call'[t].viewer = u => call'[t].at # "set"
      PROVE  /\ viewer'[u].data \in Crawls
             /\ PathOf[viewer'[u].data] = viewer'[u].path
             /\ viewer'[u].layout = viewer'[u].path
  <2>1. \A t \in Threads : call[t].viewer = u => call[t].at # "set"
    BY <1>2
  <2> QED
    BY <1>2, <2>1 DEF Named, OneMapPerViewer
<1> QED
  BY <1>1, <1>2 DEF Named, OneMapPerViewer

LEMMA NextNamed == ASSUME OneCaller, IInv, Named, [Next]_vars PROVE Named'
<1>1. viewer \in [Viewers -> ViewerRec] /\ call \in [Threads -> CallRec] /\ Loads
  BY DEF IInv, Served, Loads, CallRec
<1>2. ASSUME UNCHANGED <<viewer, call>> PROVE Named'
  BY <1>2 DEF Named, OneMapPerViewer
<1>3. ASSUME NEW c \in Crawls,
             OpenMap(c) \/ WriteMap(c) \/ WriteMapFails(c) \/ Publish(c) \/ PublishFails(c) \/ CrawlDies(c)
      PROVE  Named'
  BY <1>2, <1>3 DEF OpenMap, WriteMap, WriteMapFails, Publish, PublishFails, CrawlDies
<1>4. ASSUME NEW t \in Threads, NEW v \in Viewers, NEW p \in Paths, Call(t, v, p) PROVE Named'
  <2>1. /\ call[t].at = "idle"
        /\ viewer' = [viewer EXCEPT ![v].state = IF @ = "none" THEN "opening" ELSE @]
        /\ call' = [call EXCEPT ![t] = [at |-> "reading", viewer |-> v, path |-> p, data |-> Nothing]]
    BY <1>4 DEF Call
  <2>2. \A u \in Viewers : /\ viewer'[u].data = viewer[u].data
                           /\ viewer'[u].layout = viewer[u].layout
                           /\ viewer'[u].path = viewer[u].path
                           /\ viewer'[u].state = "open" => viewer[u].state = "open"
    BY <1>1, <2>1 DEF ViewerRec
  <2>3. \A s \in Threads : call'[s] = IF s = t THEN [at |-> "reading", viewer |-> v, path |-> p, data |-> Nothing]
                                      ELSE call[s]
    BY <1>1, <2>1
  <2>4. \A s \in Threads : /\ call'[s].at = "set" <=> call[s].at = "set"
                           /\ call[s].at = "set" => call'[s] = call[s]
    BY <2>1, <2>3
  <2> QED
    BY <1>1, <2>2, <2>4, NamedStays
<1>5. ASSUME NEW t \in Threads, ReadMap(t) PROVE Named'
  <2> DEFINE z == [call[t] EXCEPT !.at = "read", !.data = bytes[dir[<<call[t].path, "map">>]]]
  <2>1. call[t].at = "reading" /\ viewer' = viewer /\ call' = [call EXCEPT ![t] = z]
    BY <1>1, <1>5 DEF ReadMap
  <2>2. z.at = "read"
    BY <1>1 DEF CallRec
  <2> HIDE DEF z
  <2>3. \A s \in Threads : call'[s] = IF s = t THEN z ELSE call[s]
    BY <1>1, <2>1
  <2>4. \A s \in Threads : /\ call'[s].at = "set" <=> call[s].at = "set"
                           /\ call[s].at = "set" => call'[s] = call[s]
    BY <2>1, <2>2, <2>3
  <2> QED
    BY <1>1, <2>1, <2>4, NamedStays
<1>6. ASSUME NEW t \in Threads, LoadFails(t) PROVE Named'
  <2> DEFINE v == call[t].viewer
             y == [viewer[v] EXCEPT !.state = IF @ = "opening" THEN "closed" ELSE @]
  <2>1. /\ call[t].at \in {"reading", "read"} /\ viewer' = [viewer EXCEPT ![v] = y]
        /\ call' = [call EXCEPT ![t] = NoCall]
    BY <1>6 DEF LoadFails, AfterRefusal, Idle
  <2>2. v \in Viewers
    BY <1>1, <2>1 DEF Loads, Bringing
  <2>3. /\ y.data = viewer[v].data /\ y.layout = viewer[v].layout /\ y.path = viewer[v].path
        /\ y.state = "open" => viewer[v].state = "open"
    BY <1>1, <2>2 DEF ViewerRec
  <2> HIDE DEF y
  <2>4. \A u \in Viewers : viewer'[u] = IF u = v THEN y ELSE viewer[u]
    BY <1>1, <2>1, <2>2
  <2>5. \A u \in Viewers : /\ viewer'[u].data = viewer[u].data
                           /\ viewer'[u].layout = viewer[u].layout
                           /\ viewer'[u].path = viewer[u].path
                           /\ viewer'[u].state = "open" => viewer[u].state = "open"
    BY <2>3, <2>4
  <2>6. \A s \in Threads : call'[s] = IF s = t THEN NoCall ELSE call[s]
    BY <1>1, <2>1
  <2>7. \A s \in Threads : /\ call'[s].at = "set" <=> call[s].at = "set"
                           /\ call[s].at = "set" => call'[s] = call[s]
    BY <2>1, <2>6 DEF NoCall
  <2> QED
    BY <1>1, <2>5, <2>7, NamedStays
<1>7. ASSUME NEW v \in Viewers, Close(v) \/ ViewerDies(v) PROVE Named'
  <2> DEFINE y == viewer'[v]
  <2>1. y.data = viewer[v].data /\ y.layout = viewer[v].layout /\ y.path = viewer[v].path
        /\ y.state = "closed"
    BY <1>1, <1>7 DEF Close, ViewerDies, ViewerRec
  <2>2. \A u \in Viewers : u # v => viewer'[u] = viewer[u]
    BY <1>1, <1>7 DEF Close, ViewerDies
  <2>3. \A u \in Viewers : /\ viewer'[u].data = viewer[u].data
                           /\ viewer'[u].layout = viewer[u].layout
                           /\ viewer'[u].path = viewer[u].path
                           /\ viewer'[u].state = "open" => viewer[u].state = "open" /\ u # v
    BY <2>1, <2>2
  <2>4. \A t \in Threads : call'[t] = call[t] \/ (call[t].viewer = v /\ call'[t] = NoCall)
    BY <1>7 DEF Close, ViewerDies
  <2> QED
    BY <2>3, <2>4, EndNames
\* A request changes at most the lock of its server.
<1>8. ASSUME NEW g \in Pages, NEW b \in BOOLEAN, Lock(g, b), call' = call, page[g].viewer \in Viewers
      PROVE  Named'
  <2> DEFINE v == page[g].viewer
             y == [viewer[v] EXCEPT !.locked = b]
  <2>1. /\ y.data = viewer[v].data /\ y.layout = viewer[v].layout /\ y.path = viewer[v].path
        /\ y.state = viewer[v].state
    BY <1>1, <1>8 DEF ViewerRec
  <2>2. viewer' = [viewer EXCEPT ![v] = y]
    BY <1>1, <1>8 DEF Lock
  <2> HIDE DEF y
  <2>3. \A u \in Viewers : viewer'[u] = IF u = v THEN y ELSE viewer[u]
    BY <1>1, <2>2
  <2>4. \A u \in Viewers : /\ viewer'[u].data = viewer[u].data
                           /\ viewer'[u].layout = viewer[u].layout
                           /\ viewer'[u].path = viewer[u].path
                           /\ viewer'[u].state = "open" => viewer[u].state = "open"
    BY <2>1, <2>3
  <2> QED
    BY <1>1, <1>8, <2>4, NamedStays
<1>9. ASSUME NEW g \in Pages, SaveLayout(g) \/ CommitLayout(g) PROVE Named'
  <2>1. page[g].asks # "nothing" /\ call' = call /\ (Lock(g, TRUE) \/ Lock(g, FALSE))
    BY <1>9 DEF SaveLayout, CommitLayout
  <2>2. page[g].viewer \in Viewers
    BY <2>1, AskingFacts, PageFacts
  <2> QED
    BY <1>8, <2>1, <2>2
<1>10. ASSUME NEW g \in Pages,
              (\E v \in Viewers : GetMap(g, v)) \/ GetLayout(g) \/ AskLayout(g, "save")
              \/ AskLayout(g, "clear") \/ ClearLayout(g)
              \/ \E c \in Crawls : \E n \in DevicesOf[c] \cup LeavesOf[c] : Connect(g, n)
       PROVE  Named'
  <2>1. UNCHANGED <<viewer, call>>
    BY <1>10 DEF GetMap, GetLayout, AskLayout, ClearLayout, Connect
  <2> QED
    BY <1>2, <2>1
<1>11. ASSUME UNCHANGED vars PROVE Named'
  BY <1>2, <1>11 DEF vars
<1>12. ASSUME NEW t \in Threads, SetMap(t) \/ LoadEnds(t) PROVE Named'
  BY <1>12, SetMapNames, LoadEndNames
<1> QED
  BY <1>3, <1>4, <1>5, <1>6, <1>7, <1>9, <1>10, <1>11, <1>12 DEF Next

LEMMA InitNamed == Init => Named
BY DEF Init, Named, OneMapPerViewer, NoCall, NoViewer

\* Where the viewer's process loads from one thread, the path a window shows,
\* the map it serves and the layout file it saves to are of one map between
\* loads, whatever was refused or rewritten, and a page opens what it shows.
THEOREM MapViewKeepsToItsMap == ASSUME OneCaller PROVE Spec => []ViewersKeepToTheirMap
<1>1. Spec => []IInv
  BY InitIInv, NextIInv, PTL DEF Spec
<1>2. IInv /\ Named /\ [Next]_vars => Named'
  BY NextNamed
<1>3. Spec => []Named
  BY <1>1, <1>2, InitNamed, PTL DEF Spec
<1>4. IInv /\ Named => ViewersKeepToTheirMap
  BY DEF IInv, Named, ViewersKeepToTheirMap
<1> QED
  BY <1>1, <1>3, <1>4, PTL

-----------------------------------------------------------------------------
(* The topology map: crawls *)

\* Devices of one crawl that share a name share their key.
Apart(ds) ==
    \A i, j \in DOMAIN ds : GoesBy(ds[i]) \cap GoesBy(ds[j]) # {} => Key(ds[i]) = Key(ds[j])

-----------------------------------------------------------------------------
(* Names *)

LEMMA Stripped ==
    ASSUME NEW n \in Names
    PROVE  StripSuffixes(n) \in Names /\ Short(StripSuffixes(n)) = Short(n)
<1>1. n \in Seq(Labels) /\ Len(n) > 0 /\ n[1] \in Labels
  BY DEF Names
<1>2. CASE StripSuffixes(n) = n
  BY <1>2
<1>3. CASE Len(n) > 1 /\ StripSuffixes(n) = SubSeq(n, 1, Len(n) - 1)
  <2>1. Len(n) - 1 \in Nat \ {0} /\ Len(n) - 1 <= Len(n)
    BY <1>1, <1>3
  <2>2. SubSeq(n, 1, Len(n) - 1) \in Seq(Labels)
    BY <1>1, <2>1
  <2>3. Len(SubSeq(n, 1, Len(n) - 1)) = Len(n) - 1 /\ SubSeq(n, 1, Len(n) - 1)[1] = n[1]
    <3>1. PICK k \in Nat \ {0} : k = Len(n) - 1
      BY <2>1
    <3>2. \A i \in 1..k : n[i] \in Labels
      BY <1>1, <3>1
    <3>3. /\ Len(SubSeq(n, 1, k)) = k
          /\ \A i \in 1..k : SubSeq(n, 1, k)[i] = n[i]
      BY <1>1, <3>1, <3>2
    <3> QED
      BY <3>1, <3>3
  <2>4. SubSeq(n, 1, Len(n) - 1) # <<>>
    <3>1. Len(SubSeq(n, 1, Len(n) - 1)) # 0
      BY <2>1, <2>3
    <3>2. Len(<<>>) = 0
      OBVIOUS
    <3> QED
      BY <3>1, <3>2
  <2> QED
    BY <1>3, <2>2, <2>3, <2>4 DEF Names, Short, ShortName
<1> QED
  BY <1>2, <1>3 DEF StripSuffixes

LEMMA Reporting ==
    ASSUME NEW d \in Reports
    PROVE  /\ Ids(d) \subseteq Names /\ Ids(d) \subseteq Said
           /\ Canonical(d) \in Ids(d) /\ Key(d) \in GoesBy(d)
           /\ Key(d) \in Names /\ Short(Key(d)) = Short(Canonical(d))
           /\ StripSuffixes(Key(d)) = Key(d)
           /\ Key(d) \in DOMAIN BoxOf /\ BoxOf[Key(d)] = Box(d)
           /\ \A c \in UsableOf(d) : c.peer \in Said /\ c.peer \in Names
<1>1. /\ d.host \in Seq(Labels) /\ d.sys \in Seq(Labels) /\ d.ip \in Seq(Labels)
      /\ d.claims \subseteq [peer : Names, lif : Seq(Labels), rif : Seq(Labels)]
      /\ Ids(d) # {}
  BY ReportsAssumption
<1>2. Ids(d) \subseteq Names
  BY <1>1 DEF Ids, Names
<1>3. Ids(d) \subseteq Said /\ \A c \in UsableOf(d) : c.peer \in Said
  BY DEF Said
<1>4. \A c \in UsableOf(d) : c.peer \in Names
  BY <1>1 DEF UsableOf
<1>5. Canonical(d) \in Ids(d)
  BY <1>1 DEF Canonical, Ids
<1>6. Key(d) \in GoesBy(d) /\ Key(d) \in Names /\ Short(Key(d)) = Short(Canonical(d))
  BY <1>2, <1>5, Stripped DEF Key, GoesBy
<1>7. /\ StripSuffixes(Key(d)) = Key(d)
      /\ Key(d) \in DOMAIN BoxOf /\ BoxOf[Key(d)] = Box(d)
  BY <1>3, <1>5, NamesAssumption DEF Key, Box
<1> QED
  BY <1>2, <1>3, <1>4, <1>5, <1>6, <1>7

\* All names a device goes by are its own.
LEMMA GoingBy ==
    ASSUME NEW d \in Reports, NEW n \in GoesBy(d)
    PROVE  /\ n \in Names /\ StripSuffixes(n) = n
           /\ n \in DOMAIN BoxOf /\ BoxOf[n] = Box(d)
<1>1. PICK id \in Ids(d) : n = StripSuffixes(id)
  BY DEF GoesBy
<1>2. id \in Names /\ id \in Said
  BY Reporting
<1> QED
  BY <1>1, <1>2, Stripped, NamesAssumption

-----------------------------------------------------------------------------
(* Who a name is of *)

LEMMA Largest ==
    ASSUME NEW n \in Nat, NEW S \in SUBSET (1..n), S # {}
    PROVE  Max(S) \in S
<1> DEFINE below == {m \in Nat : n - m \in S}
           less == OpToRel(<, Nat)
<1>1. PICK x \in S : TRUE
  OBVIOUS
<1>2. n - x \in below
  BY <1>1
<1>3. PICK m \in below : \A y \in below : ~(<<y, m>> \in less)
  <2>1. IsWellFoundedOn(less, Nat)
    BY NatLessThanWellFounded
  <2> QED
    BY <1>2, <2>1, WFMin
<1>4. m \in Nat /\ n - m \in S
  OBVIOUS
<1>5. \A y \in S : n - m >= y
  <2> SUFFICES ASSUME NEW y \in S, ~(n - m >= y)
               PROVE  FALSE
    OBVIOUS
  <2>1. y \in Nat /\ n - y \in Nat /\ n - (n - y) = y /\ n - y < m
    BY <1>4
  <2>2. n - y \in below /\ <<n - y, m>> \in less
    BY <1>4, <2>1 DEF OpToRel
  <2> QED
    BY <1>3, <2>2
<1> QED
  BY <1>4, <1>5 DEF Max

LEMMA Informed ==
    ASSUME NEW ds \in Seq(Reports), NEW n
    PROVE  /\ \A d \in Info(ds, n) : d \in Range(ds) /\ d \in Reports /\ n \in GoesBy(d)
           /\ \A d \in Range(ds) : n \in GoesBy(d) => Info(ds, n) # {}
<1> DEFINE found == {i \in DOMAIN ds : n \in GoesBy(ds[i])}
<1>1. DOMAIN ds = 1..Len(ds) /\ Len(ds) \in Nat /\ \A i \in DOMAIN ds : ds[i] \in Reports
  OBVIOUS
<1>2. found # {} => Max(found) \in found
  BY <1>1, Largest
<1>3. Info(ds, n) = IF found = {} THEN {} ELSE {ds[Max(found)]}
  BY DEF Info
<1> QED
  BY <1>1, <1>2, <1>3 DEF Range

LEMMA Ranged ==
    ASSUME NEW ds \in Seq(Reports), Apart(ds)
    PROVE  /\ Range(ds) \subseteq Reports
           /\ \A d, e \in Range(ds) : GoesBy(d) \cap GoesBy(e) # {} => Key(d) = Key(e)
BY DEF Range, Apart

\* A name a device of the crawl goes by leads to its key.
LEMMA CanonOfKnown ==
    ASSUME NEW ds \in Seq(Reports), Apart(ds),
           NEW d \in Range(ds), NEW n, StripSuffixes(n) \in GoesBy(d)
    PROVE  CanonOf(ds, n) = Key(d)
<1> DEFINE found == Info(ds, StripSuffixes(n))
<1>1. found # {}
  BY Informed
<1>2. CanonOf(ds, n) = Key(CHOOSE e \in found : TRUE)
  BY <1>1 DEF CanonOf
<1>3. PICK e \in found : e = CHOOSE x \in found : TRUE
  BY <1>1
<1>4. e \in Range(ds) /\ StripSuffixes(n) \in GoesBy(e)
  BY Informed
<1>5. Key(e) = Key(d)
  BY <1>4, Ranged
<1> QED
  BY <1>2, <1>3, <1>5

\* Any name a device uses leads to the key of a device of the crawl that it is
\* of, or is kept, and no device goes by it.
LEMMA CanonOfSaid ==
    ASSUME NEW ds \in Seq(Reports), Apart(ds), NEW n \in Said
    PROVE  \/ \E d \in Range(ds) : /\ CanonOf(ds, n) = Key(d)
                                   /\ n \in DOMAIN BoxOf /\ BoxOf[n] = Box(d)
           \/ /\ CanonOf(ds, n) = StripSuffixes(n)
              /\ \A d \in Range(ds) : StripSuffixes(n) \notin GoesBy(d)
<1>1. CASE Info(ds, StripSuffixes(n)) # {}
  <2>1. PICK d \in Info(ds, StripSuffixes(n)) : TRUE
    BY <1>1
  <2>2. d \in Range(ds) /\ d \in Reports /\ StripSuffixes(n) \in GoesBy(d)
    BY Informed
  <2>3. StripSuffixes(n) \in DOMAIN BoxOf /\ BoxOf[StripSuffixes(n)] = Box(d)
    BY <2>2, GoingBy
  <2>4. n \in DOMAIN BoxOf /\ BoxOf[n] = Box(d)
    BY <2>3, NamesAssumption
  <2> QED
    BY <2>2, <2>4, CanonOfKnown
<1>2. CASE Info(ds, StripSuffixes(n)) = {}
  <2>1. \A d \in Range(ds) : StripSuffixes(n) \notin GoesBy(d)
    BY <1>2, Informed
  <2>2. CASE Info(ds, Short(n)) = {}
    BY <1>2, <2>1, <2>2 DEF CanonOf
  <2>3. CASE Info(ds, Short(n)) # {}
    <3>1. PICK d \in Info(ds, Short(n)) : d = CHOOSE x \in Info(ds, Short(n)) : TRUE
      BY <2>3
    <3>2. d \in Range(ds) /\ d \in Reports /\ Short(n) \in GoesBy(d)
      BY Informed
    <3>3. n \in DOMAIN BoxOf /\ BoxOf[n] = Box(d)
      BY <3>2, NamesAssumption
    <3>4. CanonOf(ds, n) = Key(d)
      BY <1>2, <2>3, <3>1 DEF CanonOf
    <3> QED
      BY <3>2, <3>3, <3>4
  <2> QED
    BY <2>2, <2>3
<1> QED
  BY <1>1, <1>2

-----------------------------------------------------------------------------
(* One map *)

\* Where a claim of the crawl comes from.
LEMMA ClaimFrom ==
    ASSUME NEW ds \in Seq(Reports), NEW c \in AllClaims(ds)
    PROVE  \E d \in Range(ds) : \E s \in UsableOf(d) :
             /\ d \in Reports /\ c.dev = Key(d) /\ c.peer = CanonOf(ds, s.peer)
             /\ c.lif = s.lif /\ c.rif = s.rif
<1>1. PICK d \in Range(ds) : c \in ClaimsOf(ds, d)
  BY DEF AllClaims
<1>2. PICK s \in UsableOf(d) :
        c = [dev |-> Key(d), lif |-> s.lif, peer |-> CanonOf(ds, s.peer), rif |-> s.rif]
  BY <1>1 DEF ClaimsOf
<1> QED
  BY <1>1, <1>2 DEF Range

LEMMA ClaimMade ==
    ASSUME NEW ds \in Seq(Reports), NEW d \in Range(ds), NEW s \in UsableOf(d)
    PROVE  [dev |-> Key(d), lif |-> s.lif, peer |-> CanonOf(ds, s.peer), rif |-> s.rif]
             \in AllClaims(ds)
<1>1. d \in Reports
  BY DEF Range
<1>2. d \in {e \in Range(ds) : Ids(e) # {}}
  BY <1>1, ReportsAssumption
<1>3. [dev |-> Key(d), lif |-> s.lif, peer |-> CanonOf(ds, s.peer), rif |-> s.rif] \in ClaimsOf(ds, d)
  BY DEF ClaimsOf
<1> QED
  BY <1>2, <1>3 DEF AllClaims

\* A key that answered is a node, made of a report under that key.
LEMMA NodeIs ==
    ASSUME NEW ds \in Seq(Reports)
    PROVE  /\ DOMAIN Generate(ds) = {Key(d) : d \in {e \in Range(ds) : ~e.failed}}
           /\ \A n \in DOMAIN Generate(ds) :
                 \E d \in Range(ds) : /\ d \in Answering /\ Key(d) = n
                                      /\ Generate(ds)[n] = NodeOf(ds, d)
<1>1. DOMAIN ds = 1..Len(ds) /\ Len(ds) \in Nat /\ \A i \in DOMAIN ds : ds[i] \in Reports
  OBVIOUS
<1>2. Reached(ds) = {i \in DOMAIN ds : ~ds[i].failed}
  BY <1>1, ReportsAssumption DEF Reached
<1>3. DOMAIN Generate(ds) = {Key(d) : d \in {e \in Range(ds) : ~e.failed}}
  BY <1>2 DEF Generate, Range
<1>4. ASSUME NEW n \in DOMAIN Generate(ds)
      PROVE  \E d \in Range(ds) : /\ d \in Answering /\ Key(d) = n
                                  /\ Generate(ds)[n] = NodeOf(ds, d)
  <2> DEFINE at == {i \in Reached(ds) : Key(ds[i]) = n}
  <2>1. at # {} /\ at \subseteq 1..Len(ds)
    BY <1>1, <1>2, <1>4 DEF Generate
  <2>2. Max(at) \in at
    BY <1>1, <2>1, Largest
  <2>3. Generate(ds)[n] = NodeOf(ds, ds[Max(at)])
    BY <1>4 DEF Generate
  <2> QED
    BY <1>1, <1>2, <2>2, <2>3 DEF Range, Answering
<1> QED
  BY <1>3, <1>4

\* A line of a map is an accepted claim whose far end reads as a port.
Drawn(ds, c) == c \in AllClaims(ds) /\ Accepted(ds, c) /\ IsLabel(ds, c.rif)

LEMMA PeersAre ==
    ASSUME NEW ds \in Seq(Reports), NEW n \in DOMAIN Generate(ds)
    PROVE  /\ DOMAIN Generate(ds)[n].peers =
                 {c.peer : c \in {e \in AllClaims(ds) : e.dev = n /\ Accepted(ds, e)}}
           /\ \A p \in DOMAIN Generate(ds)[n].peers :
                 Generate(ds)[n].peers[p] =
                   {<<c.lif, c.rif>> :
                      c \in {e \in AllClaims(ds) : Drawn(ds, e) /\ e.dev = n /\ e.peer = p}}
<1>1. PICK d \in Range(ds) : Key(d) = n /\ Generate(ds)[n] = NodeOf(ds, d)
  BY NodeIs
<1> DEFINE accepted == {c \in AllClaims(ds) : c.dev = n /\ Accepted(ds, c)}
<1>2. Generate(ds)[n].peers =
        [p \in {c.peer : c \in accepted} |->
           {<<c.lif, c.rif>> : c \in {e \in accepted : e.peer = p /\ IsLabel(ds, e.rif)}}]
  BY <1>1 DEF NodeOf
<1>3. \A p : {e \in accepted : e.peer = p /\ IsLabel(ds, e.rif)}
              = {e \in AllClaims(ds) : Drawn(ds, e) /\ e.dev = n /\ e.peer = p}
  BY DEF Drawn
<1> QED
  BY <1>2, <1>3

LEMMA LinkIs ==
    ASSUME NEW map, NEW l
    PROVE  l \in Links(map) <=>
             \E n \in DOMAIN map : \E p \in DOMAIN map[n].peers : \E c \in map[n].peers[p] :
               l = <<n, p, c>>
BY DEF Links

LEMMA LineIsClaim ==
    ASSUME NEW ds \in Seq(Reports), NEW l \in Links(Generate(ds))
    PROVE  \E c \in AllClaims(ds) :
             /\ l = <<c.dev, c.peer, <<c.lif, c.rif>>>>
             /\ Drawn(ds, c) /\ c.dev \in DOMAIN Generate(ds)
<1>1. PICK n \in DOMAIN Generate(ds) : \E p \in DOMAIN Generate(ds)[n].peers :
        \E c \in Generate(ds)[n].peers[p] : l = <<n, p, c>>
  BY LinkIs
<1>2. PICK p \in DOMAIN Generate(ds)[n].peers :
        \E c \in Generate(ds)[n].peers[p] : l = <<n, p, c>>
  BY <1>1
<1> QED
  BY <1>2, PeersAre

LEMMA ClaimIsLine ==
    ASSUME NEW ds \in Seq(Reports), NEW c \in AllClaims(ds), Drawn(ds, c),
           c.dev \in DOMAIN Generate(ds)
    PROVE  <<c.dev, c.peer, <<c.lif, c.rif>>>> \in Links(Generate(ds))
<1>1. c.peer \in DOMAIN Generate(ds)[c.dev].peers
  BY PeersAre DEF Drawn
<1>2. <<c.lif, c.rif>> \in Generate(ds)[c.dev].peers[c.peer]
  BY <1>1, PeersAre
<1> QED
  BY <1>1, <1>2, LinkIs

\* Every line is a cable.
LEMMA LinesAreCables ==
    ASSUME NEW ds \in Seq(Reports), Apart(ds), NEW l \in Links(Generate(ds))
    PROVE  IsCable(l[1], l[2], l[3])
<1>1. PICK c \in AllClaims(ds) : l = <<c.dev, c.peer, <<c.lif, c.rif>>>> /\ Drawn(ds, c)
  BY LineIsClaim
<1>2. PICK d \in Range(ds) : \E s \in UsableOf(d) :
        /\ d \in Reports /\ c.dev = Key(d) /\ c.peer = CanonOf(ds, s.peer)
        /\ c.lif = s.lif /\ c.rif = s.rif
  BY ClaimFrom
<1>3. PICK s \in UsableOf(d) :
        /\ d \in Reports /\ c.dev = Key(d) /\ c.peer = CanonOf(ds, s.peer)
        /\ c.lif = s.lif /\ c.rif = s.rif
  BY <1>2
<1>4. s.rif \in Ports /\ StripSuffixes(s.rif) \notin Known(ds) /\ Short(s.rif) \notin Known(ds)
  BY <1>1, <1>3 DEF Drawn, IsLabel, NamesADevice
<1>5. Forms({d}) \subseteq Known(ds)
  BY DEF Known, Forms
<1>6. IsCable(Canonical(d), s.peer, <<s.lif, s.rif>>)
  BY <1>3, <1>4, <1>5, ClaimsAssumption
<1>7. /\ c.dev \in DOMAIN BoxOf /\ BoxOf[c.dev] = BoxOf[Canonical(d)]
      /\ Canonical(d) \in DOMAIN BoxOf /\ s.peer \in Said
  BY <1>3, Reporting, NamesAssumption DEF Box
<1>8. c.peer \in DOMAIN BoxOf => s.peer \in DOMAIN BoxOf /\ BoxOf[s.peer] = BoxOf[c.peer]
  <2>1. CASE \E e \in Range(ds) : CanonOf(ds, s.peer) = Key(e)
                               /\ s.peer \in DOMAIN BoxOf /\ BoxOf[s.peer] = Box(e)
    BY <1>3, <2>1, Ranged, Reporting
  <2>2. CASE CanonOf(ds, s.peer) = StripSuffixes(s.peer)
    BY <1>3, <1>7, <2>2, NamesAssumption
  <2> QED
    BY <1>7, <2>1, <2>2, CanonOfSaid
<1> QED
  BY <1>1, <1>3, <1>6, <1>7, <1>8 DEF IsCable

\* What answers for the second end of a line claims it of the first by its key.
LEMMA ReverseByKey ==
    ASSUME NEW ds \in Seq(Reports), Apart(ds), NEW d \in Range(ds), NEW r \in AllClaims(ds),
           \E e \in Info(ds, StripSuffixes(Key(d))) : StripSuffixes(r.peer) \in GoesBy(e)
    PROVE  r.peer = Key(d)
<1>1. PICK e \in Info(ds, StripSuffixes(Key(d))) : StripSuffixes(r.peer) \in GoesBy(e)
  OBVIOUS
<1>2. d \in Reports /\ StripSuffixes(Key(d)) = Key(d) /\ Key(d) \in GoesBy(d)
  BY Ranged, Reporting
<1>3. e \in Range(ds) /\ e \in Reports /\ Key(d) \in GoesBy(e)
  BY <1>1, <1>2, Informed
<1>4. Key(e) = Key(d)
  BY <1>2, <1>3, Ranged
<1>5. PICK f \in Range(ds) : \E s \in UsableOf(f) : f \in Reports /\ r.peer = CanonOf(ds, s.peer)
  BY ClaimFrom
<1>6. PICK s \in UsableOf(f) : f \in Reports /\ r.peer = CanonOf(ds, s.peer) /\ s.peer \in Said
  BY <1>5, Reporting
<1>7. CASE \E g \in Range(ds) : r.peer = Key(g)
  <2>1. PICK g \in Range(ds) : r.peer = Key(g)
    BY <1>7
  <2>2. StripSuffixes(r.peer) = Key(g) /\ Key(g) \in GoesBy(g)
    BY <2>1, Ranged, Reporting
  <2>3. Key(g) = Key(e)
    BY <1>1, <1>3, <2>2, Ranged
  <2> QED
    BY <1>4, <2>1, <2>3
<1>8. CASE r.peer = StripSuffixes(s.peer) /\ \A g \in Range(ds) : StripSuffixes(s.peer) \notin GoesBy(g)
  <2>1. StripSuffixes(r.peer) = StripSuffixes(s.peer)
    BY <1>6, <1>8, NamesAssumption
  <2> QED
    BY <1>1, <1>3, <1>8, <2>1
<1> QED
  BY <1>6, <1>7, <1>8, CanonOfSaid

\* A node's key is of a device that answered.
LEMMA NodeDiscovered ==
    ASSUME NEW ds \in Seq(Reports), Apart(ds), NEW n \in DOMAIN Generate(ds)
    PROVE  WasDiscovered(ds, n)
<1>1. PICK d \in Range(ds) : d \in Answering /\ Key(d) = n
  BY NodeIs
<1>2. d \in Reports /\ ~d.failed /\ Canonical(d) \in Ids(d) /\ Short(n) = Short(Canonical(d))
  BY <1>1, Reporting DEF Answering
<1>3. Short(Canonical(d)) \in Discovered(ds)
  BY <1>2 DEF Discovered, Forms
<1> QED
  BY <1>2, <1>3 DEF WasDiscovered

LEMMA LinesAtBothEnds ==
    ASSUME NEW ds \in Seq(Reports), Apart(ds), ~TrustUnidirectional,
           NEW l \in Links(Generate(ds)), l[2] \in DOMAIN Generate(ds), IsLabel(ds, l[3][1])
    PROVE  <<l[2], l[1], <<l[3][2], l[3][1]>>>> \in Links(Generate(ds))
<1>1. PICK c \in AllClaims(ds) :
        /\ l = <<c.dev, c.peer, <<c.lif, c.rif>>>>
        /\ Drawn(ds, c) /\ c.dev \in DOMAIN Generate(ds)
  BY LineIsClaim
<1>2. c.peer \in DOMAIN Generate(ds) /\ IsLabel(ds, c.lif)
  BY <1>1
<1>3. HasReverse(ds, c)
  BY <1>1, <1>2, NodeDiscovered DEF Drawn, Accepted
<1>4. PICK r \in AllClaims(ds) :
        /\ r.dev = c.peer /\ r.lif = c.rif /\ r.rif = c.lif
        /\ r.peer = c.dev \/ \E e \in Info(ds, StripSuffixes(c.dev)) :
                               StripSuffixes(r.peer) \in GoesBy(e)
  BY <1>3 DEF HasReverse
<1>5. PICK d \in Range(ds) : Key(d) = c.dev
  BY <1>1, NodeIs
<1>6. r.peer = c.dev
  BY <1>4, <1>5, ReverseByKey
<1>7. HasReverse(ds, r)
  BY <1>4, <1>6 DEF HasReverse
<1>8. Drawn(ds, r)
  BY <1>2, <1>4, <1>7 DEF Drawn, Accepted
<1>9. <<r.dev, r.peer, <<r.lif, r.rif>>>> \in Links(Generate(ds))
  BY <1>2, <1>4, <1>8, ClaimIsLine
<1> QED
  BY <1>1, <1>4, <1>6, <1>9

LEMMA AgreedLines ==
    ASSUME NEW ds \in Seq(Reports), Apart(ds),
           NEW d \in Range(ds), ~d.failed, NEW e \in Range(ds), ~e.failed,
           NEW c \in UsableOf(d), NEW r \in UsableOf(e),
           Mutual(c, r), IsLabel(ds, c.rif),
           StripSuffixes(c.peer) \in GoesBy(e), StripSuffixes(r.peer) \in GoesBy(d)
    PROVE  <<Key(d), Key(e), <<c.lif, c.rif>>>> \in Links(Generate(ds))
<1>1. PICK x \in AllClaims(ds) : x = [dev |-> Key(d), lif |-> c.lif, peer |-> Key(e), rif |-> c.rif]
  BY ClaimMade, CanonOfKnown
<1>2. PICK y \in AllClaims(ds) : y = [dev |-> Key(e), lif |-> r.lif, peer |-> Key(d), rif |-> r.rif]
  BY ClaimMade, CanonOfKnown
<1>3. HasReverse(ds, x)
  BY <1>1, <1>2 DEF HasReverse, Mutual
<1>4. Drawn(ds, x)
  BY <1>1, <1>3 DEF Drawn, Accepted
<1>5. Key(d) \in DOMAIN Generate(ds)
  BY NodeIs
<1>6. <<x.dev, x.peer, <<x.lif, x.rif>>>> \in Links(Generate(ds))
  BY <1>1, <1>4, <1>5, ClaimIsLine
<1> QED
  BY <1>1, <1>6

LEMMA FailedLeaf ==
    ASSUME NEW ds \in Seq(Reports), Apart(ds), NEW d \in Range(ds),
           \A e \in Range(ds) :
             e.failed \/ {Short(id) : id \in Ids(d)} \cap {Short(id) : id \in Ids(e)} = {},
           NEW e \in Range(ds), ~e.failed, NEW c \in UsableOf(e),
           StripSuffixes(c.peer) \in GoesBy(d)
    PROVE  Key(d) \in DOMAIN Generate(ds)[Key(e)].peers
<1>1. PICK x \in AllClaims(ds) : x = [dev |-> Key(e), lif |-> c.lif, peer |-> Key(d), rif |-> c.rif]
  BY ClaimMade, CanonOfKnown
<1>2. d \in Reports /\ Canonical(d) \in Ids(d) /\ Short(Key(d)) = Short(Canonical(d))
      /\ StripSuffixes(Key(d)) = Key(d)
  BY Ranged, Reporting
<1>3. ASSUME NEW f \in Range(ds), ~f.failed, NEW id \in Ids(f)
      PROVE  /\ Short(id) # Short(Key(d))
             /\ StripSuffixes(id) # Key(d) /\ StripSuffixes(id) # Short(Key(d))
             /\ Short(id) # Key(d)
  <2>1. id \in Names /\ Short(StripSuffixes(id)) = Short(id)
    BY <1>3, Ranged, Reporting, Stripped
  <2>2. Short(id) # Short(Key(d))
    BY <1>2, <1>3
  <2>3. \A n : Short(Short(n)) = Short(n)
    BY DEF Short, ShortName
  <2> QED
    BY <2>1, <2>2, <2>3
<1>4. Key(d) \notin Discovered(ds) /\ Short(Key(d)) \notin Discovered(ds)
  BY <1>3 DEF Discovered, Forms
<1>5. Accepted(ds, x)
  BY <1>1, <1>2, <1>4 DEF Accepted, WasDiscovered
<1>6. Key(e) \in DOMAIN Generate(ds)
  BY NodeIs
<1> QED
  BY <1>1, <1>5, <1>6, PeersAre

-----------------------------------------------------------------------------
(* Merging two maps *)

\* What is true of a crawl's map and of any merge: its nodes are devices that
\* answered, one node to a device, each under one of its keys and with one of
\* its addresses; its peers are names that were said; its lines are cables.
OneNodeEach(map) == \A n, k \in DOMAIN map : BoxOf[n] = BoxOf[k] => n = k
Noded(map) ==
    \A n \in DOMAIN map :
        /\ \E d \in Answering : Key(d) = n
        /\ \E d \in Answering : Box(d) = BoxOf[n] /\ d.ip = map[n].ip
        /\ \A p \in DOMAIN map[n].peers : \E q \in Said : p = StripSuffixes(q)
Charted(map) ==
    /\ Noded(map) /\ OneNodeEach(map)
    /\ \A l \in Links(map) : IsCable(l[1], l[2], l[3])

LEMMA NodeName ==
    ASSUME NEW map, Charted(map), NEW n \in DOMAIN map
    PROVE  /\ \E d \in Answering : Key(d) = n /\ Box(d) = BoxOf[n] /\ Canonical(d) \in Said
                                   /\ n = StripSuffixes(Canonical(d))
           /\ StripSuffixes(n) = n /\ n \in DOMAIN BoxOf
<1>1. PICK d \in Answering : Key(d) = n
  BY DEF Charted, Noded
<1>2. d \in Reports
  BY DEF Answering
<1> QED
  BY <1>1, <1>2, Reporting DEF Key

LEMMA GeneratedCharted ==
    ASSUME NEW ds \in Seq(Reports), Apart(ds)
    PROVE  Charted(Generate(ds))
<1> DEFINE map == Generate(ds)
<1>1. ASSUME NEW n \in DOMAIN map
      PROVE  \E d \in Range(ds) : /\ d \in Answering /\ d \in Reports /\ Key(d) = n
                                  /\ Box(d) = BoxOf[n] /\ d.ip = map[n].ip
  <2>1. PICK d \in Range(ds) : d \in Answering /\ Key(d) = n /\ map[n] = NodeOf(ds, d)
    BY NodeIs
  <2>2. d \in Reports /\ BoxOf[n] = Box(d)
    BY <2>1, Ranged, Reporting
  <2>3. NodeOf(ds, d).ip = d.ip
    BY DEF NodeOf
  <2> QED
    BY <2>1, <2>2, <2>3
<1>2. ASSUME NEW n \in DOMAIN map, NEW p \in DOMAIN map[n].peers
      PROVE  \E q \in Said : p = StripSuffixes(q)
  <2>1. PICK c \in AllClaims(ds) : p = c.peer
    BY <1>2, PeersAre
  <2>2. PICK d \in Range(ds) : \E s \in UsableOf(d) : d \in Reports /\ p = CanonOf(ds, s.peer)
    BY <2>1, ClaimFrom
  <2>3. PICK s \in UsableOf(d) : p = CanonOf(ds, s.peer) /\ s.peer \in Said
    BY <2>2, Reporting
  <2>4. CASE \E e \in Range(ds) : p = Key(e)
    <3>1. PICK e \in Range(ds) : p = Key(e) /\ e \in Reports
      BY <2>4, Ranged
    <3>2. Canonical(e) \in Said
      BY <3>1, Reporting
    <3> QED
      BY <3>1, <3>2 DEF Key
  <2> QED
    BY <2>3, <2>4, CanonOfSaid
<1>3. OneNodeEach(map)
  <2> SUFFICES ASSUME NEW n \in DOMAIN map, NEW k \in DOMAIN map, BoxOf[n] = BoxOf[k]
               PROVE  n = k
    BY DEF OneNodeEach
  <2>1. PICK d \in Range(ds) : d \in Answering /\ d \in Reports /\ Key(d) = n /\ Box(d) = BoxOf[n]
    BY <1>1
  <2>2. PICK e \in Range(ds) : e \in Answering /\ e \in Reports /\ Key(e) = k /\ Box(e) = BoxOf[k]
    BY <1>1
  <2>3. CASE d.ip = e.ip /\ d.ip # <<>>
    <3>1. d.ip \in Ids(d) /\ d.ip \in Ids(e)
      BY <2>3 DEF Ids
    <3>2. GoesBy(d) \cap GoesBy(e) # {}
      BY <3>1 DEF GoesBy
    <3> QED
      BY <2>1, <2>2, <3>2, Ranged
  <2> QED
    BY <2>1, <2>2, <2>3, MergeAssumption
<1>4. Noded(map)
  BY <1>1, <1>2 DEF Noded
<1> QED
  BY <1>3, <1>4, LinesAreCables DEF Charted

\* What a name, with an address of its device or none, may be matched with is
\* that device's node.
Addressed(n, ip) ==
    \/ ip = <<>>
    \/ n \in DOMAIN BoxOf /\ \E e \in Answering : e.ip = ip /\ Box(e) = BoxOf[n]

LEMMA FirstOf ==
    ASSUME NEW x
    PROVE  First({x}) = x
BY DEF First

LEMMA CandidatesAre ==
    ASSUME NEW base, Charted(base), NEW q \in Said, NEW n, n = StripSuffixes(q),
           NEW ip, Addressed(n, ip), NEW t \in Candidates(base, n, ip)
    PROVE  t \in DOMAIN base /\ SameBox(t, n) /\ n \in DOMAIN BoxOf
<1> DEFINE same == {k \in DOMAIN base : StripSuffixes(k) = StripSuffixes(n)}
           there == {k \in DOMAIN base : MatchIP /\ ip # <<>> /\ base[k].ip = ip}
           alike == {k \in DOMAIN base : MatchShortName /\ Short(k) = Short(n)}
<1>1. StripSuffixes(n) = n
  BY NamesAssumption
<1>2. CASE same # {}
  <2>1. same = {n}
    BY <1>1, <1>2, NodeName
  <2>2. t = n
    BY <1>2, <2>1, FirstOf DEF Candidates
  <2> QED
    BY <2>1, <2>2, NodeName DEF SameBox
<1>3. CASE same = {} /\ there # {}
  <2>1. t \in there
    BY <1>3 DEF Candidates
  <2>2. PICK d \in Answering : Box(d) = BoxOf[t] /\ d.ip = ip
    BY <2>1 DEF Charted, Noded
  <2>3. PICK e \in Answering : e.ip = ip /\ Box(e) = BoxOf[n] /\ n \in DOMAIN BoxOf
    BY <2>1 DEF Addressed
  <2>4. ip \in Ids(d) /\ ip \in Ids(e) /\ d \in Reports /\ e \in Reports
    BY <2>1, <2>2, <2>3 DEF Ids, Answering
  <2>5. Box(d) = Box(e)
    BY <2>4, NamesAssumption
  <2> QED
    BY <2>1, <2>2, <2>3, <2>5, NodeName DEF SameBox
<1>4. CASE same = {} /\ there = {}
  <2>1. t \in alike
    BY <1>4 DEF Candidates
  <2>2. PICK d \in Answering : Key(d) = t /\ Box(d) = BoxOf[t]
    BY <2>1, NodeName
  <2>3. q \in Names
    BY Reporting DEF Said
  <2>4. Short(q) = Short(Key(d))
    BY <2>1, <2>2, <2>3, Stripped
  <2>5. q \in DOMAIN BoxOf /\ BoxOf[q] = Box(d)
    BY <2>1, <2>4, MergeAssumption
  <2>6. n \in DOMAIN BoxOf /\ BoxOf[n] = BoxOf[q]
    BY <2>5, NamesAssumption
  <2> QED
    BY <2>1, <2>2, <2>5, <2>6, NodeName DEF SameBox
<1> QED
  BY <1>2, <1>3, <1>4

LEMMA LookupIs ==
    ASSUME NEW base, NEW n, NEW ip
    PROVE  /\ Lookup(base, n, ip) \subseteq Candidates(base, n, ip)
           /\ \A t : Candidates(base, n, ip) = {t} => Lookup(base, n, ip) = {t}
BY FS_Singleton DEF Lookup

\* A node finds the base's node of its device, if there is one.
LEMMA LookupFinds ==
    ASSUME NEW base, Charted(base), NEW d \in Answering, NEW e \in Answering, Box(d) = Box(e),
           NEW t \in DOMAIN base, BoxOf[t] = Box(d)
    PROVE  Lookup(base, Key(d), e.ip) = {t}
<1> DEFINE n == Key(d)
           ip == e.ip
           same == {k \in DOMAIN base : StripSuffixes(k) = StripSuffixes(n)}
           there == {k \in DOMAIN base : MatchIP /\ ip # <<>> /\ base[k].ip = ip}
<1>1. d \in Reports /\ Canonical(d) \in Said /\ n = StripSuffixes(Canonical(d))
      /\ StripSuffixes(n) = n /\ n \in DOMAIN BoxOf /\ BoxOf[n] = Box(d)
  BY Reporting DEF Answering, Key
<1>2. Addressed(n, ip)
  BY <1>1 DEF Addressed
<1>3. ASSUME NEW c \in Candidates(base, n, ip)
      PROVE  c = t
  <2>1. c \in DOMAIN base /\ BoxOf[c] = BoxOf[n]
    BY <1>1, <1>2, CandidatesAre DEF SameBox
  <2> QED
    BY <1>1, <2>1 DEF Charted, OneNodeEach
<1>4. t \in same \/ t \in there
  <2>1. PICK f \in Answering : Key(f) = t /\ Box(f) = Box(d)
    BY NodeName
  <2>2. PICK g \in Answering : Box(g) = Box(d) /\ g.ip = base[t].ip
    BY DEF Charted, Noded
  <2>3. CASE t = n
    BY <2>3
  <2>4. CASE t # n
    <3>1. MatchIP /\ f.ip = d.ip /\ d.ip # <<>>
      BY <2>1, <2>4, MergeAssumption
    <3>2. g.ip = d.ip
      BY <2>1, <2>2, <2>4, <3>1, MergeAssumption
    <3>3. ip = d.ip
      BY <2>1, <2>4, <3>1, MergeAssumption
    <3> QED
      BY <2>2, <3>1, <3>2, <3>3
  <2> QED
    BY <2>3, <2>4
<1>5. Candidates(base, n, ip) # {}
  BY <1>4 DEF Candidates
<1>6. Candidates(base, n, ip) = {t}
  BY <1>3, <1>5
<1> QED
  BY <1>6, LookupIs

LEMMA ResolvedIs ==
    ASSUME NEW base, Charted(base), NEW incoming, Charted(incoming), NEW k \in DOMAIN incoming
    PROVE  /\ Resolved(base, incoming, k) \in DOMAIN base \cup {k}
           /\ SameBox(Resolved(base, incoming, k), k)
           /\ Resolved(base, incoming, k) \in DOMAIN BoxOf /\ k \in DOMAIN BoxOf
           /\ \A t \in DOMAIN base : SameBox(t, k) => Resolved(base, incoming, k) = t
<1> DEFINE ip == incoming[k].ip
           found == Lookup(base, k, ip)
<1>1. PICK d \in Answering : /\ Key(d) = k /\ Box(d) = BoxOf[k]
                             /\ Canonical(d) \in Said /\ k = StripSuffixes(Canonical(d))
  BY NodeName
<1>2. PICK e \in Answering : Box(e) = BoxOf[k] /\ e.ip = ip
  BY DEF Charted, Noded
<1>3. k \in DOMAIN BoxOf
  BY NodeName
<1>4. Addressed(k, ip)
  BY <1>2, <1>3 DEF Addressed
<1>5. ASSUME NEW t \in found
      PROVE  t \in DOMAIN base /\ SameBox(t, k)
  BY <1>1, <1>4, LookupIs, CandidatesAre
<1>6. ASSUME NEW t \in DOMAIN base, SameBox(t, k)
      PROVE  found = {t}
  <2>1. BoxOf[t] = Box(d)
    BY <1>1, <1>6 DEF SameBox
  <2> QED
    BY <1>1, <1>2, <2>1, LookupFinds
<1>7. CASE found = {}
  BY <1>3, <1>6, <1>7 DEF Resolved, SameBox
<1>8. CASE found # {}
  <2>1. PICK t \in found : t = Resolved(base, incoming, k)
    BY <1>8 DEF Resolved
  <2>2. t \in DOMAIN base /\ SameBox(t, k) /\ t \in DOMAIN BoxOf
    BY <1>5, NodeName
  <2>3. \A s \in DOMAIN base : SameBox(s, k) => s = t
    BY <1>6, <2>1
  <2> QED
    BY <1>3, <2>1, <2>2, <2>3
<1> QED
  BY <1>7, <1>8

\* A peer is renamed to what its own node became, or to a node it is of.
LEMMA PeerKeyIs ==
    ASSUME NEW base, Charted(base), NEW incoming, Charted(incoming),
           NEW q \in Said, NEW p, p = StripSuffixes(q)
    PROVE  /\ SameBox(PeerKey(base, incoming, p), p)
           /\ \E s \in Said : PeerKey(base, incoming, p) = StripSuffixes(s)
           /\ p \in DOMAIN incoming => PeerKey(base, incoming, p) = Resolved(base, incoming, p)
<1>1. ASSUME NEW t \in DOMAIN base
      PROVE  \E s \in Said : t = StripSuffixes(s)
  BY NodeName
<1>2. CASE p \in DOMAIN incoming
  BY <1>1, <1>2, ResolvedIs DEF PeerKey
<1>3. CASE p \notin DOMAIN incoming /\ Lookup(base, p, <<>>) = {}
  BY <1>3 DEF PeerKey, SameBox
<1>4. CASE p \notin DOMAIN incoming /\ Lookup(base, p, <<>>) # {}
  <2>1. PICK t \in Lookup(base, p, <<>>) : t = PeerKey(base, incoming, p)
    BY <1>4 DEF PeerKey
  <2>2. Addressed(p, <<>>)
    BY DEF Addressed
  <2>3. t \in DOMAIN base /\ SameBox(t, p)
    BY <2>2, LookupIs, CandidatesAre
  <2> QED
    BY <1>1, <1>4, <2>1, <2>3
<1> QED
  BY <1>2, <1>3, <1>4

-----------------------------------------------------------------------------
(* What is in a merge *)

LEMMA MergeIs ==
    ASSUME NEW base, NEW incoming
    PROVE  /\ \A n : n \in DOMAIN Merge(base, incoming) <=>
                 n \in DOMAIN base \/ \E k \in DOMAIN incoming : n = Resolved(base, incoming, k)
           /\ \A n \in DOMAIN Merge(base, incoming) :
                 Merge(base, incoming)[n] = MergedNode(base, incoming, n)
BY DEF Merge

\* A line of a merge is one of the base, or one of the incoming map renamed.
LEMMA MergedLine ==
    ASSUME NEW base, NEW incoming, NEW n \in DOMAIN Merge(base, incoming),
           NEW p \in DOMAIN Merge(base, incoming)[n].peers
    PROVE  /\ \/ n \in DOMAIN base /\ p \in DOMAIN base[n].peers
              \/ \E k \in DOMAIN incoming : \E q \in DOMAIN incoming[k].peers :
                   Resolved(base, incoming, k) = n /\ PeerKey(base, incoming, q) = p
           /\ \A c \in Merge(base, incoming)[n].peers[p] :
                \/ n \in DOMAIN base /\ p \in DOMAIN base[n].peers /\ c \in base[n].peers[p]
                \/ \E k \in DOMAIN incoming : \E q \in DOMAIN incoming[k].peers :
                     /\ Resolved(base, incoming, k) = n /\ PeerKey(base, incoming, q) = p
                     /\ c \in incoming[k].peers[q]
<1> DEFINE from == {k \in DOMAIN incoming : Resolved(base, incoming, k) = n}
           gained == {PeerKey(base, incoming, q) : q \in UNION {DOMAIN incoming[k].peers : k \in from}}
           old == IF n \in DOMAIN base THEN base[n] ELSE [ip |-> <<>>, peers |-> <<>>]
<1>1. Merge(base, incoming)[n] = MergedNode(base, incoming, n)
  BY MergeIs
<1>2. DOMAIN <<>> = {}
  OBVIOUS
<1>3. p \in DOMAIN old.peers => n \in DOMAIN base /\ p \in DOMAIN base[n].peers
  BY <1>2
<1>4. Merge(base, incoming)[n].peers =
        [x \in DOMAIN old.peers \cup (gained \ {n}) |->
           IF x = n THEN old.peers[x] ELSE Connections(base, incoming, n, x)]
  BY <1>1 DEF MergedNode
<1>5. p \in DOMAIN old.peers \/ p \in gained \ {n}
  BY <1>4
<1>6. p \in gained => \E k \in DOMAIN incoming : \E q \in DOMAIN incoming[k].peers :
                        Resolved(base, incoming, k) = n /\ PeerKey(base, incoming, q) = p
  OBVIOUS
<1>7. ASSUME NEW c \in Merge(base, incoming)[n].peers[p]
      PROVE  \/ n \in DOMAIN base /\ p \in DOMAIN base[n].peers /\ c \in base[n].peers[p]
             \/ \E k \in DOMAIN incoming : \E q \in DOMAIN incoming[k].peers :
                  /\ Resolved(base, incoming, k) = n /\ PeerKey(base, incoming, q) = p
                  /\ c \in incoming[k].peers[q]
  <2>1. CASE p = n
    <3>1. c \in old.peers[p] /\ p \in DOMAIN old.peers
      BY <1>4, <1>5, <2>1
    <3> QED
      BY <1>3, <3>1
  <2>2. CASE p # n
    <3>1. c \in Connections(base, incoming, n, p)
      BY <1>4, <2>2
    <3> QED
      BY <3>1 DEF Connections
  <2> QED
    BY <2>1, <2>2
<1> QED
  BY <1>3, <1>5, <1>6, <1>7

LEMMA MergeKeepsBase ==
    ASSUME NEW base, NEW incoming, NEW l \in Links(base)
    PROVE  l \in Links(Merge(base, incoming))
<1>1. PICK n \in DOMAIN base : \E p \in DOMAIN base[n].peers : \E c \in base[n].peers[p] : l = <<n, p, c>>
  BY LinkIs
<1>2. PICK p \in DOMAIN base[n].peers : \E c \in base[n].peers[p] : l = <<n, p, c>>
  BY <1>1
<1>3. PICK c \in base[n].peers[p] : l = <<n, p, c>>
  BY <1>2
<1>4. n \in DOMAIN Merge(base, incoming) /\ Merge(base, incoming)[n] = MergedNode(base, incoming, n)
  BY MergeIs
<1>5. p \in DOMAIN MergedNode(base, incoming, n).peers
  BY DEF MergedNode
<1>6. MergedNode(base, incoming, n).peers[p]
        = IF p = n THEN base[n].peers[p] ELSE Connections(base, incoming, n, p)
  BY DEF MergedNode
<1>7. c \in MergedNode(base, incoming, n).peers[p]
  BY <1>6 DEF Connections
<1> QED
  BY <1>3, <1>4, <1>5, <1>7, LinkIs

LEMMA MergeKeepsIncoming ==
    ASSUME NEW base, NEW incoming, NEW k \in DOMAIN incoming, NEW q \in DOMAIN incoming[k].peers,
           NEW c \in incoming[k].peers[q],
           PeerKey(base, incoming, q) # Resolved(base, incoming, k)
    PROVE  <<Resolved(base, incoming, k), PeerKey(base, incoming, q), c>>
             \in Links(Merge(base, incoming))
<1>1. PICK n : n = Resolved(base, incoming, k)
  OBVIOUS
<1>2. PICK p : p = PeerKey(base, incoming, q)
  OBVIOUS
<1> DEFINE from == {j \in DOMAIN incoming : Resolved(base, incoming, j) = n}
           gained == {PeerKey(base, incoming, x) : x \in UNION {DOMAIN incoming[j].peers : j \in from}}
<1>3. k \in from /\ p \in gained \ {n}
  BY <1>1, <1>2
<1>4. n \in DOMAIN Merge(base, incoming) /\ Merge(base, incoming)[n] = MergedNode(base, incoming, n)
  BY <1>1, MergeIs
<1>5. p \in DOMAIN MergedNode(base, incoming, n).peers
      /\ MergedNode(base, incoming, n).peers[p] = Connections(base, incoming, n, p)
  BY <1>3 DEF MergedNode
<1>6. c \in Connections(base, incoming, n, p)
  BY <1>2, <1>3 DEF Connections
<1> QED
  BY <1>1, <1>2, <1>4, <1>5, <1>6, LinkIs

LEMMA MergedAddress ==
    ASSUME NEW base, Charted(base), NEW incoming, Charted(incoming),
           NEW n \in DOMAIN Merge(base, incoming)
    PROVE  \/ n \in DOMAIN base /\ Merge(base, incoming)[n].ip = base[n].ip
           \/ \E k \in DOMAIN incoming : /\ Resolved(base, incoming, k) = n
                                         /\ Merge(base, incoming)[n].ip = incoming[k].ip
<1> DEFINE from == {k \in DOMAIN incoming : Resolved(base, incoming, k) = n}
           ips == {k \in from : incoming[k].ip # <<>>}
           old == IF n \in DOMAIN base THEN base[n] ELSE [ip |-> <<>>, peers |-> <<>>]
<1>1. Merge(base, incoming)[n] = MergedNode(base, incoming, n)
  BY MergeIs
<1>2. Merge(base, incoming)[n].ip
        = IF old.ip # <<>> \/ ips = {} THEN old.ip ELSE incoming[First(ips)].ip
  BY <1>1 DEF MergedNode
<1>3. CASE old.ip # <<>> \/ ips = {}
  <2>1. CASE n \in DOMAIN base
    BY <1>2, <1>3, <2>1
  <2>2. CASE n \notin DOMAIN base
    <3>1. old.ip = <<>> /\ ips = {}
      BY <1>3, <2>2
    <3>2. PICK k \in from : TRUE
      BY <2>2, MergeIs
    <3> QED
      BY <1>2, <3>1, <3>2
  <2> QED
    BY <2>1, <2>2
<1>4. CASE ~(old.ip # <<>> \/ ips = {})
  <2>1. PICK k \in ips : TRUE
    BY <1>4
  <2>2. ips = {k}
    BY <2>1, ResolvedIs DEF Charted, OneNodeEach, SameBox
  <2> QED
    BY <1>2, <1>4, <2>2, FirstOf
<1> QED
  BY <1>3, <1>4

LEMMA MergeCharted ==
    ASSUME NEW base, Charted(base), NEW incoming, Charted(incoming)
    PROVE  Charted(Merge(base, incoming))
<1> DEFINE map == Merge(base, incoming)
<1>1. \A n \in DOMAIN map : n \in DOMAIN base \/ \E k \in DOMAIN incoming : n = Resolved(base, incoming, k)
  BY MergeIs
<1>2. ASSUME NEW n \in DOMAIN map
      PROVE  \E d \in Answering : Key(d) = n
  BY <1>1, <1>2, ResolvedIs DEF Charted, Noded
<1>3. ASSUME NEW n \in DOMAIN map
      PROVE  \E d \in Answering : Box(d) = BoxOf[n] /\ d.ip = map[n].ip
  BY <1>3, MergedAddress, ResolvedIs DEF Charted, Noded, SameBox
<1>4. ASSUME NEW n \in DOMAIN map, NEW p \in DOMAIN map[n].peers
      PROVE  \E q \in Said : p = StripSuffixes(q)
  <2>1. CASE n \in DOMAIN base /\ p \in DOMAIN base[n].peers
    BY <2>1 DEF Charted, Noded
  <2>2. ASSUME NEW k \in DOMAIN incoming, NEW q \in DOMAIN incoming[k].peers,
               p = PeerKey(base, incoming, q)
        PROVE  \E s \in Said : p = StripSuffixes(s)
    BY <2>2, PeerKeyIs DEF Charted, Noded
  <2> QED
    BY <1>4, <2>1, <2>2, MergedLine
<1>5. OneNodeEach(map)
  <2> SUFFICES ASSUME NEW n \in DOMAIN map, NEW m \in DOMAIN map, BoxOf[n] = BoxOf[m]
               PROVE  n = m
    BY DEF OneNodeEach
  <2>1. CASE n \in DOMAIN base /\ m \in DOMAIN base
    BY <2>1 DEF Charted, OneNodeEach
  <2>2. ASSUME NEW x \in DOMAIN base, NEW k \in DOMAIN incoming, BoxOf[x] = BoxOf[Resolved(base, incoming, k)]
        PROVE  x = Resolved(base, incoming, k)
    BY <2>2, ResolvedIs, NodeName DEF SameBox
  <2>3. ASSUME NEW j \in DOMAIN incoming, NEW k \in DOMAIN incoming,
               BoxOf[Resolved(base, incoming, j)] = BoxOf[Resolved(base, incoming, k)]
        PROVE  j = k
    BY <2>3, ResolvedIs DEF Charted, OneNodeEach, SameBox
  <2> QED
    BY <1>1, <2>1, <2>2, <2>3
<1>6. ASSUME NEW l \in Links(map)
      PROVE  IsCable(l[1], l[2], l[3])
  <2>1. PICK n \in DOMAIN map : \E p \in DOMAIN map[n].peers : \E c \in map[n].peers[p] : l = <<n, p, c>>
    BY <1>6, LinkIs
  <2>2. PICK p \in DOMAIN map[n].peers : \E c \in map[n].peers[p] : l = <<n, p, c>>
    BY <2>1
  <2>3. PICK c \in map[n].peers[p] : l = <<n, p, c>>
    BY <2>2
  <2>4. CASE n \in DOMAIN base /\ p \in DOMAIN base[n].peers /\ c \in base[n].peers[p]
    BY <2>3, <2>4, LinkIs DEF Charted
  <2>5. ASSUME NEW k \in DOMAIN incoming, NEW q \in DOMAIN incoming[k].peers,
               n = Resolved(base, incoming, k), p = PeerKey(base, incoming, q),
               c \in incoming[k].peers[q]
        PROVE  IsCable(n, p, c)
    <3>1. <<k, q, c>> \in Links(incoming)
      BY <2>5, LinkIs
    <3>2. IsCable(k, q, c)
      BY <3>1 DEF Charted
    <3>3. SameBox(n, k) /\ SameBox(p, q)
      BY <2>5, ResolvedIs, PeerKeyIs DEF Charted, Noded
    <3> QED
      BY <3>2, <3>3 DEF IsCable, SameBox
  <2> QED
    BY <2>3, <2>4, <2>5, MergedLine
<1>7. Noded(map)
  BY <1>2, <1>3, <1>4 DEF Noded
<1> QED
  BY <1>5, <1>6, <1>7 DEF Charted

\* A line between two devices of the incoming map is in the merge.
LEMMA MergeKeepsLine ==
    ASSUME NEW base, Charted(base), NEW incoming, Charted(incoming),
           NEW l \in Links(incoming), ~SameBox(l[1], l[2])
    PROVE  \E m \in Links(Merge(base, incoming)) :
             /\ m[3] = l[3] /\ SameBox(m[1], l[1]) /\ SameBox(m[2], l[2])
             /\ l[2] \in DOMAIN incoming => m[2] \in DOMAIN Merge(base, incoming)
<1>1. PICK k \in DOMAIN incoming : \E q \in DOMAIN incoming[k].peers :
        \E c \in incoming[k].peers[q] : l = <<k, q, c>>
  BY LinkIs
<1>2. PICK q \in DOMAIN incoming[k].peers : \E c \in incoming[k].peers[q] : l = <<k, q, c>>
  BY <1>1
<1>3. PICK c \in incoming[k].peers[q] : l = <<k, q, c>>
  BY <1>2
<1>4. PICK n : n = Resolved(base, incoming, k)
  OBVIOUS
<1>5. PICK p : p = PeerKey(base, incoming, q)
  OBVIOUS
<1>6. SameBox(n, k) /\ n \in DOMAIN BoxOf /\ k \in DOMAIN BoxOf
  BY <1>4, ResolvedIs
<1>7. PICK s \in Said : q = StripSuffixes(s)
  BY DEF Charted, Noded
<1>8. SameBox(p, q) /\ (q \in DOMAIN incoming => p = Resolved(base, incoming, q))
  BY <1>5, <1>7, PeerKeyIs
<1>9. p # n
  BY <1>3, <1>6, <1>8 DEF SameBox
<1>10. <<n, p, c>> \in Links(Merge(base, incoming))
  BY <1>4, <1>5, <1>9, MergeKeepsIncoming
<1>11. q \in DOMAIN incoming => p \in DOMAIN Merge(base, incoming)
  BY <1>8, MergeIs
<1> QED
  BY <1>3, <1>6, <1>8, <1>10, <1>11

-----------------------------------------------------------------------------
(* The maps of a run *)

MapsMade == {Generate(ds) : ds \in {s \in Seq(Reports) : Apart(s)}}

TopoInv ==
    /\ devices \in Seq(Reports) /\ Apart(devices)
    /\ maps \in Seq(MapsMade)
    /\ folded \in 0..Len(maps)
    /\ Charted(merged)
    /\ MergeLosesNothing

LEMMA TopoStarts ==
    ASSUME TopoInit
    PROVE  TopoInv
<1>1. devices \in Seq(Reports) /\ Apart(devices) /\ maps \in Seq(MapsMade)
  BY DEF TopoInit, Apart
<1>2. folded \in 0..Len(maps) /\ folded = 0
  BY DEF TopoInit
<1>3. DOMAIN merged = {}
  BY DEF TopoInit, NoMap
<1>4. Charted(merged)
  BY <1>3 DEF Charted, Noded, OneNodeEach, Links
<1> QED
  BY <1>1, <1>2, <1>4 DEF TopoInv, MergeLosesNothing

LEMMA TopoSteps ==
    ASSUME TopoInv, [TopoNext]_topoVars
    PROVE  TopoInv'
<1> USE DEF TopoInv
<1>1. ASSUME NEW d \in Reports, Crawled(d)
      PROVE  TopoInv'
  <2>1. /\ devices' = Append(devices, d)
        /\ \A i \in DOMAIN devices : GoesBy(devices[i]) \cap GoesBy(d) # {} => Key(devices[i]) = Key(d)
        /\ maps' = maps /\ merged' = merged /\ folded' = folded
    BY <1>1 DEF Crawled
  <2>2. devices' \in Seq(Reports)
    BY <2>1
  <2>3. \A i \in DOMAIN devices' :
          (i \in DOMAIN devices /\ devices'[i] = devices[i]) \/ devices'[i] = d
    BY <2>1
  <2>4. Apart(devices')
    BY <2>1, <2>3 DEF Apart
  <2>5. MergeLosesNothing'
    BY <2>1 DEF MergeLosesNothing
  <2> QED
    BY <2>1, <2>2, <2>4, <2>5
<1>2. CASE EndCrawl
  <2>1. /\ maps' = Append(maps, Generate(devices)) /\ devices' = <<>>
        /\ merged' = merged /\ folded' = folded
    BY <1>2 DEF EndCrawl
  <2>2. Generate(devices) \in MapsMade
    BY DEF MapsMade
  <2>3. maps' \in Seq(MapsMade) /\ Len(maps') = Len(maps) + 1
    BY <2>1, <2>2
  <2>4. \A i \in 1..folded : maps'[i] = maps[i]
    BY <2>1
  <2>5. MergeLosesNothing'
    BY <2>1, <2>4 DEF MergeLosesNothing
  <2>6. devices' \in Seq(Reports) /\ Apart(devices')
    BY <2>1 DEF Apart
  <2>7. folded' \in 0..Len(maps')
    BY <2>1, <2>3
  <2> QED
    BY <2>1, <2>3, <2>5, <2>6, <2>7
<1>3. CASE FoldMap
  <2>1. /\ folded < Len(maps) /\ folded' = folded + 1
        /\ merged' = IF folded = 0 THEN maps[1] ELSE Merge(merged, maps[folded + 1])
        /\ devices' = devices /\ maps' = maps
    BY <1>3 DEF FoldMap
  <2>2. folded' \in 0..Len(maps') /\ folded + 1 \in 1..Len(maps)
    BY <2>1
  <2>3. PICK next : next = maps[folded + 1]
    OBVIOUS
  <2>4. next \in MapsMade
    BY <2>2, <2>3
  <2>5. Charted(next)
    BY <2>4, GeneratedCharted DEF MapsMade
  <2>6. CASE folded = 0
    <3>1. merged' = next
      BY <2>1, <2>3, <2>6
    <3>2. \A i \in 1..folded' : maps'[i] = next
      BY <2>1, <2>3, <2>6
    <3>3. MergeLosesNothing'
      BY <3>1, <3>2 DEF MergeLosesNothing, SameBox
    <3>4. Charted(merged')
      BY <2>5, <3>1
    <3> QED
      BY <2>1, <2>2, <3>3, <3>4
  <2>7. CASE folded # 0
    <3>1. merged' = Merge(merged, next)
      BY <2>1, <2>3, <2>7
    <3>2. Charted(merged')
      BY <2>5, <3>1, MergeCharted
    <3>3. ASSUME NEW i \in 1..folded', NEW l \in Links(maps[i]), ~SameBox(l[1], l[2])
          PROVE  \E m \in Links(merged') :
                   /\ m[3] = l[3] /\ SameBox(m[1], l[1]) /\ SameBox(m[2], l[2])
                   /\ l[2] \in DOMAIN maps[i] => m[2] \in DOMAIN merged'
      <4>1. CASE i = folded + 1
        BY <2>3, <2>5, <3>1, <3>3, <4>1, MergeKeepsLine
      <4>2. CASE i \in 1..folded
        <5>1. PICK m \in Links(merged) :
                /\ m[3] = l[3] /\ SameBox(m[1], l[1]) /\ SameBox(m[2], l[2])
                /\ l[2] \in DOMAIN maps[i] => m[2] \in DOMAIN merged
          BY <3>3, <4>2 DEF MergeLosesNothing
        <5>2. m \in Links(merged')
          BY <3>1, MergeKeepsBase
        <5>3. DOMAIN merged \subseteq DOMAIN merged'
          BY <3>1, MergeIs
        <5> QED
          BY <5>1, <5>2, <5>3
      <4> QED
        BY <2>1, <3>3, <4>1, <4>2
    <3>4. MergeLosesNothing'
      BY <2>1, <3>3 DEF MergeLosesNothing
    <3> QED
      BY <2>1, <2>2, <3>2, <3>4
  <2> QED
    BY <2>6, <2>7
<1>4. CASE UNCHANGED topoVars
  BY <1>4 DEF topoVars, MergeLosesNothing
<1> QED
  BY <1>1, <1>2, <1>3, <1>4 DEF TopoNext

LEMMA TopoHolds ==
    ASSUME TopoInv
    PROVE  LinksAreTrue /\ FailedIsShownUnlessNamesake /\ MergeIsLossless
<1> USE DEF TopoInv
<1>1. DrawnIsCabled
  BY LinesAreCables DEF DrawnIsCabled, Charted
<1>2. DrawnAtBothEnds
  BY LinesAtBothEnds DEF DrawnAtBothEnds
<1>3. AgreedIsDrawn
  BY AgreedLines DEF AgreedIsDrawn
<1>4. FailedIsShownUnlessNamesake
  BY FailedLeaf DEF FailedIsShownUnlessNamesake, Shown
<1>5. OneNodePerBox
  BY NodeName DEF OneNodePerBox, Charted, OneNodeEach, SameBox
<1> QED
  BY <1>1, <1>2, <1>3, <1>4, <1>5 DEF LinksAreTrue, MergeIsLossless

LEMMA TopoInvariant == TopoSpec => []TopoInv
<1>1. TopoInit => TopoInv
  BY TopoStarts
<1>2. TopoInv /\ [TopoNext]_topoVars => TopoInv'
  BY TopoSteps
<1> QED
  BY <1>1, <1>2, PTL DEF TopoSpec

\* Every line of every map and of every merge is a cable between the devices it
\* is drawn between, drawn at both ends, and what two devices agree on is drawn.
THEOREM TopoLinksAreTrue == TopoSpec => []LinksAreTrue
<1>1. TopoInv => LinksAreTrue
  BY TopoHolds
<1> QED
  BY <1>1, TopoInvariant, PTL

\* A device that did not answer is on the map wherever it was reported, unless
\* one that answered shares its first label.
THEOREM TopoFailedIsShown == TopoSpec => []FailedIsShownUnlessNamesake
<1>1. TopoInv => FailedIsShownUnlessNamesake
  BY TopoHolds
<1> QED
  BY <1>1, TopoInvariant, PTL

\* However many maps are folded into one, no line between two devices is lost
\* and no device that answered is two nodes.
THEOREM TopoMergeIsLossless == TopoSpec => []MergeIsLossless
<1>1. TopoInv => MergeIsLossless
  BY TopoHolds
<1> QED
  BY <1>1, TopoInvariant, PTL
=============================================================================
