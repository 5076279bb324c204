------------------------------ MODULE MapView ------------------------------
(***************************************************************************)
(* The files of a map and the viewers that show it: crawls write it        *)
(* (capi/crawl.go writeMap, cmd/crawl), viewers load it (capi/mapview.go), *)
(* and pages take it from a viewer's server, connect to its nodes and save *)
(* its layout (internal/mapweb).                                           *)
(*                                                                         *)
(* A file keeps what was written last, by name of the crawl, or Empty, or  *)
(* Mixed when two wrote over each other; files are known by the crawl that *)
(* created them, so a rename moves a file from one name to another.  Paths *)
(* are absolute and clean.  The guards on a request, the assets and the    *)
(* picker are left out, and so is the page beyond its requests.            *)
(***************************************************************************)
EXTENDS Naturals, FiniteSets

CONSTANTS
    Crawls, PathOf,      \* the crawls, and where each writes its map
    DevicesOf, LeavesOf, \* the nodes of its map
    InPlace,             \* those of the command line, which write no temporary
    Viewers, Threads,    \* handles, and the callers of the library
    Pages,
    MaxLoads,            \* bound on the maps a viewer loads
    Nothing

Paths == {PathOf[c] : c \in Crawls}
Empty == "empty"
Mixed == "mixed"

ASSUME MapViewAssumption ==
    /\ DOMAIN PathOf = Crawls /\ DOMAIN DevicesOf = Crawls /\ DOMAIN LeavesOf = Crawls
    /\ InPlace \subseteq Crawls
    /\ MaxLoads \in Nat /\ Nothing \notin Crawls \cup Paths \cup Viewers
    /\ Empty \notin Crawls /\ Mixed \notin Crawls

VARIABLES
    dir,     \* the file each name leads to
    bytes,   \* what each file holds
    crawl,   \* per crawl: how far its write is, and into which file
    latest,  \* history: per path, the crawl that last reported it written
    viewer,  \* per handle: the server and the path the window shows
    call,    \* per thread: the load it is in
    page,    \* per page: what it shows, and the layout request under way
    layouts, \* the layout file of each map
    opened   \* history: the last connect, as asked and as made

files == <<dir, bytes, crawl, latest>>
vars == <<files, viewer, call, page, layouts, opened>>

FileNames == Paths \X {"map", "tmp"}
NoCrawl(c) == [at |-> "crawling", file |-> c, shared |-> FALSE]
NoViewer == [state |-> "none", data |-> Nothing, gen |-> 0, layout |-> Nothing,
             path |-> Nothing, locked |-> FALSE]
NoCall == [at |-> "idle", viewer |-> Nothing, path |-> Nothing, data |-> Nothing]
NoPage == [viewer |-> Nothing, data |-> Nothing, gen |-> 0, restored |-> Nothing,
           asks |-> "nothing", file |-> Nothing, body |-> Nothing]

\* A layout: the map of the page that saved it, and whether that page showed a
\* map its server had already left.
Layout == [of : Paths, stale : BOOLEAN]

-----------------------------------------------------------------------------
(* A crawl writes its map *)

Tmp(c) == <<PathOf[c], "tmp">>

\* Mutant: the map is written where it is read.
WrittenTo_InPlace(c) == <<PathOf[c], "map">>

WrittenTo(c) == IF c \in InPlace THEN <<PathOf[c], "map">> ELSE Tmp(c)

Ends(c, how) == crawl' = [crawl EXCEPT ![c].at = how, ![c].file = c]
Writing(c) == crawl[c].at \in {"opened", "written"}

\* os.WriteFile: the file of that name, emptied, or a new one.
OpenMap(c) ==
    /\ crawl[c].at = "crawling"
    /\ LET n == WrittenTo(c)
           f == IF dir[n] = Nothing THEN c ELSE dir[n]
           others == {d \in Crawls : Writing(d) /\ PathOf[d] = PathOf[c]}
       IN  /\ dir' = [dir EXCEPT ![n] = f]
           /\ bytes' = [bytes EXCEPT ![f] = Empty]
           /\ crawl' = [d \in Crawls |->
                IF d = c THEN [at |-> "opened", file |-> f, shared |-> others # {}]
                ELSE [crawl[d] EXCEPT !.shared = @ \/ d \in others]]
    /\ UNCHANGED <<latest, viewer, call, page, layouts, opened>>

\* Over what another crawl left in the file, the end of it may remain.
WriteMap(c) ==
    /\ crawl[c].at = "opened"
    /\ \E b \in IF bytes[crawl[c].file] = Empty THEN {c} ELSE {c, Mixed} :
           bytes' = [bytes EXCEPT ![crawl[c].file] = b]
    /\ crawl' = [crawl EXCEPT ![c].at = "written"]
    /\ UNCHANGED <<dir, latest, viewer, call, page, layouts, opened>>

WriteMapFails(c) ==
    /\ crawl[c].at = "opened"
    /\ bytes' = [bytes EXCEPT ![crawl[c].file] = Mixed]
    /\ Ends(c, "failed")
    /\ UNCHANGED <<dir, latest, viewer, call, page, layouts, opened>>

Publish(c) ==
    /\ crawl[c].at = "written"
    /\ IF c \in InPlace THEN dir' = dir
       ELSE /\ dir[Tmp(c)] # Nothing
            /\ dir' = [dir EXCEPT ![<<PathOf[c], "map">>] = dir[Tmp(c)], ![Tmp(c)] = Nothing]
    /\ Ends(c, "done")
    /\ latest' = [latest EXCEPT ![PathOf[c]] = c]
    /\ UNCHANGED <<bytes, viewer, call, page, layouts, opened>>

\* The temporary is gone: another crawl renamed it.
PublishFails(c) ==
    /\ crawl[c].at = "written" /\ c \notin InPlace
    /\ dir[Tmp(c)] = Nothing
    /\ Ends(c, "failed")
    /\ UNCHANGED <<dir, bytes, latest, viewer, call, page, layouts, opened>>

CrawlDies(c) ==
    /\ Writing(c)
    /\ Ends(c, "failed")
    /\ UNCHANGED <<dir, bytes, latest, viewer, call, page, layouts, opened>>

-----------------------------------------------------------------------------
(* A viewer loads a map *)

\* parseNodes: JSON with at least one device.
Parses(b) == b \in Crawls /\ DevicesOf[b] # {}

\* A device that is also somebody's neighbor keeps its own record.
NodeRefs(b) ==
    [name : DevicesOf[b], of : {b}, discovered : {TRUE}]
    \cup [name : LeavesOf[b] \ DevicesOf[b], of : {b}, discovered : {FALSE}]

\* Opaque, and drawn anew for every load.
Id(v, gen, name) == <<v, gen, name>>

ById(v) == {<<Id(v, viewer[v].gen, n.name), n>> : n \in NodeRefs(viewer[v].data)}

\* Mutant: the layout file is the one of the map before.
Loaded_LateLayout(s, b, p) ==
    [s EXCEPT !.data = b, !.gen = @ + 1, !.layout = IF @ = Nothing THEN p ELSE s.path]

\* Server.SetMapLayout, under the server's lock.
Loaded(s, b, p) == [s EXCEPT !.data = b, !.gen = @ + 1, !.layout = p]

Idle(t) == call' = [call EXCEPT ![t] = NoCall]

\* omegamaps_mapview_open and _load, up to the read.
Call(t, v, p) ==
    /\ call[t].at = "idle"
    /\ viewer[v].state \in {"none", "open"} /\ viewer[v].gen < MaxLoads
    /\ viewer' = [viewer EXCEPT ![v].state = IF @ = "none" THEN "opening" ELSE @]
    /\ call' = [call EXCEPT ![t] = [at |-> "reading", viewer |-> v, path |-> p, data |-> Nothing]]
    /\ UNCHANGED <<files, page, layouts, opened>>

ReadMap(t) ==
    /\ call[t].at = "reading" /\ dir[<<call[t].path, "map">>] # Nothing
    /\ call' = [call EXCEPT ![t].at = "read", ![t].data = bytes[dir[<<call[t].path, "map">>]]]
    /\ UNCHANGED <<files, viewer, page, layouts, opened>>

SetMap(t) ==
    /\ call[t].at = "read" /\ Parses(call[t].data)
    /\ viewer' = [viewer EXCEPT ![call[t].viewer] = Loaded(@, call[t].data, call[t].path)]
    /\ call' = [call EXCEPT ![t].at = "set"]
    /\ UNCHANGED <<files, page, layouts, opened>>

\* v.path, and for a new viewer its handle.
LoadEnds(t) ==
    /\ call[t].at = "set"
    /\ viewer' = [viewer EXCEPT ![call[t].viewer].path = call[t].path,
                     ![call[t].viewer].state = IF @ = "opening" THEN "open" ELSE @]
    /\ Idle(t)
    /\ UNCHANGED <<files, page, layouts, opened>>

\* Mutant: a file that is refused takes the window's path with it.
AfterRefusal_Named(s, p) == [s EXCEPT !.state = IF @ = "opening" THEN "closed" ELSE @, !.path = p]

\* The map before stays; a viewer that has none is closed.
AfterRefusal(s, p) == [s EXCEPT !.state = IF @ = "opening" THEN "closed" ELSE @]

LoadFails(t) ==
    /\ \/ call[t].at = "reading" /\ dir[<<call[t].path, "map">>] = Nothing
       \/ call[t].at = "read" /\ ~Parses(call[t].data)
    /\ viewer' = [viewer EXCEPT ![call[t].viewer] = AfterRefusal(@, call[t].path)]
    /\ Idle(t)
    /\ UNCHANGED <<files, page, layouts, opened>>

\* The listener goes; requests and loads under way run on.
Close(v) ==
    /\ viewer[v].state = "open"
    /\ viewer' = [viewer EXCEPT ![v].state = "closed"]
    /\ UNCHANGED <<files, call, page, layouts, opened>>

\* The viewer's process dies, with its calls and its pages.
ViewerDies(v) ==
    /\ viewer[v].state \in {"opening", "open"}
    /\ viewer' = [viewer EXCEPT ![v].state = "closed", ![v].locked = FALSE]
    /\ call' = [t \in Threads |-> IF call[t].viewer = v THEN NoCall ELSE call[t]]
    /\ page' = [g \in Pages |-> IF page[g].viewer = v THEN NoPage ELSE page[g]]
    /\ UNCHANGED <<files, layouts, opened>>

-----------------------------------------------------------------------------
(* A page and its requests *)

Serves(v) == viewer[v].state \in {"opening", "open"} /\ viewer[v].data # Nothing
Of(g) == PathOf[page[g].data]
Stale(g) == page[g].gen # viewer[page[g].viewer].gen

GetMap(g, v) ==
    /\ page[g].asks = "nothing" /\ Serves(v)
    /\ page' = [page EXCEPT ![g] =
         [NoPage EXCEPT !.viewer = v, !.data = viewer[v].data, !.gen = viewer[v].gen]]
    /\ UNCHANGED <<files, viewer, call, layouts, opened>>

Shows(g) == page[g].data # Nothing /\ page[g].asks = "nothing" /\ Serves(page[g].viewer)

\* Of a page whose server has moved on, the layout is that of the other map.
GetLayout(g) ==
    /\ Shows(g) /\ layouts[viewer[page[g].viewer].layout] # Nothing
    /\ LET saved == layouts[viewer[page[g].viewer].layout]
       IN  page' = [page EXCEPT ![g].restored = [saved EXCEPT !.stale = @ \/ Stale(g)]]
    /\ UNCHANGED <<files, viewer, call, layouts, opened>>

\* PUT or DELETE: the file is the one of the map loaded when the request came.
AskLayout(g, what) ==
    /\ Shows(g)
    /\ page' = [page EXCEPT ![g].asks = what, ![g].file = viewer[page[g].viewer].layout,
                            ![g].body = [of |-> Of(g), stale |-> Stale(g)]]
    /\ UNCHANGED <<files, viewer, call, layouts, opened>>

Answered(g) == page' = [page EXCEPT ![g].asks = "nothing", ![g].file = Nothing, ![g].body = Nothing]
Lock(g, b) == viewer' = [viewer EXCEPT ![page[g].viewer].locked = b]

\* secfile.WriteAtomic: until the rename, the file is what it was.
WhileSaving(l) == l

SaveLayout(g) ==
    /\ page[g].asks = "save" /\ ~viewer[page[g].viewer].locked
    /\ Lock(g, TRUE)
    /\ page' = [page EXCEPT ![g].asks = "saving"]
    /\ layouts' = [layouts EXCEPT ![page[g].file] = WhileSaving(@)]
    /\ UNCHANGED <<files, call, opened>>

CommitLayout(g) ==
    /\ page[g].asks = "saving"
    /\ \/ layouts' = [layouts EXCEPT ![page[g].file] = page[g].body]
       \/ layouts' = layouts \* a step of the write failed
    /\ Lock(g, FALSE) /\ Answered(g)
    /\ UNCHANGED <<files, call, opened>>

ClearLayout(g) ==
    /\ page[g].asks = "clear" /\ ~viewer[page[g].viewer].locked
    /\ layouts' = [layouts EXCEPT ![page[g].file] = Nothing]
    /\ Answered(g)
    /\ UNCHANGED <<files, viewer, call, opened>>

\* By id, as the page had it; an id the loaded map does not have is refused.
Connect(g, name) ==
    /\ Shows(g) /\ \E n \in NodeRefs(page[g].data) : n.name = name
    /\ LET v == page[g].viewer
       IN  \E e \in ById(v) : /\ e[1] = Id(v, page[g].gen, name)
                              /\ opened' = {[shown |-> page[g].data, asked |-> name, got |-> e[2]]}
    /\ UNCHANGED <<files, viewer, call, page, layouts>>

-----------------------------------------------------------------------------
Init ==
    /\ dir = [n \in FileNames |-> Nothing]
    /\ bytes = [c \in Crawls |-> Empty]
    /\ crawl = [c \in Crawls |-> NoCrawl(c)]
    /\ latest = [p \in Paths |-> Nothing]
    /\ viewer = [v \in Viewers |-> NoViewer] /\ call = [t \in Threads |-> NoCall]
    /\ page = [g \in Pages |-> NoPage]
    /\ layouts = [p \in Paths |-> Nothing] /\ opened = {}

Next ==
    \/ \E c \in Crawls : \/ OpenMap(c) \/ WriteMap(c) \/ WriteMapFails(c)
                         \/ Publish(c) \/ PublishFails(c) \/ CrawlDies(c)
    \/ \E t \in Threads : \/ \E v \in Viewers, p \in Paths : Call(t, v, p)
                          \/ ReadMap(t) \/ SetMap(t) \/ LoadEnds(t) \/ LoadFails(t)
    \/ \E v \in Viewers : Close(v) \/ ViewerDies(v) \/ \E g \in Pages : GetMap(g, v)
    \/ \E g \in Pages : \/ GetLayout(g) \/ AskLayout(g, "save") \/ AskLayout(g, "clear")
                        \/ SaveLayout(g) \/ CommitLayout(g) \/ ClearLayout(g)
                        \/ \E c \in Crawls : \E n \in DevicesOf[c] \cup LeavesOf[c] : Connect(g, n)

Spec == Init /\ [][Next]_vars

-----------------------------------------------------------------------------
(* What the files and the viewers promise *)

Written == Crawls \cup {Empty, Mixed}

TypeOK ==
    /\ dir \in [FileNames -> Crawls \cup {Nothing}] /\ bytes \in [Crawls -> Written]
    /\ crawl \in [Crawls -> [at : {"crawling", "opened", "written", "done", "failed"},
                             file : Crawls, shared : BOOLEAN]]
    /\ latest \in [Paths -> Crawls \cup {Nothing}]
    /\ viewer \in [Viewers -> [state : {"none", "opening", "open", "closed"},
            data : Crawls \cup {Nothing}, gen : Nat,
            layout : Paths \cup {Nothing}, path : Paths \cup {Nothing}, locked : BOOLEAN]]
    /\ call \in [Threads -> [at : {"idle", "reading", "read", "set"},
            viewer : Viewers \cup {Nothing}, path : Paths \cup {Nothing}, data : Written \cup {Nothing}]]
    /\ page \in [Pages -> [viewer : Viewers \cup {Nothing}, data : Crawls \cup {Nothing},
            gen : Nat, restored : Layout \cup {Nothing},
            asks : {"nothing", "save", "saving", "clear"}, file : Paths \cup {Nothing},
            body : Layout \cup {Nothing}]]
    /\ layouts \in [Paths -> Layout \cup {Nothing}]

Disturbed(p) ==
    \E c \in Crawls : PathOf[c] = p /\ (crawl[c].shared \/ (c \in InPlace /\ crawl[c].at # "crawling"))

\* "through a temporary file, so a reader never sees a partial one"
\* (capi/crawl.go): where no two crawls wrote to a path at once, and none in
\* place, a reader finds the whole map of the crawl that last reported it
\* written, whatever failed or died since.
WholeMapIsThere ==
    \A p \in Paths : ~Disturbed(p) =>
        IF dir[<<p, "map">>] = Nothing THEN latest[p] = Nothing
        ELSE bytes[dir[<<p, "map">>]] = latest[p]

\* What readers of a map find on disk.
LastDoneIsThere == TypeOK /\ WholeMapIsThere

\* "The server refuses a file that is not a map, and the previous map stays
\* loaded" (capi/mapview.go load): between loads, the window's path, the map
\* served and the layout file are of one map, and a whole one.
OneMapPerViewer ==
    \A v \in Viewers :
        viewer[v].state = "open" /\ (\A t \in Threads : call[t].viewer = v => call[t].at # "set") =>
            /\ viewer[v].data \in Crawls
            /\ PathOf[viewer[v].data] = viewer[v].path
            /\ viewer[v].layout = viewer[v].path

\* "one file per map" (layout.go): a layout, in its file or on a page, was
\* saved by a page showing that map; a page its server has left behind is the
\* one way to another's.
LayoutsStayWithTheirMap ==
    /\ \A p \in Paths : layouts[p] # Nothing =>
           layouts[p] \in Layout /\ (layouts[p].of = p \/ layouts[p].stale)
    /\ \A g \in Pages : page[g].restored # Nothing =>
           page[g].restored.of = Of(g) \/ page[g].restored.stale

\* "a stale page left open in another tab should not still be able to connect
\* to a map the user has moved on from" (server.go): what is opened is the
\* node of the very map the page shows.
ConnectsToWhatIsShown ==
    \A o \in opened : o.got \in NodeRefs(o.shown) /\ o.got.name = o.asked

\* A viewer is of one map, and what is opened from a page is of the map it
\* shows.
ViewersKeepToTheirMap == OneMapPerViewer /\ ConnectsToWhatIsShown
=============================================================================
