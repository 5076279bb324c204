----------------------------- MODULE RunHandle ------------------------------
(***************************************************************************)
(* Runs as the handles of capi: opening a crawl or a recording, the        *)
(* goroutine behind each, the files it leaves, and the window that watches *)
(* one run at a time (app/runbridge.cpp, app/mainwindow.cpp).  A window    *)
(* that opens a run closes the one before, which is stopped but goes on    *)
(* until its goroutine has written its map and its recording.              *)
(*                                                                         *)
(* What the rows show and how a wake reaches the window is module RunView; *)
(* the temporary file of a map is module MapView.  Here a run is the       *)
(* number of events it has handled, and a recording is the lines on disk.  *)
(* Names are apart from those of RunView, so that RunProofs extends both.  *)
(***************************************************************************)
EXTENDS Naturals, FiniteSets, Sequences

CONSTANTS Paths,      \* maps; a recording lies beside each
          NoPath,     \* a request that names no map
          Requests,   \* crawls that may be asked for
          Faults,     \* what may fail while a crawl is opened
          MaxOpens,   \* bound on attempts to open a run
          MaxSent     \* bound on the events of a crawl

\* vault is what the handle in the request leads to: nothing, a locked vault,
\* or an unlocked one without or with an SNMP credential that is enabled.
Request == [map : Paths \cup {NoPath}, valid : BOOLEAN,
            methods : (SUBSET {"ssh", "snmp"}) \ {{}},
            vault : {"none", "locked", "ssh", "full"}]

ASSUME RunHandleAssumption ==
    /\ NoPath \notin Paths /\ Requests \subseteq Request
    /\ Faults \subseteq {"none", "events", "log", "bindings", "notifier"}
    /\ MaxOpens \in Nat /\ MaxSent \in Nat

VARIABLES up,     \* the application runs
          opens,  \* attempts to open a run so far
          runs,   \* the runs opened, in order: a handle is a place in it
          files,  \* recordings ever created: the lines each holds
          disk,   \* per path, the recording of that name; 0 is none
          maps,   \* per path, the runs that have written the map, the last one last
          cur,    \* the window's run; 0 is none
          wpc,    \* where its pull is
          fin,    \* the progress it read said finished
          told    \* what it was told when its run had finished

hvars == <<up, opens, runs, files, disk, maps, cur, wpc, fin, told>>

fileVars == <<files, disk>>
windowVars == <<cur, wpc, fin, told>>

\* Line 0 of a recording is its header.
Line(r, n) == [run |-> r, n |-> n]
Lines(r, from, to) == [k \in 1..(to + 1 - from) |-> Line(r, from + k - 1)]

\* What the window knows of a run that has finished.
Untold == [run |-> 0, res |-> "running", mapped |-> FALSE]

HInit ==
    /\ up = TRUE /\ opens = 0 /\ runs = <<>> /\ files = <<>>
    /\ disk = [p \in Paths |-> 0] /\ maps = [p \in Paths |-> <<>>]
    /\ cur = 0 /\ wpc = "idle" /\ fin = FALSE /\ told = Untold

-----------------------------------------------------------------------------
(* Opening a run. *)

\* RunBridge.close: the handle is released and the run stopped; whatever its
\* goroutine has begun goes on.
Closed == IF cur = 0 THEN runs ELSE [runs EXCEPT ![cur].stopped = TRUE]

\* The window turns to run r, or to none.
Watch(r) == cur' = r /\ wpc' = "idle" /\ fin' = FALSE /\ told' = Untold

\* Params.Validate and Build: what they refuse.  crawl_open hands over neither
\* static credentials nor communities, so a run without a vault has none.
Buildable(q) ==
    /\ q.valid
    /\ q.vault # "none"
    /\ "snmp" \in q.methods => q.vault = "full"

\* A crawl that is refused before it touches a file.
RefusedAtOnce(q, fault) == q.map = NoPath \/ q.vault = "locked" \/ fault = "events"

\* The crawls that open.
Opens(q, fault) == ~RefusedAtOnce(q, fault) /\ Buildable(q) /\ fault = "none"

Running(r) == runs[r].stage # "over"
At(p) == {r \in DOMAIN runs : runs[r].kind = "crawl" /\ runs[r].path = p}

NewCrawl(p, file) ==
    [kind |-> "crawl", path |-> p, file |-> file, stage |-> "crawling", seq |-> 0,
     stopped |-> FALSE, cancelled |-> FALSE, res |-> "running", closed |-> FALSE,
     out |-> 0, err |-> FALSE, plan |-> 0,
     alone |-> \A r \in At(p) : ~Running(r), touched |-> FALSE, followed |-> FALSE]

\* Every other run recorded at p has had its file created anew; opened says
\* whether a run came of it.
Touched(rs, p, opened) ==
    [r \in DOMAIN rs |->
        IF rs[r].kind = "crawl" /\ rs[r].path = p
        THEN [rs[r] EXCEPT !.touched = TRUE, !.followed = @ \/ opened]
        ELSE rs[r]]

\* os.Create of the recording beside map p: a file of that name is emptied
\* under whoever still has it open.
Created(p) == IF disk[p] = 0 THEN Append(files, <<>>) ELSE [files EXCEPT ![disk[p]] = <<>>]
FileAt(p) == IF disk[p] = 0 THEN Len(files) + 1 ELSE disk[p]

\* omegamaps_crawl_open with a request that fails at once.
RefuseCrawl(q, fault) ==
    /\ RefusedAtOnce(q, fault)
    /\ runs' = Closed /\ Watch(0)
    /\ UNCHANGED <<fileVars, maps>>

\* The log cannot be created, or there is no notifier: an empty recording is
\* left behind.
LeaveEmpty(q, fault) ==
    /\ ~RefusedAtOnce(q, fault)
    /\ fault = "log" \/ (Buildable(q) /\ fault = "notifier")
    /\ runs' = Touched(Closed, q.map, FALSE) /\ Watch(0)
    /\ files' = Created(q.map)
    /\ disk' = [disk EXCEPT ![q.map] = FileAt(q.map)]
    /\ UNCHANGED maps

\* Build refuses: the files are removed again, whatever they were before.
RemoveFiles(q, fault) ==
    /\ ~RefusedAtOnce(q, fault) /\ fault # "log"
    /\ ~Buildable(q) \/ fault = "bindings"
    /\ runs' = Touched(Closed, q.map, FALSE) /\ Watch(0)
    /\ files' = Created(q.map)
    /\ disk' = [disk EXCEPT ![q.map] = 0]
    /\ UNCHANGED maps

StartCrawl(q, fault) ==
    /\ Opens(q, fault)
    /\ runs' = Append(Touched(Closed, q.map, TRUE), NewCrawl(q.map, FileAt(q.map)))
    /\ files' = Created(q.map)
    /\ disk' = [disk EXCEPT ![q.map] = FileAt(q.map)]
    /\ Watch(Len(runs) + 1)
    /\ UNCHANGED maps

OpenCrawl ==
    /\ up /\ opens < MaxOpens /\ opens' = opens + 1 /\ UNCHANGED up
    /\ \E q \in Requests : \E fault \in Faults :
          RefuseCrawl(q, fault) \/ LeaveEmpty(q, fault)
          \/ RemoveFiles(q, fault) \/ StartCrawl(q, fault)

\* ReadEvents: a recording begins with its header, and a line cut short is not
\* read.
Readable(p) ==
    disk[p] # 0 /\ files[disk[p]] # <<>> /\ files[disk[p]][1].n = 0

\* The line being written is cut wherever the buffer was full.
MaybeCut(p) ==
    \E r \in At(p) : runs[r].file = disk[p] /\ runs[r].out > 0 /\ runs[r].out <= runs[r].seq

NewReplay(p) ==
    [NewCrawl(p, disk[p]) EXCEPT !.kind = "replay", !.stage = "playing",
                                 !.plan = Len(files[disk[p]]) - 1]

RefuseReplay(p) ==
    /\ ~Readable(p) \/ MaybeCut(p)
    /\ runs' = Closed /\ Watch(0)

StartReplay(p) ==
    /\ Readable(p)
    /\ runs' = Append(Closed, NewReplay(p)) /\ Watch(Len(runs) + 1)

\* omegamaps_replay_open, of any recording, that of the last run included.
OpenReplay ==
    /\ up /\ opens < MaxOpens /\ opens' = opens + 1
    /\ \E p \in Paths : RefuseReplay(p) \/ StartReplay(p)
    /\ UNCHANGED <<up, fileVars, maps>>

-----------------------------------------------------------------------------
(* The goroutine of a crawl. *)

Live(r) == up /\ r \in DOMAIN runs
CrawlAt(r, stage) == Live(r) /\ runs[r].kind = "crawl" /\ runs[r].stage = stage

\* Run.Handle and its tap, EventWriter.Write, which sends the header first.
Send(r) ==
    /\ CrawlAt(r, "crawling") /\ runs[r].seq < MaxSent
    /\ runs' = [runs EXCEPT ![r].seq = @ + 1]
    /\ UNCHANGED <<up, opens, fileVars, maps, windowVars>>

\* Lines go to disk up to n, wherever in the file the run had come to; or the
\* write fails, and no line after it is written (EventWriter.err).
Written(r, n) == files' = [files EXCEPT ![runs[r].file] = @ \o Lines(r, runs[r].out, n - 1)]

\* The buffer is full: all but the newest line goes, or the write fails.
Spill(r) ==
    /\ CrawlAt(r, "crawling") /\ ~runs[r].err /\ runs[r].out < runs[r].seq
    /\ \/ /\ Written(r, runs[r].seq)
          /\ runs' = [runs EXCEPT ![r].out = runs[r].seq]
       \/ /\ runs' = [runs EXCEPT ![r].err = TRUE]
          /\ UNCHANGED files
    /\ UNCHANGED <<up, opens, disk, maps, windowVars>>

\* CrawlContext returns, and the goroutine asks whether it was stopped.
Return(r) ==
    /\ CrawlAt(r, "crawling")
    /\ runs' = [runs EXCEPT ![r].stage = "returned", ![r].cancelled = runs[r].stopped]
    /\ UNCHANGED <<up, opens, fileVars, maps, windowVars>>

\* Fold and Close, then writeMap, which may fail.
WriteMap(r) ==
    /\ CrawlAt(r, "returned")
    /\ \/ /\ maps' = [maps EXCEPT ![runs[r].path] = Append(@, r)]
          /\ runs' = [runs EXCEPT ![r].stage = "mapped"]
       \/ /\ runs' = [runs EXCEPT ![r].stage = "mapped", ![r].res = "failed"]
          /\ UNCHANGED maps
    /\ UNCHANGED <<up, opens, fileVars, windowVars>>

\* setResult; a map that could not be written outweighs the rest.
Settle(r) ==
    /\ CrawlAt(r, "mapped")
    /\ runs' = [runs EXCEPT ![r].stage = "reported",
                            ![r].res = IF @ = "failed" THEN "failed"
                                       ELSE IF runs[r].cancelled THEN "cancelled" ELSE "done"]
    /\ UNCHANGED <<up, opens, fileVars, maps, windowVars>>

\* Mutant: the run is finished as soon as the crawl has returned.
FinishRun_First(r) ==
    /\ CrawlAt(r, "returned") /\ ~runs[r].closed
    /\ runs' = [runs EXCEPT ![r].closed = TRUE]
    /\ UNCHANGED <<up, opens, fileVars, maps, windowVars>>

\* Run.Finish.
FinishRun(r) ==
    /\ CrawlAt(r, "reported")
    /\ runs' = [runs EXCEPT ![r].stage = "finished", ![r].closed = TRUE]
    /\ UNCHANGED <<up, opens, fileVars, maps, windowVars>>

\* Mutant: a stopped run is not flushed.
Flush_UnlessStopped(r) ==
    /\ CrawlAt(r, "finished")
    /\ \/ /\ ~runs[r].err /\ ~runs[r].cancelled
          /\ Written(r, runs[r].seq + 1)
          /\ runs' = [runs EXCEPT ![r].stage = "over", ![r].out = runs[r].seq + 1]
       \/ /\ runs[r].err \/ runs[r].cancelled
          /\ runs' = [runs EXCEPT ![r].stage = "over"] /\ UNCHANGED files
    /\ UNCHANGED <<up, opens, disk, maps, windowVars>>

\* EventWriter.Flush, which sends the header of a run without events too, and
\* the recording is closed.
Flush(r) ==
    /\ CrawlAt(r, "finished")
    /\ \/ /\ ~runs[r].err /\ Written(r, runs[r].seq + 1)
          /\ runs' = [runs EXCEPT ![r].stage = "over", ![r].out = runs[r].seq + 1]
       \/ /\ runs' = [runs EXCEPT ![r].stage = "over", ![r].err = TRUE]
          /\ UNCHANGED files
    /\ UNCHANGED <<up, opens, disk, maps, windowVars>>

-----------------------------------------------------------------------------
(* The goroutine of a replay (crawlrun.Play). *)

ReplayAt(r) == Live(r) /\ runs[r].stage = "playing"

\* The next event, once its time has come; a stop is looked for just before.
Deliver(r) ==
    /\ ReplayAt(r) /\ ~runs[r].stopped /\ runs[r].seq < runs[r].plan
    /\ runs' = [runs EXCEPT ![r].seq = @ + 1]
    /\ UNCHANGED <<up, opens, fileVars, maps, windowVars>>

\* Mutant: only a stop finishes a replay without events.
PlayEnds_NeedsEvents(r) ==
    /\ ReplayAt(r)
    /\ runs[r].stopped \/ (runs[r].plan > 0 /\ runs[r].seq = runs[r].plan)
    /\ runs' = [runs EXCEPT ![r].stage = "over", ![r].closed = TRUE]
    /\ UNCHANGED <<up, opens, fileVars, maps, windowVars>>

\* The run is finished when it is stopped or the recording is at its end.
PlayEnds(r) ==
    /\ ReplayAt(r)
    /\ runs[r].stopped \/ runs[r].seq = runs[r].plan
    /\ runs' = [runs EXCEPT ![r].stage = "over", ![r].closed = TRUE]
    /\ UNCHANGED <<up, opens, fileVars, maps, windowVars>>

-----------------------------------------------------------------------------
(* The window. *)

\* runState.result: a replay is done when its run is.
Result(r) == IF runs[r].kind = "replay" /\ runs[r].closed THEN "done" ELSE runs[r].res

\* RunBridge.pull: progress is read first.
PullProgress ==
    /\ up /\ cur # 0 /\ wpc = "idle"
    /\ fin' = runs[cur].closed /\ wpc' = "read"
    /\ UNCHANGED <<up, opens, runs, fileVars, maps, cur, told>>

\* MainWindow.onFinished: the result is read, and the map loaded.
Tell ==
    /\ up /\ wpc = "read"
    /\ wpc' = IF fin THEN "told" ELSE "idle"
    /\ told' = IF fin THEN [run |-> cur, res |-> Result(cur),
                            mapped |-> runs[cur].kind = "crawl"
                                       /\ \E k \in DOMAIN maps[runs[cur].path] :
                                             maps[runs[cur].path][k] = cur]
               ELSE told
    /\ UNCHANGED <<up, opens, runs, fileVars, maps, cur, fin>>

\* The stop button (omegamaps_cancel).
Cancel ==
    /\ up /\ cur # 0 /\ wpc # "told" /\ ~runs[cur].stopped
    /\ runs' = [runs EXCEPT ![cur].stopped = TRUE]
    /\ UNCHANGED <<up, opens, fileVars, maps, windowVars>>

\* ~MainWindow closes the run and waits for nothing: what its goroutine has
\* not written is never written.
Quit ==
    /\ up /\ up' = FALSE
    /\ runs' = Closed
    /\ UNCHANGED <<opens, fileVars, maps, windowVars>>

-----------------------------------------------------------------------------
Goroutine(r) ==
    \/ Send(r) \/ Return(r) \/ WriteMap(r) \/ Settle(r) \/ FinishRun(r) \/ Flush(r)
    \/ Deliver(r) \/ PlayEnds(r)

HNext ==
    \/ OpenCrawl \/ OpenReplay \/ PullProgress \/ Tell \/ Cancel \/ Quit
    \/ \E r \in 1..MaxOpens : Goroutine(r) \/ Spill(r)

HSpec == HInit /\ [][HNext]_hvars

\* What is left once a crawl has returned, and a replay.
Winding(r) ==
    WriteMap(r) \/ Settle(r) \/ FinishRun(r) \/ Flush(r) \/ Deliver(r) \/ PlayEnds(r)

(* Goroutines run, and a replay's timers fire.  Nobody owes it that a crawl  *)
(* returns: that is EndsUnlessHeld of module Crawl, and it may not.          *)
HFairSpec == HSpec /\ \A r \in 1..MaxOpens : WF_hvars(Winding(r))

-----------------------------------------------------------------------------
(* Properties. *)

\* Every variable has its type, and a handle leads to a run.
HTypeOK ==
    /\ up \in BOOLEAN /\ fin \in BOOLEAN /\ opens \in 0..MaxOpens
    /\ Len(runs) <= opens /\ Len(files) <= opens /\ cur \in 0..Len(runs)
    /\ \A r \in DOMAIN runs :
          /\ runs[r].path \in Paths /\ runs[r].file \in DOMAIN files
          /\ runs[r].stage \in {"crawling", "returned", "mapped", "reported", "finished",
                                "playing", "over"}
          /\ runs[r].res \in {"running", "done", "cancelled", "failed"}
          /\ runs[r].seq \in Nat /\ runs[r].out \in 0..(MaxSent + 1)
    /\ \A p \in Paths : disk[p] \in 0..Len(files)
    /\ wpc \in {"idle", "read", "told"}

\* Types apart: a window that sees its run finished is given its final result, and finds the
\* map of a crawl that did not fail already written, its own or a later one
\* ("The run is not marked finished until the map is on disk"); a crawl is
\* called cancelled only if it was stopped.
SettledWhenFinished ==
    /\ HTypeOK
    /\ told.run # 0 =>
          /\ told.res # "running"
          /\ runs[told.run].kind = "crawl" /\ told.res # "failed" => told.mapped
          /\ told.res = "cancelled" => runs[told.run].stopped

\* The recording on disk is the whole of run r: its header and every event.
Recorded(r) ==
    /\ disk[runs[r].path] = runs[r].file
    /\ files[runs[r].file] = Lines(r, 0, runs[r].seq)

\* A crawl that is over, stopped or not, has left its whole recording, unless a
\* write failed, a crawl not yet over was writing there when it was opened, or
\* another was asked for at the same path since.
ReplaysUnlessReopened ==
    \A r \in DOMAIN runs :
        /\ runs[r].kind = "crawl" /\ ~Running(r) /\ ~runs[r].err
        /\ runs[r].alone /\ ~runs[r].touched
        => Recorded(r)

\* Every run opened comes to an end, closed by its window or not, unless the
\* application quits or its own crawl never returns: none is left writing for
\* ever, and none waits for another.
RunsEnd ==
    \A r \in 1..MaxOpens :
        []<>(~up \/ r \notin DOMAIN runs \/ ~Running(r)) \/ <>[]CrawlAt(r, "crawling")

-----------------------------------------------------------------------------
(* What the sources say, and the code does not keep. *)

\* "Every crawl records its event stream, so every crawl can be replayed", as
\* long as no other crawl has been recorded over it.
EveryCrawlReplays ==
    \A r \in DOMAIN runs :
        /\ runs[r].kind = "crawl" /\ ~Running(r) /\ ~runs[r].err
        /\ runs[r].alone /\ ~runs[r].followed
        => Recorded(r)
=============================================================================
