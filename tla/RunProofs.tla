----------------------------- MODULE RunProofs -----------------------------
(***************************************************************************)
(* What a window is told of a run that has finished is true, and the       *)
(* recording of a crawl nobody else opened is whole, for any number of     *)
(* runs, paths, requests and faults.                                       *)
(*                                                                         *)
(* The order of a run's goroutine is what makes the first so: the map is   *)
(* written, then the result is set, then the run is marked finished, and   *)
(* none of the three is ever taken back.  Told says what the window has    *)
(* heard, Staged what each run's stage implies.  The second rests on who   *)
(* may write to a file: Placed and Own.                                    *)
(*                                                                         *)
(* The last part is about RunView: what a view shows of one run is what    *)
(* the run holds, and what its recording replays to.                       *)
(***************************************************************************)
EXTENDS RunHandle, RunView, FiniteSetTheorems, WellFoundedInduction, TLAPS

LineRec == [run : Nat, n : Nat]

Run == [kind : {"crawl", "replay"}, path : Paths, file : Nat,
        stage : {"crawling", "returned", "mapped", "reported", "finished", "playing", "over"},
        seq : Nat, stopped : BOOLEAN, cancelled : BOOLEAN,
        res : {"running", "done", "cancelled", "failed"}, closed : BOOLEAN,
        out : Nat, err : BOOLEAN, plan : Nat, alone : BOOLEAN, touched : BOOLEAN, followed : BOOLEAN]

Types ==
    /\ up \in BOOLEAN /\ fin \in BOOLEAN /\ opens \in 0..MaxOpens
    /\ runs \in Seq(Run) /\ Len(runs) <= opens
    /\ files \in Seq(Seq(LineRec)) /\ Len(files) <= opens
    /\ disk \in [Paths -> 0..Len(files)]
    /\ maps \in [Paths -> Seq(Nat)]
    /\ cur \in 0..Len(runs)
    /\ wpc \in {"idle", "read", "told"}
    /\ told \in [run : 0..Len(runs), res : {"running", "done", "cancelled", "failed"}, mapped : BOOLEAN]

\* A run writes to a file there is, and counts no further than its events.
Bounded(x, n) ==
    /\ x.file \in 1..n
    /\ x.out <= MaxSent + 1
    /\ x.kind = "crawl" => x.seq <= MaxSent

\* What its stage says of a run.
Staged(x) ==
    /\ x.kind = "crawl" /\ x.closed => x.stage \in {"finished", "over"}
    /\ x.kind = "crawl" => x.stage # "playing"
    /\ x.kind = "crawl" /\ x.stage \in {"reported", "finished", "over"} => x.res # "running"
    /\ x.kind = "replay" => x.stage \in {"playing", "over"} /\ x.res = "running"
    /\ x.cancelled \/ x.res = "cancelled" => x.stopped

InMap(list, r) == \E k \in DOMAIN list : list[k] = r

\* A crawl past its map has written it, unless that failed.
MapWritten(x, list, r) ==
    x.kind = "crawl" /\ x.stage \in {"mapped", "reported", "finished", "over"} /\ x.res # "failed"
        => InMap(list, r)

Fine(r) ==
    /\ Bounded(runs[r], Len(files))
    /\ Staged(runs[r])
    /\ MapWritten(runs[r], maps[runs[r].path], r)

Told ==
    /\ fin => cur # 0 /\ runs[cur].closed
    /\ told.run # 0 =>
          /\ told.res # "running"
          /\ runs[told.run].kind = "crawl" /\ told.res # "failed" => told.mapped
          /\ told.res = "cancelled" => runs[told.run].stopped

IInv == Types /\ (\A r \in DOMAIN runs : Fine(r)) /\ Told

LEMMA LinesType ==
    ASSUME NEW r \in Nat, NEW a \in Nat, NEW b \in Nat
    PROVE  Lines(r, a, b) \in Seq(LineRec)
<1>1. \A k \in 1..(b + 1 - a) : Line(r, a + k - 1) \in LineRec
  BY DEF Line, LineRec
<1>2. CASE b + 1 - a \in Nat
  BY <1>1, <1>2 DEF Lines
<1>3. CASE b + 1 - a \notin Nat
  <2>1. 1..(b + 1 - a) = {}
    BY <1>3
  <2>2. Lines(r, a, b) = [k \in 1..0 |-> Line(r, a + k - 1)]
    BY <2>1 DEF Lines
  <2> QED
    BY <2>2
<1> QED
  BY <1>2, <1>3

LEMMA StepType ==
    ASSUME Types, NEW r \in DOMAIN runs, NEW y \in Run, runs' = [runs EXCEPT ![r] = y]
    PROVE  /\ runs' \in Seq(Run) /\ Len(runs') = Len(runs) /\ DOMAIN runs' = DOMAIN runs
           /\ runs'[r] = y
           /\ \A s \in DOMAIN runs : s # r => runs'[s] = runs[s]
BY DEF Types

-----------------------------------------------------------------------------
(* One run takes a step. *)

\* The part of a run's record that never changes, and what is never taken back.
Onward(x, y) ==
    /\ y.kind = x.kind /\ y.path = x.path
    /\ x.closed => y.closed
    /\ x.stopped => y.stopped

LEMMA ToldKeeps ==
    ASSUME IInv, \A s \in DOMAIN runs : s \in DOMAIN runs' /\ Onward(runs[s], runs'[s]),
           told' = told, cur' = cur, fin' = fin
    PROVE  Told'
<1>1. fin => cur \in DOMAIN runs
  BY DEF IInv, Types, Told
<1>2. told.run # 0 => told.run \in DOMAIN runs
  BY DEF IInv, Types
<1> QED
  BY <1>1, <1>2 DEF IInv, Told, Onward

\* A list of maps only grows.
Longer(old, new) == \A k \in DOMAIN old : k \in DOMAIN new /\ new[k] = old[k]

LEMMA InMapKeeps ==
    ASSUME NEW old, NEW new, Longer(old, new), NEW r, InMap(old, r)
    PROVE  InMap(new, r)
BY DEF Longer, InMap

LEMMA RunAt ==
    ASSUME IInv, NEW r \in DOMAIN runs
    PROVE  /\ runs[r] \in Run /\ r \in Nat
           /\ runs[r].file \in 1..Len(files) /\ runs[r].out \in 0..(MaxSent + 1)
           /\ runs[r].kind = "crawl" => runs[r].seq \in 0..MaxSent
           /\ Bounded(runs[r], Len(files)) /\ Staged(runs[r])
           /\ MapWritten(runs[r], maps[runs[r].path], r)
<1>1. runs[r] \in Run /\ r \in Nat /\ Fine(r)
  BY DEF IInv, Types
<1>2. MaxSent \in Nat /\ Len(files) \in Nat
  BY RunHandleAssumption DEF IInv, Types
<1> QED
  BY <1>1, <1>2 DEF Fine, Bounded, Run

LEMMA OneRun ==
    ASSUME IInv, NEW r \in DOMAIN runs, NEW y \in Run,
           runs' = [runs EXCEPT ![r] = y], Onward(runs[r], y),
           up' = up, opens' = opens, disk' = disk, windowVars' = windowVars,
           files' \in Seq(Seq(LineRec)), Len(files') = Len(files),
           maps' \in [Paths -> Seq(Nat)], \A p \in Paths : Longer(maps[p], maps'[p]),
           Bounded(y, Len(files)), Staged(y), MapWritten(y, maps'[y.path], r)
    PROVE  IInv'
<1>1. /\ runs' \in Seq(Run) /\ Len(runs') = Len(runs) /\ DOMAIN runs' = DOMAIN runs
      /\ runs'[r] = y
      /\ \A s \in DOMAIN runs : s # r => runs'[s] = runs[s]
  BY StepType DEF IInv
<1>2. Types'
  BY <1>1 DEF IInv, Types, windowVars
<1>3. \A s \in DOMAIN runs' : Fine(s)'
  <2> SUFFICES ASSUME NEW s \in DOMAIN runs PROVE Fine(s)'
    BY <1>1
  <2>1. CASE s = r
    BY <2>1, <1>1 DEF Fine
  <2>2. CASE s # r
    <3>1. runs'[s] = runs[s] /\ Fine(s) /\ runs[s].path \in Paths
      <4>1. runs[s] \in Run
        BY RunAt
      <4>2. Fine(s) /\ runs'[s] = runs[s]
        BY <2>2, <1>1 DEF IInv
      <4> QED
        BY <4>1, <4>2 DEF Run
    <3>2. Longer(maps[runs[s].path], maps'[runs[s].path])
      BY <3>1
    <3>3. InMap(maps[runs[s].path], s) => InMap(maps'[runs[s].path], s)
      BY <3>2, InMapKeeps
    <3>4. MapWritten(runs[s], maps'[runs[s].path], s)
      BY <3>1, <3>3 DEF Fine, MapWritten
    <3> QED
      BY <3>1, <3>4, <1>1 DEF Fine
  <2> QED
    BY <2>1, <2>2
<1>4. Told'
  <2>1. \A s \in DOMAIN runs : s \in DOMAIN runs' /\ Onward(runs[s], runs'[s])
    BY <1>1 DEF Onward
  <2> QED
    BY <2>1, ToldKeeps DEF windowVars
<1> QED
  BY <1>2, <1>3, <1>4 DEF IInv

\* OneRun where the files and the maps stay.
LEMMA QuietStep ==
    ASSUME IInv, NEW r \in DOMAIN runs, NEW y \in Run,
           runs' = [runs EXCEPT ![r] = y], Onward(runs[r], y),
           UNCHANGED <<up, opens, fileVars, maps, windowVars>>,
           Bounded(y, Len(files)), Staged(y), MapWritten(y, maps[y.path], r)
    PROVE  IInv'
<1>1. /\ files' \in Seq(Seq(LineRec)) /\ maps' \in [Paths -> Seq(Nat)]
      /\ \A p \in Paths : Longer(maps[p], maps'[p])
  BY DEF IInv, Types, fileVars, Longer
<1> QED
  BY <1>1, OneRun DEF fileVars

LEMMA WrittenType ==
    ASSUME IInv, NEW r \in DOMAIN runs, NEW n \in Nat \ {0}, Written(r, n)
    PROVE  files' \in Seq(Seq(LineRec)) /\ Len(files') = Len(files)
<1>1. Lines(r, runs[r].out, n - 1) \in Seq(LineRec)
  <2>1. r \in Nat /\ runs[r].out \in Nat /\ n - 1 \in Nat
    BY RunAt, RunHandleAssumption
  <2> QED
    BY <2>1, LinesType
<1>2. files[runs[r].file] \in Seq(LineRec) /\ runs[r].file \in DOMAIN files
  BY RunAt DEF IInv, Types
<1>3. files[runs[r].file] \o Lines(r, runs[r].out, n - 1) \in Seq(LineRec)
  BY <1>1, <1>2
<1> QED
  BY <1>2, <1>3 DEF Written, IInv, Types

-----------------------------------------------------------------------------
(* The goroutine of a crawl. *)

LEMMA SendStep ==
    ASSUME IInv, NEW r \in 1..MaxOpens, Send(r)
    PROVE  IInv'
<1> DEFINE y == [runs[r] EXCEPT !.seq = @ + 1]
<1>1. r \in DOMAIN runs /\ runs[r].kind = "crawl" /\ runs[r].stage = "crawling" /\ runs[r].seq < MaxSent
  BY RunAt DEF Send, CrawlAt, Live
<1>2. /\ y \in Run
      /\ y.kind = runs[r].kind /\ y.path = runs[r].path /\ y.file = runs[r].file /\ y.stage = runs[r].stage
      /\ y.seq = runs[r].seq + 1 /\ y.stopped = runs[r].stopped /\ y.cancelled = runs[r].cancelled
      /\ y.res = runs[r].res /\ y.closed = runs[r].closed /\ y.out = runs[r].out
  <2>1. runs[r] \in Run
    BY <1>1, RunAt
  <2> QED
    BY <1>1, <2>1 DEF Run
<1>3. runs' = [runs EXCEPT ![r] = y] /\ UNCHANGED <<up, opens, fileVars, maps, windowVars>>
  BY <1>1 DEF Send
<1>4. Onward(runs[r], y) /\ Bounded(y, Len(files)) /\ Staged(y) /\ MapWritten(y, maps[y.path], r)
  BY <1>1, <1>2, RunAt, RunHandleAssumption DEF Onward, Bounded, Staged, MapWritten
<1> HIDE DEF y
<1> QED
  BY <1>1, <1>2, <1>3, <1>4, QuietStep

LEMMA ReturnStep ==
    ASSUME IInv, NEW r \in 1..MaxOpens, Return(r)
    PROVE  IInv'
<1> DEFINE y == [runs[r] EXCEPT !.stage = "returned", !.cancelled = runs[r].stopped]
<1>1. r \in DOMAIN runs /\ runs[r].kind = "crawl" /\ runs[r].stage = "crawling"
  BY RunAt DEF Return, CrawlAt, Live
<1>2. /\ y \in Run
      /\ y.kind = runs[r].kind /\ y.path = runs[r].path /\ y.file = runs[r].file /\ y.stage = "returned"
      /\ y.seq = runs[r].seq /\ y.stopped = runs[r].stopped /\ y.cancelled = runs[r].stopped
      /\ y.res = runs[r].res /\ y.closed = runs[r].closed /\ y.out = runs[r].out
  <2>1. runs[r] \in Run
    BY <1>1, RunAt
  <2> QED
    BY <1>1, <2>1 DEF Run
<1>3. runs' = [runs EXCEPT ![r] = y] /\ UNCHANGED <<up, opens, fileVars, maps, windowVars>>
  BY <1>1 DEF Return
<1>4. Onward(runs[r], y) /\ Bounded(y, Len(files)) /\ Staged(y) /\ MapWritten(y, maps[y.path], r)
  BY <1>1, <1>2, RunAt DEF Onward, Bounded, Staged, MapWritten
<1> HIDE DEF y
<1> QED
  BY <1>1, <1>2, <1>3, <1>4, QuietStep

LEMMA SettleStep ==
    ASSUME IInv, NEW r \in 1..MaxOpens, Settle(r)
    PROVE  IInv'
<1> DEFINE y == [runs[r] EXCEPT !.stage = "reported",
                             !.res = IF @ = "failed" THEN "failed"
                                     ELSE IF runs[r].cancelled THEN "cancelled" ELSE "done"]
<1>1. r \in DOMAIN runs /\ runs[r].kind = "crawl" /\ runs[r].stage = "mapped"
  BY RunAt DEF Settle, CrawlAt, Live
<1>2. /\ y \in Run
      /\ y.kind = runs[r].kind /\ y.path = runs[r].path /\ y.file = runs[r].file /\ y.stage = "reported"
      /\ y.seq = runs[r].seq /\ y.stopped = runs[r].stopped /\ y.cancelled = runs[r].cancelled
      /\ y.res = (IF runs[r].res = "failed" THEN "failed"
                    ELSE IF runs[r].cancelled THEN "cancelled" ELSE "done") /\ y.closed = runs[r].closed /\ y.out = runs[r].out
  <2>1. runs[r] \in Run
    BY <1>1, RunAt
  <2> QED
    BY <1>1, <2>1 DEF Run
<1>3. runs' = [runs EXCEPT ![r] = y] /\ UNCHANGED <<up, opens, fileVars, maps, windowVars>>
  BY <1>1 DEF Settle
<1>4. Onward(runs[r], y) /\ Bounded(y, Len(files)) /\ Staged(y) /\ MapWritten(y, maps[y.path], r)
  BY <1>1, <1>2, RunAt DEF Onward, Bounded, Staged, MapWritten
<1> HIDE DEF y
<1> QED
  BY <1>1, <1>2, <1>3, <1>4, QuietStep

LEMMA FinishRunStep ==
    ASSUME IInv, NEW r \in 1..MaxOpens, FinishRun(r)
    PROVE  IInv'
<1> DEFINE y == [runs[r] EXCEPT !.stage = "finished", !.closed = TRUE]
<1>1. r \in DOMAIN runs /\ runs[r].kind = "crawl" /\ runs[r].stage = "reported"
  BY RunAt DEF FinishRun, CrawlAt, Live
<1>2. /\ y \in Run
      /\ y.kind = runs[r].kind /\ y.path = runs[r].path /\ y.file = runs[r].file /\ y.stage = "finished"
      /\ y.seq = runs[r].seq /\ y.stopped = runs[r].stopped /\ y.cancelled = runs[r].cancelled
      /\ y.res = runs[r].res /\ y.closed = TRUE /\ y.out = runs[r].out
  <2>1. runs[r] \in Run
    BY <1>1, RunAt
  <2> QED
    BY <1>1, <2>1 DEF Run
<1>3. runs' = [runs EXCEPT ![r] = y] /\ UNCHANGED <<up, opens, fileVars, maps, windowVars>>
  BY <1>1 DEF FinishRun
<1>4. Onward(runs[r], y) /\ Bounded(y, Len(files)) /\ Staged(y) /\ MapWritten(y, maps[y.path], r)
  BY <1>1, <1>2, RunAt DEF Onward, Bounded, Staged, MapWritten
<1> HIDE DEF y
<1> QED
  BY <1>1, <1>2, <1>3, <1>4, QuietStep

-----------------------------------------------------------------------------
(* The goroutine of a replay, and stopping a run. *)

LEMMA DeliverStep ==
    ASSUME IInv, NEW r \in 1..MaxOpens, Deliver(r)
    PROVE  IInv'
<1> DEFINE y == [runs[r] EXCEPT !.seq = @ + 1]
<1>1. r \in DOMAIN runs /\ runs[r].kind = "replay" /\ runs[r].stage = "playing"
  BY RunAt DEF Deliver, ReplayAt, Live, Staged, Run
<1>2. /\ y \in Run
      /\ y.kind = runs[r].kind /\ y.path = runs[r].path /\ y.file = runs[r].file /\ y.stage = runs[r].stage
      /\ y.seq = runs[r].seq + 1 /\ y.stopped = runs[r].stopped /\ y.cancelled = runs[r].cancelled
      /\ y.res = runs[r].res /\ y.closed = runs[r].closed /\ y.out = runs[r].out
  <2>1. runs[r] \in Run
    BY <1>1, RunAt
  <2> QED
    BY <1>1, <2>1 DEF Run
<1>3. runs' = [runs EXCEPT ![r] = y] /\ UNCHANGED <<up, opens, fileVars, maps, windowVars>>
  BY <1>1 DEF Deliver
<1>4. Onward(runs[r], y) /\ Bounded(y, Len(files)) /\ Staged(y) /\ MapWritten(y, maps[y.path], r)
  BY <1>1, <1>2, RunAt DEF Onward, Bounded, Staged, MapWritten
<1> HIDE DEF y
<1> QED
  BY <1>1, <1>2, <1>3, <1>4, QuietStep

LEMMA PlayEndsStep ==
    ASSUME IInv, NEW r \in 1..MaxOpens, PlayEnds(r)
    PROVE  IInv'
<1> DEFINE y == [runs[r] EXCEPT !.stage = "over", !.closed = TRUE]
<1>1. r \in DOMAIN runs /\ runs[r].kind = "replay" /\ runs[r].stage = "playing"
  BY RunAt DEF PlayEnds, ReplayAt, Live, Staged, Run
<1>2. /\ y \in Run
      /\ y.kind = runs[r].kind /\ y.path = runs[r].path /\ y.file = runs[r].file /\ y.stage = "over"
      /\ y.seq = runs[r].seq /\ y.stopped = runs[r].stopped /\ y.cancelled = runs[r].cancelled
      /\ y.res = runs[r].res /\ y.closed = TRUE /\ y.out = runs[r].out
  <2>1. runs[r] \in Run
    BY <1>1, RunAt
  <2> QED
    BY <1>1, <2>1 DEF Run
<1>3. runs' = [runs EXCEPT ![r] = y] /\ UNCHANGED <<up, opens, fileVars, maps, windowVars>>
  BY <1>1 DEF PlayEnds
<1>4. Onward(runs[r], y) /\ Bounded(y, Len(files)) /\ Staged(y) /\ MapWritten(y, maps[y.path], r)
  BY <1>1, <1>2, RunAt DEF Onward, Bounded, Staged, MapWritten
<1> HIDE DEF y
<1> QED
  BY <1>1, <1>2, <1>3, <1>4, QuietStep

LEMMA SpillStep ==
    ASSUME IInv, NEW r \in 1..MaxOpens, Spill(r)
    PROVE  IInv'
<1>1. r \in DOMAIN runs /\ runs[r].kind = "crawl" /\ runs[r].stage = "crawling" /\ runs[r].out < runs[r].seq
  BY DEF Spill, CrawlAt, Live
<1>2. runs[r] \in Run /\ runs[r].seq \in 0..MaxSent /\ runs[r].out \in Nat /\ MaxSent \in Nat
  BY <1>1, RunAt, RunHandleAssumption DEF Run
<1>3. CASE /\ Written(r, runs[r].seq)
           /\ runs' = [runs EXCEPT ![r].out = runs[r].seq]
  <2> DEFINE y == [runs[r] EXCEPT !.out = runs[r].seq]
  <2>1. /\ y \in Run
        /\ y.kind = runs[r].kind /\ y.path = runs[r].path /\ y.file = runs[r].file /\ y.stage = runs[r].stage
        /\ y.seq = runs[r].seq /\ y.stopped = runs[r].stopped /\ y.cancelled = runs[r].cancelled
        /\ y.res = runs[r].res /\ y.closed = runs[r].closed /\ y.out = runs[r].seq
    BY <1>1, <1>2 DEF Run
  <2>2. runs' = [runs EXCEPT ![r] = y]
    BY <1>3
  <2>3. Onward(runs[r], y) /\ Bounded(y, Len(files)) /\ Staged(y) /\ MapWritten(y, maps[y.path], r)
    BY <1>1, <1>2, <2>1, RunAt DEF Onward, Bounded, Staged, MapWritten
  <2>4. files' \in Seq(Seq(LineRec)) /\ Len(files') = Len(files)
    <3>1. runs[r].seq \in Nat \ {0}
      BY <1>1, <1>2
    <3> QED
      BY <1>1, <1>3, <3>1, WrittenType
  <2>5. /\ up' = up /\ opens' = opens /\ disk' = disk /\ windowVars' = windowVars
        /\ maps' \in [Paths -> Seq(Nat)] /\ \A p \in Paths : Longer(maps[p], maps'[p])
        /\ MapWritten(y, maps'[y.path], r)
    BY <2>3 DEF Spill, IInv, Types, Longer
  <2> HIDE DEF y
  <2> QED
    BY <1>1, <2>1, <2>2, <2>3, <2>4, <2>5, OneRun
<1>4. CASE runs' = [runs EXCEPT ![r].err = TRUE] /\ UNCHANGED files
  <2> DEFINE y == [runs[r] EXCEPT !.err = TRUE]
  <2>1. /\ y \in Run
        /\ y.kind = runs[r].kind /\ y.path = runs[r].path /\ y.file = runs[r].file /\ y.stage = runs[r].stage
        /\ y.seq = runs[r].seq /\ y.stopped = runs[r].stopped /\ y.cancelled = runs[r].cancelled
        /\ y.res = runs[r].res /\ y.closed = runs[r].closed /\ y.out = runs[r].out
    BY <1>1, <1>2 DEF Run
  <2>2. runs' = [runs EXCEPT ![r] = y] /\ UNCHANGED <<up, opens, fileVars, maps, windowVars>>
    BY <1>4 DEF Spill, fileVars
  <2>3. Onward(runs[r], y) /\ Bounded(y, Len(files)) /\ Staged(y) /\ MapWritten(y, maps[y.path], r)
    BY <1>1, <2>1, RunAt DEF Onward, Bounded, Staged, MapWritten
  <2> HIDE DEF y
  <2> QED
    BY <1>1, <2>1, <2>2, <2>3, QuietStep
<1> QED
  BY <1>3, <1>4 DEF Spill

LEMMA FlushStep ==
    ASSUME IInv, NEW r \in 1..MaxOpens, Flush(r)
    PROVE  IInv'
<1>1. r \in DOMAIN runs /\ runs[r].kind = "crawl" /\ runs[r].stage = "finished"
  BY DEF Flush, CrawlAt, Live
<1>2. runs[r] \in Run /\ runs[r].seq \in 0..MaxSent /\ MaxSent \in Nat
  BY <1>1, RunAt, RunHandleAssumption
<1>3. CASE /\ Written(r, runs[r].seq + 1)
           /\ runs' = [runs EXCEPT ![r].stage = "over", ![r].out = runs[r].seq + 1]
  <2> DEFINE y == [runs[r] EXCEPT !.stage = "over", !.out = runs[r].seq + 1]
  <2>1. /\ y \in Run
        /\ y.kind = runs[r].kind /\ y.path = runs[r].path /\ y.file = runs[r].file /\ y.stage = "over"
        /\ y.seq = runs[r].seq /\ y.stopped = runs[r].stopped /\ y.cancelled = runs[r].cancelled
        /\ y.res = runs[r].res /\ y.closed = runs[r].closed /\ y.out = runs[r].seq + 1
    <3>1. runs[r].seq + 1 \in Nat
      BY <1>2
    <3> QED
      BY <1>2, <3>1 DEF Run
  <2>2. runs' = [runs EXCEPT ![r] = y]
    BY <1>1, <1>3
  <2>3. Onward(runs[r], y) /\ Bounded(y, Len(files)) /\ Staged(y) /\ MapWritten(y, maps[y.path], r)
    BY <1>1, <1>2, <2>1, RunAt DEF Onward, Bounded, Staged, MapWritten
  <2>4. files' \in Seq(Seq(LineRec)) /\ Len(files') = Len(files)
    <3>1. runs[r].seq + 1 \in Nat \ {0}
      BY <1>2
    <3> QED
      BY <1>1, <1>3, <3>1, WrittenType
  <2>5. /\ up' = up /\ opens' = opens /\ disk' = disk /\ windowVars' = windowVars
        /\ maps' \in [Paths -> Seq(Nat)] /\ \A p \in Paths : Longer(maps[p], maps'[p])
        /\ MapWritten(y, maps'[y.path], r)
    BY <2>3 DEF Flush, IInv, Types, Longer
  <2> HIDE DEF y
  <2> QED
    BY <1>1, <2>1, <2>2, <2>3, <2>4, <2>5, OneRun
<1>4. CASE runs' = [runs EXCEPT ![r].stage = "over", ![r].err = TRUE] /\ UNCHANGED files
  <2> DEFINE y == [runs[r] EXCEPT !.stage = "over", !.err = TRUE]
  <2>1. /\ y \in Run
        /\ y.kind = runs[r].kind /\ y.path = runs[r].path /\ y.file = runs[r].file /\ y.stage = "over"
        /\ y.seq = runs[r].seq /\ y.stopped = runs[r].stopped /\ y.cancelled = runs[r].cancelled
        /\ y.res = runs[r].res /\ y.closed = runs[r].closed /\ y.out = runs[r].out
    BY <1>1, <1>2 DEF Run
  <2>2. runs' = [runs EXCEPT ![r] = y] /\ UNCHANGED <<up, opens, fileVars, maps, windowVars>>
    BY <1>1, <1>4 DEF Flush, fileVars
  <2>3. Onward(runs[r], y) /\ Bounded(y, Len(files)) /\ Staged(y) /\ MapWritten(y, maps[y.path], r)
    BY <1>1, <2>1, RunAt DEF Onward, Bounded, Staged, MapWritten
  <2> HIDE DEF y
  <2> QED
    BY <1>1, <2>1, <2>2, <2>3, QuietStep
<1> QED
  BY <1>3, <1>4 DEF Flush

LEMMA WriteMapStep ==
    ASSUME IInv, NEW r \in 1..MaxOpens, WriteMap(r)
    PROVE  IInv'
<1>1. r \in DOMAIN runs /\ runs[r].kind = "crawl" /\ runs[r].stage = "returned"
  BY DEF WriteMap, CrawlAt, Live
<1>2. runs[r] \in Run /\ r \in Nat /\ runs[r].path \in Paths
  BY <1>1, RunAt DEF Run
<1>3. CASE /\ maps' = [maps EXCEPT ![runs[r].path] = Append(@, r)]
           /\ runs' = [runs EXCEPT ![r].stage = "mapped"]
  <2> DEFINE y == [runs[r] EXCEPT !.stage = "mapped"]
  <2>1. /\ y \in Run
        /\ y.kind = runs[r].kind /\ y.path = runs[r].path /\ y.file = runs[r].file /\ y.stage = "mapped"
        /\ y.seq = runs[r].seq /\ y.stopped = runs[r].stopped /\ y.cancelled = runs[r].cancelled
        /\ y.res = runs[r].res /\ y.closed = runs[r].closed /\ y.out = runs[r].out
    BY <1>1, <1>2 DEF Run
  <2>2. runs' = [runs EXCEPT ![r] = y]
    BY <1>3
  <2>3. Onward(runs[r], y) /\ Bounded(y, Len(files)) /\ Staged(y)
    BY <1>1, <2>1, RunAt DEF Onward, Bounded, Staged
  <2>4. maps' \in [Paths -> Seq(Nat)] /\ \A p \in Paths : Longer(maps[p], maps'[p])
    <3>1. maps \in [Paths -> Seq(Nat)]
      BY DEF IInv, Types
    <3>2. \A p \in Paths : maps'[p] = IF p = runs[r].path THEN Append(maps[p], r) ELSE maps[p]
      BY <1>2, <1>3, <3>1
    <3>3. maps' \in [Paths -> Seq(Nat)]
      BY <1>2, <1>3, <3>1
    <3>4. ASSUME NEW p \in Paths PROVE Longer(maps[p], maps'[p])
      <4>1. maps[p] \in Seq(Nat)
        BY <3>1
      <4>2. Longer(maps[p], Append(maps[p], r)) /\ Longer(maps[p], maps[p])
        BY <1>2, <4>1 DEF Longer
      <4> QED
        BY <3>2, <4>2
    <3> QED
      BY <3>3, <3>4
  <2>5. InMap(maps'[runs[r].path], r)
    <3>1. maps[runs[r].path] \in Seq(Nat) /\ maps'[runs[r].path] = Append(maps[runs[r].path], r)
      BY <1>2, <1>3 DEF IInv, Types
    <3>2. /\ Len(maps[runs[r].path]) + 1 \in DOMAIN Append(maps[runs[r].path], r)
          /\ Append(maps[runs[r].path], r)[Len(maps[runs[r].path]) + 1] = r
      BY <3>1, <1>2
    <3> QED
      BY <3>1, <3>2 DEF InMap
  <2>6. MapWritten(y, maps'[y.path], r)
    BY <2>1, <2>5 DEF MapWritten
  <2>7. /\ up' = up /\ opens' = opens /\ disk' = disk /\ windowVars' = windowVars
        /\ files' \in Seq(Seq(LineRec)) /\ Len(files') = Len(files)
    BY DEF WriteMap, fileVars, IInv, Types
  <2> HIDE DEF y
  <2> QED
    BY <1>1, <2>1, <2>2, <2>3, <2>4, <2>6, <2>7, OneRun
<1>4. CASE /\ runs' = [runs EXCEPT ![r].stage = "mapped", ![r].res = "failed"]
           /\ UNCHANGED maps
  <2> DEFINE y == [runs[r] EXCEPT !.stage = "mapped", !.res = "failed"]
  <2>1. /\ y \in Run
        /\ y.kind = runs[r].kind /\ y.path = runs[r].path /\ y.file = runs[r].file /\ y.stage = "mapped"
        /\ y.seq = runs[r].seq /\ y.stopped = runs[r].stopped /\ y.cancelled = runs[r].cancelled
        /\ y.res = "failed" /\ y.closed = runs[r].closed /\ y.out = runs[r].out
    BY <1>1, <1>2 DEF Run
  <2>2. runs' = [runs EXCEPT ![r] = y] /\ UNCHANGED <<up, opens, fileVars, maps, windowVars>>
    BY <1>1, <1>4 DEF WriteMap
  <2>3. Onward(runs[r], y) /\ Bounded(y, Len(files)) /\ Staged(y) /\ MapWritten(y, maps[y.path], r)
    BY <1>1, <2>1, RunAt DEF Onward, Bounded, Staged, MapWritten
  <2> HIDE DEF y
  <2> QED
    BY <1>1, <2>1, <2>2, <2>3, QuietStep
<1> QED
  BY <1>3, <1>4 DEF WriteMap
-----------------------------------------------------------------------------
(* The window. *)

LEMMA PullProgressStep ==
    ASSUME IInv, PullProgress
    PROVE  IInv'
<1>1. cur \in DOMAIN runs /\ runs[cur] \in Run /\ runs[cur].closed \in BOOLEAN
  <2>1. cur \in DOMAIN runs
    BY DEF PullProgress, IInv, Types
  <2> QED
    BY <2>1, RunAt DEF Run
<1>2. Types'
  BY <1>1 DEF PullProgress, IInv, Types, fileVars
<1>3. Told'
  BY <1>1 DEF PullProgress, IInv, Told
<1>4. \A s \in DOMAIN runs' : Fine(s)'
  BY DEF PullProgress, IInv, Fine, fileVars
<1> QED
  BY <1>2, <1>3, <1>4 DEF IInv

LEMMA TellStep ==
    ASSUME IInv, Tell
    PROVE  IInv'
<1>1. UNCHANGED <<up, opens, runs, fileVars, maps, cur, fin>>
  BY DEF Tell
<1>2. \A s \in DOMAIN runs' : Fine(s)'
  BY <1>1 DEF IInv, Fine, fileVars
<1>3. CASE ~fin
  BY <1>1, <1>2, <1>3 DEF Tell, IInv, Types, Told, fileVars
<1>4. CASE fin
  <2>1. /\ cur \in DOMAIN runs /\ runs[cur].closed
        /\ runs[cur] \in Run /\ Staged(runs[cur]) /\ MapWritten(runs[cur], maps[runs[cur].path], cur)
    <3>1. cur \in DOMAIN runs /\ runs[cur].closed
      BY <1>4 DEF IInv, Types, Told
    <3> QED
      BY <3>1, RunAt
  <2>2. told' = [run |-> cur, res |-> Result(cur),
                 mapped |-> runs[cur].kind = "crawl" /\ InMap(maps[runs[cur].path], cur)]
    BY <1>4 DEF Tell, InMap
  <2>3. /\ Result(cur) \in {"running", "done", "cancelled", "failed"} /\ Result(cur) # "running"
        /\ Result(cur) = "cancelled" => runs[cur].stopped
        /\ runs[cur].kind = "crawl" => Result(cur) = runs[cur].res
    BY <2>1 DEF Result, Staged, Run
  <2>4. runs[cur].kind = "crawl" /\ Result(cur) # "failed" => InMap(maps[runs[cur].path], cur)
    BY <2>1, <2>3 DEF MapWritten, Staged
  <2>5. /\ told'.run = cur /\ told'.res = Result(cur)
        /\ told'.mapped = (runs[cur].kind = "crawl" /\ InMap(maps[runs[cur].path], cur))
    BY <2>2
  <2>6. told' \in [run : 0..Len(runs), res : {"running", "done", "cancelled", "failed"},
                   mapped : BOOLEAN]
    BY <2>1, <2>2, <2>3 DEF IInv, Types
  <2>7. Types'
    BY <1>1, <1>4, <2>6 DEF Tell, IInv, Types, fileVars
  <2>8. Told'
    BY <1>1, <1>4, <2>1, <2>3, <2>4, <2>5 DEF IInv, Types, Told
  <2> QED
    BY <1>2, <2>7, <2>8 DEF IInv
<1> QED
  BY <1>3, <1>4

\* Stopping a run changes one mark of it.
LEMMA StopFine ==
    ASSUME IInv, NEW r \in DOMAIN runs
    PROVE  LET y == [runs[r] EXCEPT !.stopped = TRUE]
           IN  /\ y \in Run /\ Onward(runs[r], y)
               /\ Bounded(y, Len(files)) /\ Staged(y) /\ MapWritten(y, maps[y.path], r)
<1> DEFINE y == [runs[r] EXCEPT !.stopped = TRUE]
<1>1. runs[r] \in Run
  BY RunAt
<1>2. /\ y \in Run
      /\ y.kind = runs[r].kind /\ y.path = runs[r].path /\ y.file = runs[r].file /\ y.stage = runs[r].stage
      /\ y.seq = runs[r].seq /\ y.stopped = TRUE /\ y.cancelled = runs[r].cancelled
      /\ y.res = runs[r].res /\ y.closed = runs[r].closed /\ y.out = runs[r].out
  BY <1>1 DEF Run
<1>3. Onward(runs[r], y) /\ Bounded(y, Len(files)) /\ Staged(y) /\ MapWritten(y, maps[y.path], r)
  BY <1>2, RunAt DEF Onward, Bounded, Staged, MapWritten
<1> QED
  BY <1>2, <1>3

LEMMA CancelStep ==
    ASSUME IInv, Cancel
    PROVE  IInv'
<1> DEFINE y == [runs[cur] EXCEPT !.stopped = TRUE]
<1>1. cur \in DOMAIN runs
  BY DEF Cancel, IInv, Types
<1>2. /\ y \in Run /\ Onward(runs[cur], y)
      /\ Bounded(y, Len(files)) /\ Staged(y) /\ MapWritten(y, maps[y.path], cur)
  BY <1>1, StopFine
<1>3. runs' = [runs EXCEPT ![cur] = y] /\ UNCHANGED <<up, opens, fileVars, maps, windowVars>>
  BY DEF Cancel
<1> HIDE DEF y
<1> QED
  BY <1>1, <1>2, <1>3, QuietStep

\* Closing leaves every run what it was, but for the mark on the one watched.
LEMMA ClosedFine ==
    ASSUME IInv
    PROVE  /\ Closed \in Seq(Run) /\ Len(Closed) = Len(runs) /\ DOMAIN Closed = DOMAIN runs
           /\ \A s \in DOMAIN runs :
                 /\ Onward(runs[s], Closed[s]) /\ Bounded(Closed[s], Len(files))
                 /\ Staged(Closed[s]) /\ MapWritten(Closed[s], maps[Closed[s].path], s)
<1> DEFINE y == [runs[cur] EXCEPT !.stopped = TRUE]
<1>1. runs \in Seq(Run) /\ cur \in 0..Len(runs)
  BY DEF IInv, Types
<1>2. ASSUME NEW s \in DOMAIN runs
      PROVE  /\ Onward(runs[s], runs[s]) /\ Bounded(runs[s], Len(files))
             /\ Staged(runs[s]) /\ MapWritten(runs[s], maps[runs[s].path], s)
  BY RunAt DEF Onward
<1>3. CASE cur = 0
  BY <1>1, <1>2, <1>3 DEF Closed
<1>4. CASE cur # 0
  <2>1. cur \in DOMAIN runs
    BY <1>1, <1>4
  <2>2. /\ y \in Run /\ Onward(runs[cur], y)
        /\ Bounded(y, Len(files)) /\ Staged(y) /\ MapWritten(y, maps[y.path], cur)
    BY <2>1, StopFine
  <2>3. Closed = [runs EXCEPT ![cur] = y]
    BY <1>4 DEF Closed
  <2> HIDE DEF y
  <2>4. /\ Closed \in Seq(Run) /\ Len(Closed) = Len(runs) /\ DOMAIN Closed = DOMAIN runs
        /\ Closed[cur] = y /\ \A s \in DOMAIN runs : s # cur => Closed[s] = runs[s]
    BY <1>1, <2>1, <2>2, <2>3
  <2> QED
    BY <1>2, <2>2, <2>4
<1> QED
  BY <1>3, <1>4

LEMMA QuitStep ==
    ASSUME IInv, Quit
    PROVE  IInv'
<1>1. runs' = Closed /\ up' = FALSE /\ UNCHANGED <<opens, fileVars, maps, windowVars>>
  BY DEF Quit
<1>2. /\ Closed \in Seq(Run) /\ Len(Closed) = Len(runs) /\ DOMAIN Closed = DOMAIN runs
      /\ \A s \in DOMAIN runs :
            /\ Onward(runs[s], Closed[s]) /\ Bounded(Closed[s], Len(files))
            /\ Staged(Closed[s]) /\ MapWritten(Closed[s], maps[Closed[s].path], s)
  BY ClosedFine
<1>3. Types'
  BY <1>1, <1>2 DEF IInv, Types, fileVars, windowVars
<1>4. Told'
  BY <1>1, <1>2, ToldKeeps DEF windowVars
<1>5. \A s \in DOMAIN runs' : Fine(s)'
  BY <1>1, <1>2 DEF Fine, fileVars
<1> QED
  BY <1>3, <1>4, <1>5 DEF IInv
-----------------------------------------------------------------------------
(* Opening a run. *)

\* os.Create adds a recording or empties one.
LEMMA CreatedType ==
    ASSUME IInv, NEW p \in Paths
    PROVE  /\ Created(p) \in Seq(Seq(LineRec))
           /\ Len(Created(p)) \in {Len(files), Len(files) + 1}
           /\ FileAt(p) \in 1..Len(Created(p))
<1>1. files \in Seq(Seq(LineRec)) /\ disk[p] \in 0..Len(files) /\ <<>> \in Seq(LineRec)
  BY DEF IInv, Types
<1>2. CASE disk[p] = 0
  BY <1>1, <1>2 DEF Created, FileAt
<1>3. CASE disk[p] # 0
  <2>1. disk[p] \in DOMAIN files
    BY <1>1, <1>3
  <2> QED
    BY <1>1, <1>3, <2>1 DEF Created, FileAt
<1> QED
  BY <1>2, <1>3

\* What the marks of a reopened recording leave alone.
LEMMA TouchedFine ==
    ASSUME IInv, NEW p \in Paths, NEW b \in BOOLEAN
    PROVE  /\ Touched(Closed, p, b) \in Seq(Run) /\ Len(Touched(Closed, p, b)) = Len(runs)
           /\ DOMAIN Touched(Closed, p, b) = DOMAIN runs
           /\ \A s \in DOMAIN runs :
                 LET y == Touched(Closed, p, b)[s]
                 IN  /\ Onward(runs[s], y) /\ Bounded(y, Len(files))
                     /\ Staged(y) /\ MapWritten(y, maps[y.path], s)
<1> DEFINE t == Touched(Closed, p, b)
<1>1. /\ Closed \in Seq(Run) /\ Len(Closed) = Len(runs) /\ DOMAIN Closed = DOMAIN runs
      /\ \A s \in DOMAIN runs :
            /\ Onward(runs[s], Closed[s]) /\ Bounded(Closed[s], Len(files))
            /\ Staged(Closed[s]) /\ MapWritten(Closed[s], maps[Closed[s].path], s)
  BY ClosedFine
<1> DEFINE u(s) == [Closed[s] EXCEPT !.touched = TRUE, !.followed = @ \/ b]
<1>2. ASSUME NEW s \in DOMAIN runs
      PROVE  /\ u(s) \in Run
             /\ Onward(runs[s], u(s)) /\ Bounded(u(s), Len(files))
             /\ Staged(u(s)) /\ MapWritten(u(s), maps[u(s).path], s)
  <2> DEFINE x == Closed[s]
  <2>1. x \in Run
    BY <1>1
  <2>2. x.followed \/ b \in BOOLEAN
    BY <2>1 DEF Run
  <2>3. /\ u(s) \in Run
        /\ u(s).kind = x.kind /\ u(s).path = x.path /\ u(s).file = x.file /\ u(s).stage = x.stage
        /\ u(s).seq = x.seq /\ u(s).stopped = x.stopped /\ u(s).cancelled = x.cancelled
        /\ u(s).res = x.res /\ u(s).closed = x.closed /\ u(s).out = x.out
    BY <2>1, <2>2 DEF Run
  <2>4. /\ Onward(runs[s], x) /\ Bounded(x, Len(files))
        /\ Staged(x) /\ MapWritten(x, maps[x.path], s)
    BY <1>1
  <2> QED
    BY <2>3, <2>4 DEF Onward, Bounded, Staged, MapWritten
<1>3. /\ DOMAIN t = DOMAIN runs
      /\ \A s \in DOMAIN runs : t[s] = u(s) \/ t[s] = Closed[s]
  BY <1>1 DEF Touched
<1>4. ASSUME NEW s \in DOMAIN runs PROVE t[s] \in Run
  <2>1. Closed[s] \in Run
    BY <1>1
  <2> HIDE DEF t, u
  <2> QED
    BY <1>2, <1>3, <2>1
<1>5. DOMAIN runs = 1..Len(runs) /\ Len(runs) \in Nat
  BY DEF IInv, Types
<1>6. t \in Seq(Run) /\ Len(t) = Len(runs)
  <2> DEFINE v(s) == IF Closed[s].kind = "crawl" /\ Closed[s].path = p THEN u(s) ELSE Closed[s]
  <2>1. t = [s \in 1..Len(runs) |-> v(s)]
    BY <1>1, <1>5 DEF Touched
  <2>2. \A s \in 1..Len(runs) : v(s) \in Run
    <3>1. \A s \in DOMAIN runs : t[s] = v(s)
      BY <1>5, <2>1
    <3> HIDE DEF t, v
    <3> QED
      BY <1>4, <1>5, <3>1
  <2> HIDE DEF t, v
  <2> QED
    BY <1>5, <2>1, <2>2
<1>7. ASSUME NEW s \in DOMAIN runs
      PROVE  /\ Onward(runs[s], t[s]) /\ Bounded(t[s], Len(files))
             /\ Staged(t[s]) /\ MapWritten(t[s], maps[t[s].path], s)
  <2> HIDE DEF t, u
  <2> QED
    BY <1>1, <1>2, <1>3
<1> QED
  BY <1>3, <1>6, <1>7
\* The runs there were, as rs has them, and perhaps one more.
Stamped(rs) ==
    /\ rs \in Seq(Run) /\ Len(rs) = Len(runs) /\ DOMAIN rs = DOMAIN runs
    /\ \A s \in DOMAIN runs :
          /\ Bounded(rs[s], Len(files))
          /\ Staged(rs[s]) /\ MapWritten(rs[s], maps[rs[s].path], s)

Opening(rs, w) ==
    /\ Watch(w) /\ up' = up /\ opens < MaxOpens /\ opens' = opens + 1 /\ maps' = maps
    /\ Stamped(rs)
    /\ files' \in Seq(Seq(LineRec)) /\ Len(files') \in {Len(files), Len(files) + 1}
    /\ disk' \in [Paths -> 0..Len(files')]

LEMMA OpeningTypes ==
    ASSUME IInv, NEW rs, NEW w, Opening(rs, w),
           runs' \in Seq(Run), Len(runs') \in {Len(runs), Len(runs) + 1}, w \in 0..Len(runs')
    PROVE  Types' /\ Told'
<1>1. /\ Len(runs) \in Nat /\ Len(files) \in Nat /\ opens \in 0..MaxOpens /\ MaxOpens \in Nat
      /\ Len(runs) <= opens /\ Len(files) <= opens /\ up \in BOOLEAN /\ maps \in [Paths -> Seq(Nat)]
  BY RunHandleAssumption DEF IInv, Types
<1>2. /\ cur' = w /\ wpc' = "idle" /\ fin' = FALSE
      /\ told' = [run |-> 0, res |-> "running", mapped |-> FALSE]
  BY DEF Opening, Watch, Untold
<1>3. told'.run = 0 /\ told' \in [run : 0..Len(runs'), res : {"running", "done", "cancelled", "failed"},
                                  mapped : BOOLEAN]
  <2>1. 0 \in 0..Len(runs')
    BY <1>1
  <2> QED
    BY <1>2, <2>1
<1>4. opens' \in 0..MaxOpens /\ Len(runs') <= opens' /\ Len(files') <= opens'
  BY <1>1 DEF Opening
<1> QED
  BY <1>1, <1>2, <1>3, <1>4 DEF Opening, Types, Told

LEMMA StampedFine ==
    ASSUME IInv, NEW rs, NEW w, Opening(rs, w), NEW s \in DOMAIN runs, runs'[s] = rs[s]
    PROVE  Fine(s)'
<1>1. Bounded(rs[s], Len(files)) => Bounded(rs[s], Len(files'))
  <2>1. Len(files) \in Nat /\ Len(files') >= Len(files)
    BY DEF IInv, Types, Opening
  <2> QED
    BY <2>1 DEF Bounded
<1> QED
  BY <1>1 DEF Opening, Stamped, Fine

LEMMA OpenedNone ==
    ASSUME IInv, NEW rs, Opening(rs, 0), runs' = rs
    PROVE  IInv'
<1>1. runs' \in Seq(Run) /\ Len(runs') = Len(runs) /\ DOMAIN runs' = DOMAIN runs /\ 0 \in 0..Len(runs')
  BY DEF Opening, Stamped, IInv, Types
<1>2. Types' /\ Told'
  BY <1>1, OpeningTypes
<1>3. \A s \in DOMAIN runs' : Fine(s)'
  BY <1>1, StampedFine
<1> QED
  BY <1>2, <1>3 DEF IInv

LEMMA OpenedOne ==
    ASSUME IInv, NEW rs, Opening(rs, Len(runs) + 1), NEW z \in Run, runs' = Append(rs, z),
           Bounded(z, Len(files')), Staged(z), z.stage \in {"crawling", "playing"}
    PROVE  IInv'
<1>1. rs \in Seq(Run) /\ Len(rs) = Len(runs) /\ DOMAIN rs = DOMAIN runs /\ Len(runs) \in Nat
      /\ DOMAIN runs = 1..Len(runs)
  BY DEF Opening, Stamped, IInv, Types
<1>2. /\ runs' \in Seq(Run) /\ Len(runs') = Len(runs) + 1 /\ Len(runs) + 1 \in 0..Len(runs')
      /\ DOMAIN runs' = 1..(Len(runs) + 1)
      /\ runs'[Len(runs) + 1] = z
      /\ \A s \in DOMAIN runs : runs'[s] = rs[s]
  BY <1>1
<1>3. Types' /\ Told'
  BY <1>2, OpeningTypes
<1>4. ASSUME NEW s \in DOMAIN runs', s = Len(runs) + 1 PROVE Fine(s)'
  <2>1. runs'[s] = z
    BY <1>2, <1>4
  <2> QED
    BY <2>1 DEF Fine, MapWritten
<1>5. ASSUME NEW s \in DOMAIN runs PROVE Fine(s)'
  BY <1>2, StampedFine
<1>6. \A s \in DOMAIN runs' : s \in DOMAIN runs \/ s = Len(runs) + 1
  BY <1>1, <1>2
<1>7. \A s \in DOMAIN runs' : Fine(s)'
  <2> SUFFICES ASSUME NEW s \in DOMAIN runs' PROVE Fine(s)'
    OBVIOUS
  <2>1. CASE s \in DOMAIN runs
    BY <2>1, <1>5
  <2>2. CASE s = Len(runs) + 1
    BY <2>2, <1>4
  <2> QED
    BY <2>1, <2>2, <1>6
<1> QED
  BY <1>3, <1>7 DEF IInv

LEMMA NewCrawlFine ==
    ASSUME IInv, NEW p \in Paths, NEW f \in Nat
    PROVE  LET z == NewCrawl(p, f)
           IN  /\ z \in Run /\ z.kind = "crawl" /\ z.path = p /\ z.file = f /\ z.stage = "crawling"
               /\ z.seq = 0 /\ z.out = 0 /\ Staged(z)
<1>1. (\A r \in At(p) : ~Running(r)) \in BOOLEAN
  OBVIOUS
<1>2. NewCrawl(p, f) \in Run
  BY <1>1 DEF NewCrawl, Run
<1> QED
  BY <1>2 DEF NewCrawl, Staged

LEMMA OpenCrawlStep ==
    ASSUME IInv, OpenCrawl
    PROVE  IInv'
<1>1. PICK q \in Requests, fault \in Faults :
         \/ RefuseCrawl(q, fault) \/ LeaveEmpty(q, fault)
         \/ RemoveFiles(q, fault) \/ StartCrawl(q, fault)
  BY DEF OpenCrawl
<1>2. up' = up /\ opens < MaxOpens /\ opens' = opens + 1
  BY DEF OpenCrawl
<1>3. files \in Seq(Seq(LineRec)) /\ disk \in [Paths -> 0..Len(files)] /\ Len(files) \in Nat
      /\ MaxSent \in Nat
  BY RunHandleAssumption DEF IInv, Types
<1>4. Stamped(Closed)
  BY ClosedFine DEF Stamped
<1>5. CASE RefuseCrawl(q, fault)
  <2>1. Opening(Closed, 0) /\ runs' = Closed
    BY <1>2, <1>3, <1>4, <1>5 DEF RefuseCrawl, Opening, fileVars
  <2> QED
    BY <2>1, OpenedNone
<1>6. ~RefusedAtOnce(q, fault) => q.map \in Paths
  BY RunHandleAssumption DEF RefusedAtOnce, Request
<1>7. q.map \in Paths =>
         /\ Created(q.map) \in Seq(Seq(LineRec))
         /\ Len(Created(q.map)) \in {Len(files), Len(files) + 1}
         /\ FileAt(q.map) \in 1..Len(Created(q.map))
  BY CreatedType
<1>8. ASSUME NEW d \in {0, FileAt(q.map)}, q.map \in Paths, files' = Created(q.map),
             disk' = [disk EXCEPT ![q.map] = d]
      PROVE  /\ files' \in Seq(Seq(LineRec)) /\ Len(files') \in {Len(files), Len(files) + 1}
             /\ disk' \in [Paths -> 0..Len(files')] /\ FileAt(q.map) \in 1..Len(files')
  BY <1>3, <1>7, <1>8
<1>9. ASSUME NEW b \in BOOLEAN, q.map \in Paths
      PROVE  Stamped(Touched(Closed, q.map, b))
  BY <1>9, TouchedFine DEF Stamped
<1>10. CASE LeaveEmpty(q, fault)
  <2>1. /\ q.map \in Paths /\ files' = Created(q.map) /\ Watch(0) /\ maps' = maps
        /\ disk' = [disk EXCEPT ![q.map] = FileAt(q.map)]
        /\ runs' = Touched(Closed, q.map, FALSE)
    BY <1>6, <1>10 DEF LeaveEmpty
  <2>2. Opening(Touched(Closed, q.map, FALSE), 0)
    BY <1>2, <1>8, <1>9, <2>1 DEF Opening
  <2> QED
    BY <2>1, <2>2, OpenedNone
<1>11. CASE RemoveFiles(q, fault)
  <2>1. /\ q.map \in Paths /\ files' = Created(q.map) /\ Watch(0) /\ maps' = maps
        /\ disk' = [disk EXCEPT ![q.map] = 0]
        /\ runs' = Touched(Closed, q.map, FALSE)
    BY <1>6, <1>11 DEF RemoveFiles
  <2>2. Opening(Touched(Closed, q.map, FALSE), 0)
    BY <1>2, <1>8, <1>9, <2>1 DEF Opening
  <2> QED
    BY <2>1, <2>2, OpenedNone
<1>12. CASE StartCrawl(q, fault)
  <2> DEFINE z == NewCrawl(q.map, FileAt(q.map))
  <2>1. /\ q.map \in Paths /\ files' = Created(q.map) /\ Watch(Len(runs) + 1) /\ maps' = maps
        /\ disk' = [disk EXCEPT ![q.map] = FileAt(q.map)]
        /\ runs' = Append(Touched(Closed, q.map, TRUE), z)
    BY <1>6, <1>12 DEF StartCrawl, Opens
  <2>2. Opening(Touched(Closed, q.map, TRUE), Len(runs) + 1) /\ FileAt(q.map) \in 1..Len(files')
    BY <1>2, <1>8, <1>9, <2>1 DEF Opening
  <2>3. FileAt(q.map) \in Nat
    BY <2>2
  <2>4. /\ z \in Run /\ z.kind = "crawl" /\ z.file = FileAt(q.map) /\ z.stage = "crawling"
        /\ z.seq = 0 /\ z.out = 0 /\ Staged(z)
    BY <2>1, <2>3, NewCrawlFine
  <2>5. Bounded(z, Len(files'))
    BY <1>3, <2>2, <2>4 DEF Bounded
  <2> HIDE DEF z
  <2> QED
    BY <2>1, <2>2, <2>4, <2>5, OpenedOne
<1> QED
  BY <1>1, <1>5, <1>10, <1>11, <1>12

LEMMA OpenReplayStep ==
    ASSUME IInv, OpenReplay
    PROVE  IInv'
<1>1. PICK p \in Paths : RefuseReplay(p) \/ StartReplay(p)
  BY DEF OpenReplay
<1>2. Stamped(Closed)
  BY ClosedFine DEF Stamped
<1>3. /\ files \in Seq(Seq(LineRec)) /\ disk \in [Paths -> 0..Len(files)] /\ Len(files) \in Nat
      /\ MaxSent \in Nat
  BY RunHandleAssumption DEF IInv, Types
<1>4. ASSUME NEW w, Watch(w) PROVE Opening(Closed, w)
  BY <1>2, <1>3, <1>4 DEF OpenReplay, Opening, fileVars
<1>5. CASE RefuseReplay(p)
  BY <1>4, <1>5, OpenedNone DEF RefuseReplay
<1>6. CASE StartReplay(p)
  <2> DEFINE x == NewCrawl(p, disk[p])
             z == NewReplay(p)
  <2>1. disk[p] \in 1..Len(files) /\ files[disk[p]] \in Seq(LineRec) /\ files[disk[p]] # <<>>
    <3>1. disk[p] \in 1..Len(files) /\ files[disk[p]] # <<>>
      BY <1>3, <1>6 DEF StartReplay, Readable
    <3> QED
      BY <1>3, <3>1
  <2>2. Len(files[disk[p]]) - 1 \in Nat /\ disk[p] \in Nat
    BY <2>1
  <2>3. /\ x \in Run /\ x.kind = "crawl" /\ x.path = p /\ x.file = disk[p] /\ x.stage = "crawling"
        /\ x.seq = 0 /\ x.out = 0 /\ Staged(x)
    BY <2>2, NewCrawlFine
  <2>4. /\ z \in Run /\ z.kind = "replay" /\ z.stage = "playing" /\ z.file = disk[p]
        /\ z.out = x.out /\ z.res = x.res /\ z.closed = x.closed
        /\ z.cancelled = x.cancelled /\ z.stopped = x.stopped
    BY <2>2, <2>3 DEF NewReplay, Run
  <2>5. x.res = "running"
    BY DEF NewCrawl
  <2>6. Bounded(z, Len(files')) /\ Staged(z)
    <3>1. files' = files
      BY DEF OpenReplay, fileVars
    <3> QED
      BY <1>3, <2>1, <2>3, <2>4, <2>5, <3>1 DEF Bounded, Staged
  <2>7. runs' = Append(Closed, z) /\ Opening(Closed, Len(runs) + 1)
    BY <1>4, <1>6 DEF StartReplay
  <2> HIDE DEF z
  <2> QED
    BY <2>4, <2>6, <2>7, OpenedOne
<1> QED
  BY <1>1, <1>5, <1>6

-----------------------------------------------------------------------------
(* Whatever happens, in whatever order. *)

LEMMA InitIInv == HInit => IInv
<1> SUFFICES ASSUME HInit PROVE IInv
  OBVIOUS
<1>1. runs = <<>> /\ files = <<>> /\ Len(runs) = 0 /\ Len(files) = 0 /\ DOMAIN runs = {}
  BY DEF HInit
<1>2. told = [run |-> 0, res |-> "running", mapped |-> FALSE] /\ 0 \in 0..Len(runs)
  BY <1>1 DEF HInit, Untold
<1>3. told \in [run : 0..Len(runs), res : {"running", "done", "cancelled", "failed"},
                mapped : BOOLEAN]
  BY <1>2
<1>4. maps \in [Paths -> Seq(Nat)]
  <2>1. <<>> \in Seq(Nat)
    OBVIOUS
  <2> QED
    BY <2>1 DEF HInit
<1>5. runs \in Seq(Run) /\ files \in Seq(Seq(LineRec))
  BY <1>1
<1>6. disk \in [Paths -> 0..Len(files)]
  BY <1>1 DEF HInit
<1>7. opens \in 0..MaxOpens /\ Len(runs) <= opens /\ Len(files) <= opens
  BY <1>1, RunHandleAssumption DEF HInit
<1>8. Types
  BY <1>1, <1>2, <1>3, <1>4, <1>5, <1>6, <1>7 DEF HInit, Types
<1>9. told.run = 0
  BY <1>2
<1> QED
  BY <1>1, <1>8, <1>9 DEF HInit, IInv, Told

LEMMA GoroutineStep ==
    ASSUME IInv, NEW r \in 1..MaxOpens, Goroutine(r)
    PROVE  IInv'
BY SendStep, ReturnStep, WriteMapStep, SettleStep, FinishRunStep, FlushStep, DeliverStep, PlayEndsStep
   DEF Goroutine

LEMMA NextIInv == IInv /\ [HNext]_hvars => IInv'
<1> SUFFICES ASSUME IInv, [HNext]_hvars PROVE IInv'
  OBVIOUS
<1>1. CASE UNCHANGED hvars
  BY <1>1 DEF hvars, fileVars, windowVars, IInv, Types, Told, Fine
<1>2. CASE \E r \in 1..MaxOpens : Goroutine(r) \/ Spill(r)
  BY <1>2, GoroutineStep, SpillStep
<1> QED
  BY <1>1, <1>2, OpenCrawlStep, OpenReplayStep, PullProgressStep, TellStep, CancelStep, QuitStep DEF HNext

LEMMA IInvSettled == IInv => SettledWhenFinished
<1> SUFFICES ASSUME IInv PROVE SettledWhenFinished
  OBVIOUS
<1>1. /\ MaxSent \in Nat /\ cur \in 0..Len(runs) /\ Len(runs) \in Nat /\ Len(files) \in Nat
      /\ up \in BOOLEAN /\ fin \in BOOLEAN /\ opens \in 0..MaxOpens
      /\ Len(runs) <= opens /\ Len(files) <= opens /\ disk \in [Paths -> 0..Len(files)]
      /\ wpc \in {"idle", "read", "told"} /\ DOMAIN files = 1..Len(files)
  BY RunHandleAssumption DEF IInv, Types
<1>2. ASSUME NEW r \in DOMAIN runs
      PROVE  /\ runs[r].path \in Paths /\ runs[r].file \in DOMAIN files
             /\ runs[r].stage \in {"crawling", "returned", "mapped", "reported", "finished",
                                   "playing", "over"}
             /\ runs[r].res \in {"running", "done", "cancelled", "failed"}
             /\ runs[r].seq \in Nat /\ runs[r].out \in 0..(MaxSent + 1)
  BY <1>1, RunAt DEF Run
<1>3. HTypeOK
  BY <1>1, <1>2 DEF HTypeOK
<1> QED
  BY <1>3 DEF IInv, Told, SettledWhenFinished

\* A window that is told its run has finished is told the truth: the run has its
\* final result, the map of a crawl that did not fail has been written, and
\* only a run that was stopped is called cancelled, however many runs are opened
\* over each other, refused, stopped or closed, and whichever write fails.
THEOREM RunSettledWhenFinished == HSpec => []SettledWhenFinished
<1>1. HSpec => []IInv
  BY InitIInv, NextIInv, PTL DEF HSpec
<1> QED
  BY <1>1, IInvSettled, PTL
-----------------------------------------------------------------------------
(* What is on disk of a recording.  A crawl that was alone when it was     *)
(* opened, and whose recording nobody has opened since, is the only one    *)
(* that writes there: Placed says that a file belongs to one path, Own     *)
(* that every line the run has sent is there and nothing else.             *)

Upto(r, n) == [k \in 1..n |-> Line(r, k - 1)]

Crawls == {r \in DOMAIN runs : runs[r].kind = "crawl"}

\* No file serves two paths.
Placed ==
    /\ \A p, q \in Paths : disk[p] # 0 /\ disk[p] = disk[q] => p = q
    /\ \A r \in Crawls : \A p \in Paths : runs[r].file = disk[p] => runs[r].path = p
    /\ \A r, s \in Crawls : runs[r].file = runs[s].file => runs[r].path = runs[s].path

\* Before the flush no more is written than was handled, after it everything is.
Counted(x) ==
    /\ x.stage # "over" => x.out <= x.seq
    /\ x.stage = "over" /\ ~x.err => x.out = x.seq + 1

Left(x) == x.alone /\ ~x.touched

Own(r) ==
    Left(runs[r]) =>
        /\ disk[runs[r].path] = runs[r].file
        /\ files[runs[r].file] = Upto(r, runs[r].out)
        /\ \A s \in Crawls : s # r /\ runs[s].path = runs[r].path => runs[s].stage = "over"

Rec == Placed /\ \A r \in Crawls : Counted(runs[r]) /\ Own(r)

\* What stands where in two sequences put together.
LEMMA InFront ==
    ASSUME NEW S, NEW u \in Seq(S), NEW l \in Seq(S), NEW k \in 1..Len(u)
    PROVE  (u \o l)[k] = u[k]
<1>1. Len(u) \in Nat /\ Len(l) \in Nat /\ k \in 1..Len(u) + Len(l) /\ k <= Len(u)
  OBVIOUS
<1> QED
  BY <1>1

LEMMA Behind ==
    ASSUME NEW S, NEW u \in Seq(S), NEW l \in Seq(S), NEW m \in 1..Len(l)
    PROVE  (u \o l)[Len(u) + m] = l[m]
<1>1. Len(u) \in Nat /\ Len(l) \in Nat /\ m \in Nat /\ m <= Len(l) /\ m > 0
  OBVIOUS
<1>2. Len(u) + m \in 1..Len(u) + Len(l) /\ Len(u) + m > Len(u) /\ Len(u) + m - Len(u) = m
  BY <1>1
<1> QED
  BY <1>1, <1>2

LEMMA Alike ==
    ASSUME NEW S, NEW u \in Seq(S), NEW v \in Seq(S), Len(u) = Len(v),
           \A k \in 1..Len(v) : u[k] = v[k]
    PROVE  u = v
<1>1. u = [k \in 1..Len(u) |-> u[k]] /\ v = [k \in 1..Len(v) |-> v[k]]
  OBVIOUS
<1> QED
  BY <1>1

\* Lines that follow each other make one run of lines.
LEMMA Joined ==
    ASSUME NEW r \in Nat, NEW a \in Nat, NEW b \in Nat, a < b
    PROVE  Upto(r, a) \o Lines(r, a, b - 1) = Upto(r, b)
<1>1. PICK c \in Nat : b = a + c /\ b - 1 + 1 - a = c
  <2>1. b - a \in Nat /\ b = a + (b - a) /\ b - 1 + 1 - a = b - a
    OBVIOUS
  <2> QED
    BY <2>1
<1>2. Lines(r, a, b - 1) = [k \in 1..c |-> Line(r, a + k - 1)]
  BY <1>1 DEF Lines
<1>3. \A n \in Nat : Line(r, n) \in LineRec
  BY DEF Line, LineRec
<1>4. PICK l : l = [k \in 1..c |-> Line(r, a + k - 1)]
  OBVIOUS
<1>5. l \in Seq(LineRec) /\ Len(l) = c /\ \A k \in 1..c : l[k] = Line(r, a + k - 1)
  <2>1. \A k \in 1..c : a + k - 1 \in Nat
    OBVIOUS
  <2>2. l \in [1..c -> LineRec] /\ \A k \in 1..c : l[k] = Line(r, a + k - 1)
    BY <1>3, <1>4, <2>1
  <2> QED
    BY <2>2
<1>6. \A n \in Nat : /\ Upto(r, n) \in Seq(LineRec) /\ Len(Upto(r, n)) = n
                     /\ \A k \in 1..n : Upto(r, n)[k] = Line(r, k - 1)
  <2> SUFFICES ASSUME NEW n \in Nat
               PROVE  /\ Upto(r, n) \in Seq(LineRec) /\ Len(Upto(r, n)) = n
                      /\ \A k \in 1..n : Upto(r, n)[k] = Line(r, k - 1)
    OBVIOUS
  <2>1. \A k \in 1..n : k - 1 \in Nat
    OBVIOUS
  <2>2. Upto(r, n) \in [1..n -> LineRec] /\ \A k \in 1..n : Upto(r, n)[k] = Line(r, k - 1)
    BY <1>3, <2>1 DEF Upto
  <2> QED
    BY <2>2
<1>7. PICK u : u = Upto(r, a)
  OBVIOUS
<1>8. u \in Seq(LineRec) /\ Len(u) = a /\ \A k \in 1..a : u[k] = Line(r, k - 1)
  BY <1>6, <1>7
<1>9. PICK v : v = Upto(r, b)
  OBVIOUS
<1>10. v \in Seq(LineRec) /\ Len(v) = b /\ \A k \in 1..b : v[k] = Line(r, k - 1)
  BY <1>6, <1>9
<1>11. u \o l \in Seq(LineRec) /\ Len(u \o l) = b
  <2>1. u \o l \in Seq(LineRec) /\ Len(u \o l) = Len(u) + Len(l)
    <3>1. u \in Seq(LineRec) /\ l \in Seq(LineRec)
      BY <1>5, <1>8
    <3> QED
      BY <3>1
  <2>2. Len(u) + Len(l) = b
    BY <1>1, <1>5, <1>8
  <2> QED
    BY <2>1, <2>2
<1>12. ASSUME NEW k \in 1..b PROVE (u \o l)[k] = v[k]
  <2>1. k \in Nat /\ v[k] = Line(r, k - 1)
    BY <1>10
  <2>2. ASSUME k <= a PROVE (u \o l)[k] = v[k]
    <3>1. k \in 1..a
      BY <2>1, <2>2
    <3>2. u \in Seq(LineRec) /\ l \in Seq(LineRec) /\ Len(u) = a
      BY <1>5, <1>8
    <3>3. (u \o l)[k] = u[k]
      BY <3>1, <3>2, InFront
    <3> QED
      BY <1>8, <2>1, <3>1, <3>3
  <2>3. ASSUME k > a PROVE (u \o l)[k] = v[k]
    <3>1. PICK m \in 1..c : k = a + m
      <4>1. k - a \in 1..c /\ k = a + (k - a)
        BY <1>1, <2>1, <2>3
      <4> QED
        BY <4>1
    <3>2. (u \o l)[a + m] = l[m]
      <4>1. u \in Seq(LineRec) /\ l \in Seq(LineRec) /\ Len(u) = a /\ Len(l) = c
        BY <1>5, <1>8
      <4>2. m \in 1..Len(l)
        BY <4>1
      <4>3. (u \o l)[Len(u) + m] = l[m]
        BY <4>1, <4>2, Behind
      <4> QED
        BY <4>1, <4>3
    <3>3. l[m] = Line(r, a + m - 1)
      BY <1>5
    <3> QED
      BY <2>1, <3>1, <3>2, <3>3
  <2>4. k <= a \/ k > a
    BY <2>1
  <2> QED
    BY <2>2, <2>3, <2>4
<1>13. u \o l = v
  <2>1. PICK w : w = u \o l
    OBVIOUS
  <2>2. w \in Seq(LineRec) /\ Len(w) = b /\ \A k \in 1..b : w[k] = v[k]
    BY <1>11, <1>12, <2>1
  <2>3. w = v
    BY <1>10, <2>2, Alike
  <2> QED
    BY <2>1, <2>3
<1> QED
  BY <1>2, <1>4, <1>7, <1>9, <1>13

\* Of a run a step may move only these on: its stage, its counts and its marks.
Moved(x, y) ==
    /\ y.kind = x.kind /\ y.path = x.path /\ y.file = x.file
    /\ y.alone = x.alone /\ y.touched = x.touched
    /\ x.stage = "over" => y.stage = "over"

\* A step that opens no crawl keeps the recordings when what it writes is right.
LEMMA MovedRec ==
    ASSUME IInv, Rec, disk' = disk,
           \A s \in DOMAIN runs : s \in DOMAIN runs' /\ Moved(runs[s], runs'[s]),
           \A s \in DOMAIN runs' : s \in DOMAIN runs \/ runs'[s].kind = "replay",
           \A s \in Crawls : Counted(runs'[s]),
           \A s \in Crawls : Left(runs[s]) => files'[runs[s].file] = Upto(s, runs'[s].out)
    PROVE  Rec'
<1>1. Crawls' = Crawls
  BY DEF Crawls, Moved
<1>2. \A s \in Crawls : s \in DOMAIN runs /\ Moved(runs[s], runs'[s])
  BY DEF Crawls
<1>3. Placed'
  BY <1>1, <1>2 DEF Rec, Placed, Moved
<1>4. ASSUME NEW s \in Crawls PROVE Own(s)'
  <2> SUFFICES ASSUME Left(runs'[s])
               PROVE  /\ disk'[runs'[s].path] = runs'[s].file
                      /\ files'[runs'[s].file] = Upto(s, runs'[s].out)
                      /\ \A t \in Crawls : t # s /\ runs'[t].path = runs'[s].path
                                             => runs'[t].stage = "over"
    BY <1>1 DEF Own
  <2>1. Left(runs[s]) /\ runs'[s].path = runs[s].path /\ runs'[s].file = runs[s].file
    BY <1>2 DEF Left, Moved
  <2>2. /\ disk[runs[s].path] = runs[s].file
        /\ \A t \in Crawls : t # s /\ runs[t].path = runs[s].path => runs[t].stage = "over"
    BY <2>1 DEF Rec, Own
  <2> QED
    BY <1>2, <2>1, <2>2 DEF Moved
<1> QED
  BY <1>1, <1>3, <1>4 DEF Rec

\* One run moves on, and nothing is written.
LEMMA QuietRec ==
    ASSUME IInv, Rec, NEW r \in DOMAIN runs, NEW y \in Run, runs' = [runs EXCEPT ![r] = y],
           UNCHANGED fileVars, Moved(runs[r], y), y.out = runs[r].out,
           y.kind = "crawl" => Counted(y)
    PROVE  Rec'
<1>1. /\ DOMAIN runs' = DOMAIN runs /\ runs'[r] = y
      /\ \A s \in DOMAIN runs : s # r => runs'[s] = runs[s]
  BY StepType DEF IInv
<1>2. ASSUME NEW s \in DOMAIN runs PROVE Moved(runs[s], runs'[s]) /\ runs'[s].out = runs[s].out
  BY <1>1 DEF Moved
<1>3. ASSUME NEW s \in Crawls PROVE Counted(runs'[s])
  <2>1. CASE s = r
    BY <1>1, <2>1 DEF Crawls, Moved
  <2>2. CASE s # r
    BY <1>1, <2>2 DEF Crawls, Rec
  <2> QED
    BY <2>1, <2>2
<1>4. ASSUME NEW s \in Crawls, Left(runs[s]) PROVE files'[runs[s].file] = Upto(s, runs'[s].out)
  <2>1. files[runs[s].file] = Upto(s, runs[s].out) /\ runs'[s].out = runs[s].out
    BY <1>2, <1>4 DEF Rec, Own, Crawls
  <2> QED
    BY <2>1 DEF fileVars
<1>5. disk' = disk
  BY DEF fileVars
<1> QED
  BY <1>1, <1>2, <1>3, <1>4, <1>5, MovedRec

\* One run writes its lines up to n.
LEMMA WrittenRec ==
    ASSUME IInv, Rec, NEW r \in Crawls, NEW y \in Run, runs' = [runs EXCEPT ![r] = y],
           NEW n \in Nat, runs[r].out < n, Written(r, n), disk' = disk,
           runs[r].stage # "over", Moved(runs[r], y), y.out = n, Counted(y)
    PROVE  Rec'
<1>1. r \in DOMAIN runs /\ r \in Nat /\ runs[r] \in Run /\ runs[r].file \in 1..Len(files)
      /\ runs[r].out \in Nat
  BY RunAt DEF Crawls
<1>2. /\ DOMAIN runs' = DOMAIN runs /\ runs'[r] = y
      /\ \A s \in DOMAIN runs : s # r => runs'[s] = runs[s]
  BY <1>1, StepType DEF IInv
<1>3. ASSUME NEW s \in DOMAIN runs PROVE Moved(runs[s], runs'[s])
  BY <1>2 DEF Moved
<1>4. ASSUME NEW s \in Crawls PROVE Counted(runs'[s])
  BY <1>2 DEF Crawls, Rec
<1>5. files \in Seq(Seq(LineRec)) /\ runs[r].file \in DOMAIN files
  BY <1>1 DEF IInv, Types
<1>6. files' = [files EXCEPT ![runs[r].file] = @ \o Lines(r, runs[r].out, n - 1)]
  BY DEF Written
<1>7. ASSUME NEW s \in Crawls, Left(runs[s]) PROVE files'[runs[s].file] = Upto(s, runs'[s].out)
  <2>1. files[runs[s].file] = Upto(s, runs[s].out)
    BY <1>7 DEF Rec, Own
  <2>2. CASE s = r
    <3>1. files'[runs[r].file] = files[runs[r].file] \o Lines(r, runs[r].out, n - 1)
      BY <1>5, <1>6
    <3>2. Upto(r, runs[r].out) \o Lines(r, runs[r].out, n - 1) = Upto(r, n)
      BY <1>1, Joined
    <3> QED
      BY <1>2, <2>1, <2>2, <3>1, <3>2
  <2>3. CASE s # r
    <3>1. runs[r].file # runs[s].file
      <4>1. runs[r].path = runs[s].path => runs[r].stage = "over"
        BY <1>7, <2>3 DEF Rec, Own
      <4>2. runs[r].file = runs[s].file => runs[r].path = runs[s].path
        BY DEF Rec, Placed
      <4> QED
        BY <4>1, <4>2
    <3>2. runs'[s] = runs[s]
      BY <1>2, <2>3 DEF Crawls
    <3>3. runs[s].file \in DOMAIN files
      BY RunAt DEF Crawls, IInv, Types
    <3> QED
      BY <1>5, <1>6, <2>1, <3>1, <3>2, <3>3
  <2> QED
    BY <2>2, <2>3
<1> QED
  BY <1>2, <1>3, <1>4, <1>7, MovedRec
-----------------------------------------------------------------------------
(* Each step keeps the recordings. *)

LEMMA SendRec ==
    ASSUME IInv, Rec, NEW r \in 1..MaxOpens, Send(r)
    PROVE  Rec'
<1> DEFINE y == [runs[r] EXCEPT !.seq = @ + 1]
<1>1. r \in DOMAIN runs /\ runs[r].kind = "crawl" /\ runs[r].stage = "crawling"
  BY RunAt DEF Send, CrawlAt, Live
<1>2. /\ y \in Run
      /\ y.kind = runs[r].kind /\ y.path = runs[r].path /\ y.file = runs[r].file
      /\ y.stage = runs[r].stage /\ y.seq = runs[r].seq + 1 /\ y.out = runs[r].out
      /\ y.err = runs[r].err /\ y.alone = runs[r].alone /\ y.touched = runs[r].touched
  <2>1. runs[r] \in Run
    BY <1>1, RunAt
  <2> QED
    BY <1>1, <2>1 DEF Run
<1>3. runs' = [runs EXCEPT ![r] = y] /\ UNCHANGED fileVars
  BY <1>1 DEF Send
<1>4. Moved(runs[r], y)
  BY <1>1, <1>2 DEF Moved
<1>5. y.kind = "crawl" => Counted(y)
  <2>1. runs[r].out <= runs[r].seq /\ runs[r].out \in Nat /\ runs[r].seq \in Nat
    <3>1. Counted(runs[r]) /\ runs[r] \in Run
      BY <1>1, RunAt DEF Rec, Crawls
    <3> QED
      BY <1>1, <3>1 DEF Counted, Run
  <2>2. y.out <= y.seq
    BY <1>2, <2>1
  <2> QED
    BY <1>1, <1>2, <2>2 DEF Counted
<1> HIDE DEF y
<1> QED
  BY <1>1, <1>2, <1>3, <1>4, <1>5, QuietRec

LEMMA ReturnRec ==
    ASSUME IInv, Rec, NEW r \in 1..MaxOpens, Return(r)
    PROVE  Rec'
<1> DEFINE y == [runs[r] EXCEPT !.stage = "returned", !.cancelled = runs[r].stopped]
<1>1. r \in DOMAIN runs /\ runs[r].kind = "crawl" /\ runs[r].stage = "crawling"
  BY RunAt DEF Return, CrawlAt, Live
<1>2. /\ y \in Run
      /\ y.kind = runs[r].kind /\ y.path = runs[r].path /\ y.file = runs[r].file
      /\ y.stage = "returned" /\ y.seq = runs[r].seq /\ y.out = runs[r].out
      /\ y.err = runs[r].err /\ y.alone = runs[r].alone /\ y.touched = runs[r].touched
  <2>1. runs[r] \in Run
    BY <1>1, RunAt
  <2> QED
    BY <1>1, <2>1 DEF Run
<1>3. runs' = [runs EXCEPT ![r] = y] /\ UNCHANGED fileVars
  BY <1>1 DEF Return
<1>4. Moved(runs[r], y)
  BY <1>1, <1>2 DEF Moved
<1>5. y.kind = "crawl" => Counted(y)
  <2>1. Counted(runs[r])
    BY <1>1 DEF Rec, Crawls
  <2> QED
    BY <1>1, <1>2, <2>1, RunAt DEF Counted
<1> HIDE DEF y
<1> QED
  BY <1>1, <1>2, <1>3, <1>4, <1>5, QuietRec

LEMMA SettleRec ==
    ASSUME IInv, Rec, NEW r \in 1..MaxOpens, Settle(r)
    PROVE  Rec'
<1> DEFINE y == [runs[r] EXCEPT !.stage = "reported",
                             !.res = IF @ = "failed" THEN "failed"
                                     ELSE IF runs[r].cancelled THEN "cancelled" ELSE "done"]
<1>1. r \in DOMAIN runs /\ runs[r].kind = "crawl" /\ runs[r].stage = "mapped"
  BY RunAt DEF Settle, CrawlAt, Live
<1>2. /\ y \in Run
      /\ y.kind = runs[r].kind /\ y.path = runs[r].path /\ y.file = runs[r].file
      /\ y.stage = "reported" /\ y.seq = runs[r].seq /\ y.out = runs[r].out
      /\ y.err = runs[r].err /\ y.alone = runs[r].alone /\ y.touched = runs[r].touched
  <2>1. runs[r] \in Run
    BY <1>1, RunAt
  <2> QED
    BY <1>1, <2>1 DEF Run
<1>3. runs' = [runs EXCEPT ![r] = y] /\ UNCHANGED fileVars
  BY <1>1 DEF Settle
<1>4. Moved(runs[r], y)
  BY <1>1, <1>2 DEF Moved
<1>5. y.kind = "crawl" => Counted(y)
  <2>1. Counted(runs[r])
    BY <1>1 DEF Rec, Crawls
  <2> QED
    BY <1>1, <1>2, <2>1, RunAt DEF Counted
<1> HIDE DEF y
<1> QED
  BY <1>1, <1>2, <1>3, <1>4, <1>5, QuietRec

LEMMA FinishRunRec ==
    ASSUME IInv, Rec, NEW r \in 1..MaxOpens, FinishRun(r)
    PROVE  Rec'
<1> DEFINE y == [runs[r] EXCEPT !.stage = "finished", !.closed = TRUE]
<1>1. r \in DOMAIN runs /\ runs[r].kind = "crawl" /\ runs[r].stage = "reported"
  BY RunAt DEF FinishRun, CrawlAt, Live
<1>2. /\ y \in Run
      /\ y.kind = runs[r].kind /\ y.path = runs[r].path /\ y.file = runs[r].file
      /\ y.stage = "finished" /\ y.seq = runs[r].seq /\ y.out = runs[r].out
      /\ y.err = runs[r].err /\ y.alone = runs[r].alone /\ y.touched = runs[r].touched
  <2>1. runs[r] \in Run
    BY <1>1, RunAt
  <2> QED
    BY <1>1, <2>1 DEF Run
<1>3. runs' = [runs EXCEPT ![r] = y] /\ UNCHANGED fileVars
  BY <1>1 DEF FinishRun
<1>4. Moved(runs[r], y)
  BY <1>1, <1>2 DEF Moved
<1>5. y.kind = "crawl" => Counted(y)
  <2>1. Counted(runs[r])
    BY <1>1 DEF Rec, Crawls
  <2> QED
    BY <1>1, <1>2, <2>1, RunAt DEF Counted
<1> HIDE DEF y
<1> QED
  BY <1>1, <1>2, <1>3, <1>4, <1>5, QuietRec

LEMMA DeliverRec ==
    ASSUME IInv, Rec, NEW r \in 1..MaxOpens, Deliver(r)
    PROVE  Rec'
<1> DEFINE y == [runs[r] EXCEPT !.seq = @ + 1]
<1>1. r \in DOMAIN runs /\ runs[r].kind = "replay" /\ runs[r].stage = "playing"
  BY RunAt DEF Deliver, ReplayAt, Live, Staged, Run
<1>2. /\ y \in Run
      /\ y.kind = runs[r].kind /\ y.path = runs[r].path /\ y.file = runs[r].file
      /\ y.stage = runs[r].stage /\ y.seq = runs[r].seq + 1 /\ y.out = runs[r].out
      /\ y.err = runs[r].err /\ y.alone = runs[r].alone /\ y.touched = runs[r].touched
  <2>1. runs[r] \in Run
    BY <1>1, RunAt
  <2> QED
    BY <1>1, <2>1 DEF Run
<1>3. runs' = [runs EXCEPT ![r] = y] /\ UNCHANGED fileVars
  BY <1>1 DEF Deliver
<1>4. Moved(runs[r], y)
  BY <1>1, <1>2 DEF Moved
<1>5. y.kind = "crawl" => Counted(y)
  BY <1>1, <1>2
<1> HIDE DEF y
<1> QED
  BY <1>1, <1>2, <1>3, <1>4, <1>5, QuietRec

LEMMA PlayEndsRec ==
    ASSUME IInv, Rec, NEW r \in 1..MaxOpens, PlayEnds(r)
    PROVE  Rec'
<1> DEFINE y == [runs[r] EXCEPT !.stage = "over", !.closed = TRUE]
<1>1. r \in DOMAIN runs /\ runs[r].kind = "replay" /\ runs[r].stage = "playing"
  BY RunAt DEF PlayEnds, ReplayAt, Live, Staged, Run
<1>2. /\ y \in Run
      /\ y.kind = runs[r].kind /\ y.path = runs[r].path /\ y.file = runs[r].file
      /\ y.stage = "over" /\ y.seq = runs[r].seq /\ y.out = runs[r].out
      /\ y.err = runs[r].err /\ y.alone = runs[r].alone /\ y.touched = runs[r].touched
  <2>1. runs[r] \in Run
    BY <1>1, RunAt
  <2> QED
    BY <1>1, <2>1 DEF Run
<1>3. runs' = [runs EXCEPT ![r] = y] /\ UNCHANGED fileVars
  BY <1>1 DEF PlayEnds
<1>4. Moved(runs[r], y)
  BY <1>1, <1>2 DEF Moved
<1>5. y.kind = "crawl" => Counted(y)
  BY <1>1, <1>2
<1> HIDE DEF y
<1> QED
  BY <1>1, <1>2, <1>3, <1>4, <1>5, QuietRec

LEMMA WriteMapRec ==
    ASSUME IInv, Rec, NEW r \in 1..MaxOpens, WriteMap(r)
    PROVE  Rec'
<1>1. r \in DOMAIN runs /\ runs[r].kind = "crawl" /\ runs[r].stage = "returned" /\ runs[r] \in Run
      /\ UNCHANGED fileVars
  BY RunAt DEF WriteMap, CrawlAt, Live
<1>2. ASSUME NEW y \in Run, runs' = [runs EXCEPT ![r] = y],
             y.kind = runs[r].kind, y.path = runs[r].path, y.file = runs[r].file,
             y.stage = "mapped", y.seq = runs[r].seq, y.out = runs[r].out,
             y.alone = runs[r].alone, y.touched = runs[r].touched
      PROVE  Rec'
  <2>1. Counted(runs[r])
    BY <1>1 DEF Rec, Crawls
  <2>2. Moved(runs[r], y) /\ Counted(y)
    BY <1>1, <1>2, <2>1 DEF Moved, Counted
  <2> QED
    BY <1>1, <1>2, <2>2, QuietRec
<1>3. CASE runs' = [runs EXCEPT ![r].stage = "mapped"]
  <2> DEFINE y == [runs[r] EXCEPT !.stage = "mapped"]
  <2>1. /\ y \in Run /\ y.kind = runs[r].kind /\ y.path = runs[r].path /\ y.file = runs[r].file
        /\ y.stage = "mapped" /\ y.seq = runs[r].seq /\ y.out = runs[r].out
        /\ y.alone = runs[r].alone /\ y.touched = runs[r].touched
    BY <1>1 DEF Run
  <2>2. runs' = [runs EXCEPT ![r] = y]
    BY <1>3
  <2> HIDE DEF y
  <2> QED
    BY <1>2, <2>1, <2>2
<1>4. CASE runs' = [runs EXCEPT ![r].stage = "mapped", ![r].res = "failed"]
  <2> DEFINE y == [runs[r] EXCEPT !.stage = "mapped", !.res = "failed"]
  <2>1. /\ y \in Run /\ y.kind = runs[r].kind /\ y.path = runs[r].path /\ y.file = runs[r].file
        /\ y.stage = "mapped" /\ y.seq = runs[r].seq /\ y.out = runs[r].out
        /\ y.alone = runs[r].alone /\ y.touched = runs[r].touched
    BY <1>1 DEF Run
  <2>2. runs' = [runs EXCEPT ![r] = y]
    BY <1>1, <1>4
  <2> HIDE DEF y
  <2> QED
    BY <1>2, <2>1, <2>2
<1> QED
  BY <1>3, <1>4 DEF WriteMap

\* A write that fails leaves the file and the count of its lines alone.
LEMMA FailedRec ==
    ASSUME IInv, Rec, NEW r \in Crawls, NEW y \in Run, runs' = [runs EXCEPT ![r] = y],
           UNCHANGED fileVars, runs[r].stage # "over",
           y.kind = runs[r].kind, y.path = runs[r].path, y.file = runs[r].file,
           y.seq = runs[r].seq, y.out = runs[r].out, y.err = TRUE,
           y.alone = runs[r].alone, y.touched = runs[r].touched
    PROVE  Rec'
<1>1. r \in DOMAIN runs /\ Counted(runs[r])
  BY DEF Rec, Crawls
<1>2. Moved(runs[r], y) /\ Counted(y)
  BY <1>1 DEF Moved, Counted
<1> QED
  BY <1>1, <1>2, QuietRec

LEMMA SpillRec ==
    ASSUME IInv, Rec, NEW r \in 1..MaxOpens, Spill(r)
    PROVE  Rec'
<1>1. r \in Crawls /\ runs[r].stage = "crawling" /\ runs[r].out < runs[r].seq /\ disk' = disk
  BY DEF Spill, CrawlAt, Live, Crawls
<1>2. r \in DOMAIN runs /\ runs[r] \in Run /\ runs[r].seq \in Nat
  BY <1>1, RunAt DEF Crawls, Run
<1>3. CASE /\ Written(r, runs[r].seq)
           /\ runs' = [runs EXCEPT ![r].out = runs[r].seq]
  <2> DEFINE y == [runs[r] EXCEPT !.out = runs[r].seq]
  <2>1. /\ y \in Run
        /\ y.kind = runs[r].kind /\ y.path = runs[r].path /\ y.file = runs[r].file
        /\ y.stage = runs[r].stage /\ y.seq = runs[r].seq /\ y.out = runs[r].seq
        /\ y.err = runs[r].err /\ y.alone = runs[r].alone /\ y.touched = runs[r].touched
    BY <1>2 DEF Run
  <2>2. runs' = [runs EXCEPT ![r] = y]
    BY <1>3
  <2>3. Moved(runs[r], y) /\ Counted(y) /\ y.out = runs[r].seq
    <3>1. y.out <= y.seq
      BY <1>2, <2>1
    <3> QED
      BY <1>1, <2>1, <3>1 DEF Moved, Counted
  <2>4. runs[r].stage # "over"
    BY <1>1
  <2> HIDE DEF y
  <2> QED
    BY <1>1, <1>2, <1>3, <2>1, <2>2, <2>3, <2>4, WrittenRec
<1>4. CASE runs' = [runs EXCEPT ![r].err = TRUE] /\ UNCHANGED files
  <2> DEFINE y == [runs[r] EXCEPT !.err = TRUE]
  <2>1. /\ y \in Run
        /\ y.kind = runs[r].kind /\ y.path = runs[r].path /\ y.file = runs[r].file
        /\ y.stage = runs[r].stage /\ y.seq = runs[r].seq /\ y.out = runs[r].out
        /\ y.err = TRUE /\ y.alone = runs[r].alone /\ y.touched = runs[r].touched
    BY <1>2 DEF Run
  <2>2. runs' = [runs EXCEPT ![r] = y] /\ UNCHANGED fileVars /\ runs[r].stage # "over"
    BY <1>1, <1>4 DEF fileVars
  <2> HIDE DEF y
  <2> QED
    BY <1>1, <2>1, <2>2, FailedRec
<1> QED
  BY <1>3, <1>4 DEF Spill

LEMMA FlushRec ==
    ASSUME IInv, Rec, NEW r \in 1..MaxOpens, Flush(r)
    PROVE  Rec'
<1>1. r \in Crawls /\ runs[r].stage = "finished" /\ disk' = disk
  BY DEF Flush, CrawlAt, Live, Crawls
<1>2. r \in DOMAIN runs /\ runs[r] \in Run /\ runs[r].seq \in Nat /\ runs[r].out <= runs[r].seq
      /\ runs[r].out \in Nat
  <2>1. r \in DOMAIN runs /\ runs[r] \in Run /\ Counted(runs[r])
    BY <1>1, RunAt DEF Crawls, Rec
  <2> QED
    BY <1>1, <2>1 DEF Run, Counted
<1>3. CASE /\ Written(r, runs[r].seq + 1)
           /\ runs' = [runs EXCEPT ![r].stage = "over", ![r].out = runs[r].seq + 1]
  <2> DEFINE y == [runs[r] EXCEPT !.stage = "over", !.out = runs[r].seq + 1]
  <2>1. /\ y \in Run
        /\ y.kind = runs[r].kind /\ y.path = runs[r].path /\ y.file = runs[r].file
        /\ y.stage = "over" /\ y.seq = runs[r].seq /\ y.out = runs[r].seq + 1
        /\ y.err = runs[r].err /\ y.alone = runs[r].alone /\ y.touched = runs[r].touched
    <3>1. runs[r].seq + 1 \in Nat
      BY <1>2
    <3> QED
      BY <1>2, <3>1 DEF Run
  <2>2. runs' = [runs EXCEPT ![r] = y]
    BY <1>2, <1>3
  <2>3. Moved(runs[r], y) /\ Counted(y) /\ y.out = runs[r].seq + 1
    BY <1>1, <2>1 DEF Moved, Counted
  <2>4. runs[r].stage # "over" /\ runs[r].seq + 1 \in Nat
    BY <1>1, <1>2
  <2>5. runs[r].out < runs[r].seq + 1
    BY <1>2
  <2> HIDE DEF y
  <2> QED
    BY <1>1, <1>2, <1>3, <2>1, <2>2, <2>3, <2>4, <2>5, WrittenRec
<1>4. CASE runs' = [runs EXCEPT ![r].stage = "over", ![r].err = TRUE] /\ UNCHANGED files
  <2> DEFINE y == [runs[r] EXCEPT !.stage = "over", !.err = TRUE]
  <2>1. /\ y \in Run
        /\ y.kind = runs[r].kind /\ y.path = runs[r].path /\ y.file = runs[r].file
        /\ y.stage = "over" /\ y.seq = runs[r].seq /\ y.out = runs[r].out
        /\ y.err = TRUE /\ y.alone = runs[r].alone /\ y.touched = runs[r].touched
    BY <1>2 DEF Run
  <2>2. runs' = [runs EXCEPT ![r] = y] /\ UNCHANGED fileVars /\ runs[r].stage # "over"
    BY <1>1, <1>2, <1>4 DEF fileVars
  <2> HIDE DEF y
  <2> QED
    BY <1>1, <2>1, <2>2, FailedRec
<1> QED
  BY <1>3, <1>4 DEF Flush

\* What opening a run leaves of the others: all but the marks.
Kept(x, y) ==
    /\ y.kind = x.kind /\ y.path = x.path /\ y.file = x.file
    /\ y.stage = x.stage /\ y.seq = x.seq /\ y.out = x.out
    /\ y.err = x.err /\ y.alone = x.alone

LEMMA ClosedKept ==
    ASSUME IInv, NEW s \in DOMAIN runs
    PROVE  /\ Closed[s] \in Run /\ DOMAIN Closed = DOMAIN runs
           /\ Kept(runs[s], Closed[s]) /\ Closed[s].touched = runs[s].touched
<1>1. runs[s] \in Run /\ DOMAIN Closed = DOMAIN runs /\ Closed[s] \in Run
  BY RunAt, ClosedFine
<1>2. CASE cur = 0
  BY <1>1, <1>2 DEF Closed, Kept
<1>3. CASE cur # 0
  <2> DEFINE y == [runs[cur] EXCEPT !.stopped = TRUE]
  <2>1. cur \in DOMAIN runs /\ runs[cur] \in Run
    <3>1. cur \in DOMAIN runs
      BY <1>3 DEF IInv, Types
    <3> QED
      BY <3>1, RunAt
  <2>2. Kept(runs[cur], y) /\ y.touched = runs[cur].touched
    BY <2>1 DEF Run, Kept
  <2>3. Closed = [runs EXCEPT ![cur] = y]
    BY <1>3 DEF Closed
  <2> HIDE DEF y
  <2>4. CASE s = cur
    BY <1>1, <2>2, <2>3, <2>4 DEF IInv, Types
  <2>5. CASE s # cur
    BY <1>1, <2>3, <2>5 DEF IInv, Types, Kept
  <2> QED
    BY <2>4, <2>5
<1> QED
  BY <1>2, <1>3

LEMMA TouchedKept ==
    ASSUME IInv, NEW s \in DOMAIN runs, NEW p \in Paths, NEW b \in BOOLEAN
    PROVE  /\ DOMAIN Touched(Closed, p, b) = DOMAIN runs
           /\ Kept(runs[s], Touched(Closed, p, b)[s])
           /\ runs[s].kind = "crawl" /\ Left(Touched(Closed, p, b)[s])
                 => Left(runs[s]) /\ runs[s].path # p
<1>1. /\ Closed[s] \in Run /\ DOMAIN Closed = DOMAIN runs
      /\ Kept(runs[s], Closed[s]) /\ Closed[s].touched = runs[s].touched
  BY ClosedKept
<1>2. CASE Closed[s].kind = "crawl" /\ Closed[s].path = p
  <2> DEFINE y == [Closed[s] EXCEPT !.touched = TRUE, !.followed = @ \/ b]
  <2>1. Kept(Closed[s], y) /\ y.touched = TRUE
    BY <1>1 DEF Run, Kept
  <2>2. Touched(Closed, p, b)[s] = y
    BY <1>1, <1>2 DEF Touched
  <2> HIDE DEF y
  <2> QED
    BY <1>1, <2>1, <2>2 DEF Kept, Left, Touched
<1>3. CASE ~(Closed[s].kind = "crawl" /\ Closed[s].path = p)
  <2>1. Touched(Closed, p, b)[s] = Closed[s] /\ DOMAIN Touched(Closed, p, b) = DOMAIN runs
    BY <1>1, <1>3 DEF Touched
  <2> QED
    BY <1>1, <1>3, <2>1 DEF Kept, Left
<1> QED
  BY <1>2, <1>3

\* A crawl that has just been opened with file d at p.
Begun(x, p, d) ==
    /\ x.kind = "crawl" /\ x.path = p /\ x.file = d /\ x.stage = "crawling"
    /\ x.seq = 0 /\ x.out = 0 /\ (x.alone => \A s \in Crawls : runs[s].path = p => runs[s].stage = "over")

\* The recording at p is created anew, and perhaps a crawl begins there.
LEMMA ReopenedRec ==
    ASSUME IInv, Rec, NEW p \in Paths, NEW d \in {0, FileAt(p)},
           files' = Created(p), disk' = [disk EXCEPT ![p] = d],
           \A s \in DOMAIN runs :
              /\ s \in DOMAIN runs' /\ Kept(runs[s], runs'[s])
              /\ runs[s].kind = "crawl" /\ Left(runs'[s]) => Left(runs[s]) /\ runs[s].path # p,
           \A s \in DOMAIN runs' : s \in DOMAIN runs \/ (d = FileAt(p) /\ Begun(runs'[s], p, d)),
           \A s, t \in DOMAIN runs' : s \notin DOMAIN runs /\ t \notin DOMAIN runs => s = t
    PROVE  Rec'
<1> DEFINE f == FileAt(p)
<1>1. disk \in [Paths -> 0..Len(files)] /\ files \in Seq(Seq(LineRec)) /\ Len(files) \in Nat
  BY DEF IInv, Types
<1>2. \A s \in Crawls : /\ s \in DOMAIN runs /\ runs[s].kind = "crawl" /\ runs[s].file \in 1..Len(files)
                        /\ runs[s].path \in Paths
  BY RunAt DEF Crawls, Run
<1>3. disk'[p] = d /\ \A q \in Paths : q # p => disk'[q] = disk[q]
  BY <1>1
<1>4. f # 0 /\ \/ disk[p] # 0 /\ f = disk[p]
               \/ f = Len(files) + 1
  BY <1>1 DEF FileAt
<1>5. \A q \in Paths : q # p => disk[q] # f
  BY <1>1, <1>4 DEF Rec, Placed
<1>6. \A s \in Crawls : runs[s].file = f => runs[s].path = p
  BY <1>1, <1>2, <1>4 DEF Rec, Placed
<1>7. files'[f] = <<>> /\ \A k \in 1..Len(files) : k # f => files'[k] = files[k]
  <2>1. CASE disk[p] = 0
    BY <1>1, <2>1 DEF Created, FileAt
  <2>2. CASE disk[p] # 0
    <3>1. disk[p] \in DOMAIN files
      BY <1>1, <2>2
    <3> QED
      BY <1>1, <2>2, <3>1 DEF Created, FileAt
  <2> QED
    BY <2>1, <2>2
<1> HIDE DEF f
<1>8. ASSUME NEW s \in Crawls'
      PROVE  \/ s \in Crawls /\ Kept(runs[s], runs'[s])
             \/ s \notin DOMAIN runs /\ d = f /\ Begun(runs'[s], p, f)
  BY DEF Crawls, Kept, f
<1>9. \A q, w \in Paths : disk'[q] # 0 /\ disk'[q] = disk'[w] => q = w
  BY <1>3, <1>5 DEF Rec, Placed, f
<1>10. ASSUME NEW s \in Crawls', NEW q \in Paths, runs'[s].file = disk'[q]
       PROVE  runs'[s].path = q
  <2>1. CASE s \in Crawls /\ Kept(runs[s], runs'[s])
    <3>1. runs'[s].file = runs[s].file /\ runs'[s].path = runs[s].path /\ runs[s].file # 0
      BY <1>2, <2>1 DEF Kept
    <3>2. CASE q = p
      BY <1>3, <1>6, <1>10, <2>1, <3>1, <3>2 DEF f
    <3>3. CASE q # p
      BY <1>3, <1>10, <2>1, <3>1, <3>3 DEF Rec, Placed
    <3> QED
      BY <3>2, <3>3
  <2>2. CASE Begun(runs'[s], p, f)
    BY <1>3, <1>5, <1>10, <2>2 DEF Begun
  <2> QED
    BY <1>8, <2>1, <2>2
<1>11. ASSUME NEW s \in Crawls', NEW t \in Crawls', runs'[s].file = runs'[t].file
       PROVE  runs'[s].path = runs'[t].path
  <2>1. ASSUME NEW r \in Crawls'
        PROVE  \/ r \in Crawls /\ runs'[r].file = runs[r].file /\ runs'[r].path = runs[r].path
               \/ runs'[r].file = f /\ runs'[r].path = p
    BY <1>8 DEF Kept, Begun
  <2>2. \A r, u \in Crawls : runs[r].file = runs[u].file => runs[r].path = runs[u].path
    BY DEF Rec, Placed
  <2>3. CASE s \in Crawls /\ runs'[s].file = runs[s].file /\ runs'[s].path = runs[s].path
    <3>1. CASE t \in Crawls /\ runs'[t].file = runs[t].file /\ runs'[t].path = runs[t].path
      BY <1>11, <2>2, <2>3, <3>1
    <3>2. CASE runs'[t].file = f /\ runs'[t].path = p
      <4>1. runs[s].path = p
        BY <1>6, <1>11, <2>3, <3>2
      <4> QED
        BY <2>3, <3>2, <4>1
    <3> QED
      BY <2>1, <3>1, <3>2
  <2>4. CASE runs'[s].file = f /\ runs'[s].path = p
    <3>1. CASE t \in Crawls /\ runs'[t].file = runs[t].file /\ runs'[t].path = runs[t].path
      <4>1. runs[t].path = p
        BY <1>6, <1>11, <2>4, <3>1
      <4> QED
        BY <2>4, <3>1, <4>1
    <3>2. CASE runs'[t].file = f /\ runs'[t].path = p
      BY <2>4, <3>2
    <3> QED
      BY <2>1, <3>1, <3>2
  <2> QED
    BY <2>1, <2>3, <2>4
<1>12. ASSUME NEW s \in Crawls' PROVE Counted(runs'[s])
  <2>1. CASE s \in Crawls /\ Kept(runs[s], runs'[s])
    BY <2>1 DEF Rec, Counted, Kept
  <2>2. CASE Begun(runs'[s], p, f)
    BY <2>2 DEF Begun, Counted
  <2> QED
    BY <1>8, <2>1, <2>2
<1>13. ASSUME NEW s \in Crawls', Left(runs'[s])
       PROVE  /\ disk'[runs'[s].path] = runs'[s].file
              /\ files'[runs'[s].file] = Upto(s, runs'[s].out)
              /\ \A t \in Crawls' : t # s /\ runs'[t].path = runs'[s].path
                                      => runs'[t].stage = "over"
  <2>1. CASE s \in Crawls /\ Kept(runs[s], runs'[s])
    <3>1. /\ Left(runs[s]) /\ runs[s].path # p /\ runs[s].path \in Paths /\ runs[s].file \in 1..Len(files)
          /\ runs'[s].path = runs[s].path /\ runs'[s].file = runs[s].file /\ runs'[s].out = runs[s].out
      BY <1>2, <1>13, <2>1 DEF Kept
    <3>2. /\ disk[runs[s].path] = runs[s].file /\ files[runs[s].file] = Upto(s, runs[s].out)
          /\ \A t \in Crawls : t # s /\ runs[t].path = runs[s].path => runs[t].stage = "over"
      BY <2>1, <3>1 DEF Rec, Own
    <3>3. runs[s].file # f
      BY <1>5, <3>1, <3>2
    <3>4. ASSUME NEW t \in Crawls', t # s, runs'[t].path = runs'[s].path
          PROVE  runs'[t].stage = "over"
      <4>1. ~Begun(runs'[t], p, f)
        BY <3>1, <3>4 DEF Begun
      <4>2. t \in Crawls /\ Kept(runs[t], runs'[t])
        BY <1>8, <4>1
      <4> QED
        BY <3>1, <3>2, <3>4, <4>2 DEF Kept
    <3> QED
      BY <1>3, <1>7, <3>1, <3>2, <3>3, <3>4
  <2>2. CASE s \notin DOMAIN runs /\ d = f /\ Begun(runs'[s], p, f)
    <3>1. runs'[s].path = p /\ runs'[s].file = f /\ runs'[s].out = 0 /\ runs'[s].alone
      BY <1>13, <2>2 DEF Begun, Left
    <3>2. Upto(s, 0) = <<>>
      BY DEF Upto
    <3>3. ASSUME NEW t \in Crawls', t # s, runs'[t].path = runs'[s].path
          PROVE  runs'[t].stage = "over"
      <4>1. t \in DOMAIN runs
        BY <2>2, <3>3 DEF Crawls
      <4>2. t \in Crawls /\ Kept(runs[t], runs'[t])
        BY <1>8, <4>1
      <4>3. runs[t].path = p => runs[t].stage = "over"
        BY <2>2, <3>1, <4>2 DEF Begun
      <4> QED
        BY <3>1, <3>3, <4>2, <4>3 DEF Kept
    <3> QED
      BY <1>3, <1>7, <2>2, <3>1, <3>2, <3>3
  <2> QED
    BY <1>8, <2>1, <2>2
<1>14. Placed'
  BY <1>9, <1>10, <1>11 DEF Placed
<1>15. ASSUME NEW s \in Crawls' PROVE Own(s)'
  BY <1>13 DEF Own
<1> QED
  BY <1>12, <1>14, <1>15 DEF Rec

LEMMA NewIsBegun ==
    ASSUME NEW p \in Paths, NEW d \in Nat
    PROVE  Begun(NewCrawl(p, d), p, d)
<1> DEFINE a == \A r \in At(p) : ~Running(r)
<1>1. a => \A s \in Crawls : runs[s].path = p => runs[s].stage = "over"
  BY DEF At, Running, Crawls
<1>2. NewCrawl(p, d).alone = a
  BY DEF NewCrawl
<1>3. NewCrawl(p, d).alone => \A s \in Crawls : runs[s].path = p => runs[s].stage = "over"
  <2> HIDE DEF a
  <2> QED
    BY <1>1, <1>2
<1>4. /\ NewCrawl(p, d).kind = "crawl" /\ NewCrawl(p, d).path = p /\ NewCrawl(p, d).file = d
      /\ NewCrawl(p, d).stage = "crawling" /\ NewCrawl(p, d).seq = 0 /\ NewCrawl(p, d).out = 0
  BY DEF NewCrawl
<1> QED
  BY <1>3, <1>4 DEF Begun

LEMMA CancelRec ==
    ASSUME IInv, Rec, Cancel
    PROVE  Rec'
<1> DEFINE y == [runs[cur] EXCEPT !.stopped = TRUE]
<1>1. cur \in DOMAIN runs /\ runs[cur] \in Run
  <2>1. cur \in DOMAIN runs
    BY DEF Cancel, IInv, Types
  <2> QED
    BY <2>1, RunAt
<1>2. y \in Run /\ Kept(runs[cur], y) /\ y.touched = runs[cur].touched
  BY <1>1 DEF Run, Kept
<1>3. runs' = [runs EXCEPT ![cur] = y] /\ UNCHANGED fileVars
  BY DEF Cancel
<1>4. Moved(runs[cur], y) /\ y.out = runs[cur].out /\ (y.kind = "crawl" => Counted(y))
  <2>1. runs[cur].kind = "crawl" => Counted(runs[cur])
    BY <1>1 DEF Rec, Crawls
  <2> QED
    BY <1>2, <2>1 DEF Kept, Moved, Counted
<1> HIDE DEF y
<1> QED
  BY <1>1, <1>2, <1>3, <1>4, QuietRec

\* The runs there were, as closing leaves them, and perhaps a replay.
LEMMA OnlyClosedRec ==
    ASSUME IInv, Rec, UNCHANGED fileVars,
           \A s \in DOMAIN runs : s \in DOMAIN runs' /\ runs'[s] = Closed[s],
           \A s \in DOMAIN runs' : s \in DOMAIN runs \/ runs'[s].kind = "replay"
    PROVE  Rec'
<1>1. \A s \in DOMAIN runs : s \in DOMAIN runs' /\ Kept(runs[s], runs'[s])
                             /\ runs'[s].touched = runs[s].touched
  BY ClosedKept
<1>2. \A s \in DOMAIN runs : s \in DOMAIN runs' /\ Moved(runs[s], runs'[s])
  BY <1>1 DEF Kept, Moved
<1>3. \A s \in Crawls : Counted(runs'[s])
  BY <1>1 DEF Rec, Crawls, Counted, Kept
<1>4. ASSUME NEW s \in Crawls, Left(runs[s]) PROVE files'[runs[s].file] = Upto(s, runs'[s].out)
  <2>1. files[runs[s].file] = Upto(s, runs[s].out) /\ runs'[s].out = runs[s].out
    BY <1>1, <1>4 DEF Rec, Own, Crawls, Kept
  <2> QED
    BY <2>1 DEF fileVars
<1>5. disk' = disk
  BY DEF fileVars
<1> QED
  BY <1>2, <1>3, <1>4, <1>5, MovedRec

LEMMA QuitRec ==
    ASSUME IInv, Rec, Quit
    PROVE  Rec'
<1>1. runs' = Closed /\ UNCHANGED fileVars /\ DOMAIN Closed = DOMAIN runs
  BY ClosedFine DEF Quit
<1> QED
  BY <1>1, OnlyClosedRec

LEMMA OpenReplayRec ==
    ASSUME IInv, Rec, OpenReplay
    PROVE  Rec'
<1>1. PICK p \in Paths : RefuseReplay(p) \/ StartReplay(p)
  BY DEF OpenReplay
<1>2. UNCHANGED fileVars
  BY DEF OpenReplay
<1>3. Closed \in Seq(Run) /\ DOMAIN Closed = DOMAIN runs
  BY ClosedFine
<1>4. CASE RefuseReplay(p)
  BY <1>2, <1>3, <1>4, OnlyClosedRec DEF RefuseReplay
<1>5. CASE StartReplay(p)
  <2> DEFINE z == NewReplay(p)
  <2>1. z.kind = "replay"
    BY DEF NewReplay, NewCrawl
  <2>2. runs' = Append(Closed, z)
    BY <1>5 DEF StartReplay
  <2> HIDE DEF z
  <2>3. /\ \A s \in DOMAIN runs : s \in DOMAIN runs' /\ runs'[s] = Closed[s]
        /\ \A s \in DOMAIN runs' : s \in DOMAIN runs \/ runs'[s] = z
    BY <1>3, <2>2
  <2> QED
    BY <1>2, <2>1, <2>3, OnlyClosedRec
<1> QED
  BY <1>1, <1>4, <1>5

LEMMA OpenCrawlRec ==
    ASSUME IInv, Rec, OpenCrawl
    PROVE  Rec'
<1>1. PICK q \in Requests, fault \in Faults :
         \/ RefuseCrawl(q, fault) \/ LeaveEmpty(q, fault)
         \/ RemoveFiles(q, fault) \/ StartCrawl(q, fault)
  BY DEF OpenCrawl
<1>2. CASE RefuseCrawl(q, fault)
  <2>1. runs' = Closed /\ UNCHANGED fileVars /\ DOMAIN Closed = DOMAIN runs
    BY <1>2, ClosedFine DEF RefuseCrawl
  <2> QED
    BY <2>1, OnlyClosedRec
<1>3. ~RefusedAtOnce(q, fault) => q.map \in Paths
  BY RunHandleAssumption DEF RefusedAtOnce, Request
<1>4. ASSUME NEW d \in {0, FileAt(q.map)}, NEW b \in BOOLEAN, q.map \in Paths,
             runs' = Touched(Closed, q.map, b), files' = Created(q.map),
             disk' = [disk EXCEPT ![q.map] = d]
      PROVE  Rec'
  <2>1. \A s \in DOMAIN runs :
          /\ DOMAIN runs' = DOMAIN runs /\ Kept(runs[s], runs'[s])
          /\ runs[s].kind = "crawl" /\ Left(runs'[s]) => Left(runs[s]) /\ runs[s].path # q.map
    BY <1>4, TouchedKept
  <2>2. DOMAIN runs' = DOMAIN runs
    BY <1>4, TouchedFine
  <2> QED
    BY <1>4, <2>1, <2>2, ReopenedRec
<1>5. CASE LeaveEmpty(q, fault)
  BY <1>3, <1>4, <1>5 DEF LeaveEmpty
<1>6. CASE RemoveFiles(q, fault)
  BY <1>3, <1>4, <1>6 DEF RemoveFiles
<1>7. CASE StartCrawl(q, fault)
  <2> DEFINE p == q.map
             z == NewCrawl(p, FileAt(p))
             t == Touched(Closed, p, TRUE)
  <2>1. p \in Paths /\ files' = Created(p) /\ disk' = [disk EXCEPT ![p] = FileAt(p)]
        /\ runs' = Append(t, z)
    BY <1>3, <1>7 DEF StartCrawl, Opens
  <2>2. Begun(z, p, FileAt(p))
    <3>1. FileAt(p) \in Nat
      BY <2>1 DEF FileAt, IInv, Types
    <3> QED
      BY <2>1, <3>1, NewIsBegun
  <2>3. t \in Seq(Run) /\ DOMAIN t = DOMAIN runs /\ Len(t) \in Nat
    <3>1. t \in Seq(Run) /\ DOMAIN t = DOMAIN runs
      BY <2>1, TouchedFine
    <3> HIDE DEF t
    <3> QED
      BY <3>1
  <2>4. \A s \in DOMAIN runs :
          /\ Kept(runs[s], t[s])
          /\ runs[s].kind = "crawl" /\ Left(t[s]) => Left(runs[s]) /\ runs[s].path # p
    BY <2>1, TouchedKept
  <2> HIDE DEF z, t, p
  <2>5. /\ \A s \in DOMAIN runs : s \in DOMAIN runs' /\ runs'[s] = t[s]
        /\ \A s \in DOMAIN runs' : s \in DOMAIN runs \/ (s = Len(t) + 1 /\ runs'[s] = z)
    BY <2>1, <2>3
  <2>6. \A s \in DOMAIN runs : s \in DOMAIN runs' /\ Kept(runs[s], runs'[s])
          /\ (runs[s].kind = "crawl" /\ Left(runs'[s]) => Left(runs[s]) /\ runs[s].path # p)
    BY <2>4, <2>5
  <2>7. \A s \in DOMAIN runs' : s \in DOMAIN runs \/ Begun(runs'[s], p, FileAt(p))
    BY <2>2, <2>5
  <2>8. \A s, w \in DOMAIN runs' : s \notin DOMAIN runs /\ w \notin DOMAIN runs => s = w
    BY <2>5
  <2> QED
    BY <2>1, <2>6, <2>7, <2>8, ReopenedRec
<1> QED
  BY <1>1, <1>2, <1>5, <1>6, <1>7

LEMMA InitRec == HInit => Rec
<1> SUFFICES ASSUME HInit PROVE Rec
  OBVIOUS
<1>1. DOMAIN runs = {} /\ \A p \in Paths : disk[p] = 0
  BY DEF HInit
<1> QED
  BY <1>1 DEF Rec, Placed, Crawls

LEMMA NextRec == IInv /\ Rec /\ [HNext]_hvars => Rec'
<1> SUFFICES ASSUME IInv, Rec, [HNext]_hvars PROVE Rec'
  OBVIOUS
<1>1. ASSUME UNCHANGED <<runs, fileVars>> PROVE Rec'
  <2>1. runs' = runs /\ files' = files /\ disk' = disk
    BY <1>1 DEF fileVars
  <2> QED
    BY <2>1 DEF Rec, Placed, Crawls, Own
<1>2. CASE UNCHANGED hvars
  BY <1>1, <1>2 DEF hvars, fileVars
<1>3. CASE \E r \in 1..MaxOpens : Goroutine(r) \/ Spill(r)
  BY <1>3, SendRec, ReturnRec, WriteMapRec, SettleRec, FinishRunRec, FlushRec, DeliverRec,
     PlayEndsRec, SpillRec DEF Goroutine
<1>4. CASE PullProgress \/ Tell
  BY <1>1, <1>4 DEF PullProgress, Tell
<1> QED
  BY <1>2, <1>3, <1>4, OpenCrawlRec, OpenReplayRec, CancelRec, QuitRec DEF HNext

LEMMA RecReplays == IInv /\ Rec => ReplaysUnlessReopened
<1> SUFFICES ASSUME IInv, Rec, NEW r \in DOMAIN runs,
                    runs[r].kind = "crawl", ~Running(r), ~runs[r].err,
                    runs[r].alone, ~runs[r].touched
             PROVE  Recorded(r)
  BY DEF ReplaysUnlessReopened
<1>1. r \in Crawls /\ runs[r].stage = "over" /\ Left(runs[r]) /\ runs[r].seq \in Nat /\ runs[r] \in Run
  BY RunAt DEF Crawls, Running, Left, Run
<1>2. /\ disk[runs[r].path] = runs[r].file /\ files[runs[r].file] = Upto(r, runs[r].out)
      /\ runs[r].out = runs[r].seq + 1
  BY <1>1 DEF Rec, Own, Counted
<1>3. Lines(r, 0, runs[r].seq) = Upto(r, runs[r].seq + 1)
  <2>1. runs[r].seq + 1 - 0 = runs[r].seq + 1
    BY <1>1
  <2>2. \A k \in 1..(runs[r].seq + 1) : 0 + k - 1 = k - 1
    BY <1>1
  <2> QED
    BY <2>1, <2>2 DEF Lines, Upto
<1> QED
  BY <1>2, <1>3 DEF Recorded

\* A crawl that is over has left its header and every event on disk, in order and
\* nothing else, however it ended, unless a write failed or its recording was
\* opened by another crawl: however many runs share paths, are refused once
\* their files are created, or have their writes put off.
THEOREM RunReplaysUnlessReopened == HSpec => []ReplaysUnlessReopened
<1>1. HSpec => []IInv
  BY InitIInv, NextIInv, PTL DEF HSpec
<1>2. HSpec => []Rec
  BY <1>1, InitRec, NextRec, PTL DEF HSpec
<1> QED
  BY <1>1, <1>2, RecReplays, PTL

-----------------------------------------------------------------------------
(* RunView: naturals and ascending notes.                                  *)

\* A set of naturals has a least element.
LEMMA LeastNatural ==
    ASSUME NEW T \in SUBSET Nat, T # {}
    PROVE  \E x \in T : \A y \in T : x <= y
<1> DEFINE Less == OpToRel(<, Nat)
<1>1. IsWellFoundedOn(Less, Nat)
  BY NatLessThanWellFounded
<1>2. \A x, y \in Nat : y < x => <<y, x>> \in Less
  BY DEF OpToRel
<1> HIDE DEF Less
<1>3. PICK x \in T : \A y \in T : ~(<<y, x>> \in Less)
  BY <1>1, WFMin
<1>4. ASSUME NEW y \in T
      PROVE  x <= y
  <2>1. x \in Nat /\ y \in Nat
    OBVIOUS
  <2>2. ~(y < x)
    BY <1>2, <1>3, <2>1
  <2> QED
    BY <2>1, <2>2
<1> QED
  BY <1>4

\* What holds at 0 and is handed on holds of every natural.
LEMMA Counting ==
    ASSUME NEW T, 0 \in T, \A n \in Nat : n \in T => n + 1 \in T
    PROVE  \A n \in Nat : n \in T
<1>1. CASE {n \in Nat : n \notin T} # {}
  <2>1. PICK m \in {n \in Nat : n \notin T} : \A y \in {n \in Nat : n \notin T} : m <= y
    BY <1>1, LeastNatural
  <2>2. m # 0 /\ m \in Nat /\ m \notin T
    BY <2>1
  <2>3. m - 1 \in Nat /\ (m - 1) + 1 = m
    BY <2>2
  <2>4. ~(m <= m - 1)
    BY <2>2
  <2>5. m - 1 \in T
    BY <2>1, <2>3, <2>4
  <2> QED
    BY <2>2, <2>3, <2>5
<1> QED
  BY <1>1

(* What a loop over notes makes. *)

NoteRec == [seq : Nat, ev : Event]
Elements(q) == {q[i] : i \in DOMAIN q}
Ascending(q) == \A i, j \in DOMAIN q : i < j => q[i].seq < q[j].seq

\* A later note at the end of ascending notes.
LEMMA AppendAscends ==
    ASSUME NEW q \in Seq(NoteRec), NEW x \in NoteRec, Ascending(q),
           \A e \in Elements(q) : e.seq < x.seq
    PROVE  /\ Append(q, x) \in Seq(NoteRec) /\ Ascending(Append(q, x))
           /\ Elements(Append(q, x)) = Elements(q) \cup {x}
<1>1. /\ DOMAIN Append(q, x) = DOMAIN q \cup {Len(q) + 1}
      /\ \A i \in DOMAIN q : Append(q, x)[i] = q[i]
      /\ Append(q, x)[Len(q) + 1] = x
      /\ Append(q, x) \in Seq(NoteRec)
  OBVIOUS
<1>2. \A i \in DOMAIN q : i \in Nat /\ i < Len(q) + 1
  OBVIOUS
<1>3. Len(q) + 1 \in Nat /\ \A i \in Nat : i < Len(q) + 1 => ~(Len(q) + 1 < i)
  OBVIOUS
<1>4. Elements(Append(q, x)) = Elements(q) \cup {x}
  BY <1>1 DEF Elements
<1>5. Ascending(Append(q, x))
  <2> SUFFICES ASSUME NEW i \in DOMAIN Append(q, x), NEW j \in DOMAIN Append(q, x), i < j
               PROVE  Append(q, x)[i].seq < Append(q, x)[j].seq
    BY DEF Ascending
  <2>1. i \in DOMAIN q
    <3>1. CASE i = Len(q) + 1
      <4>1. ~(i < j)
        BY <1>1, <1>2, <1>3, <3>1
      <4> QED
        BY <4>1
    <3> QED
      BY <1>1, <3>1
  <2>2. CASE j \in DOMAIN q
    BY <1>1, <2>1, <2>2 DEF Ascending
  <2>3. CASE j = Len(q) + 1
    BY <1>1, <2>1, <2>3 DEF Elements
  <2> QED
    BY <1>1, <2>2, <2>3
<1> QED
  BY <1>1, <1>4, <1>5

\* Ascending notes after ascending notes that are all earlier.
LEMMA CatAscends ==
    ASSUME NEW p \in Seq(NoteRec), NEW q \in Seq(NoteRec), Ascending(p), Ascending(q),
           \A e \in Elements(p), f \in Elements(q) : e.seq < f.seq
    PROVE  /\ p \o q \in Seq(NoteRec) /\ Ascending(p \o q)
           /\ Elements(p \o q) = Elements(p) \cup Elements(q)
<1>1. PICK m \in Nat, n \in Nat : m = Len(p) /\ n = Len(q)
  OBVIOUS
<1>0. p \o q \in Seq(NoteRec)
  OBVIOUS
<1>2. PICK c \in Seq(NoteRec) : c = p \o q
  BY <1>0
<1>3. /\ DOMAIN p = 1..m /\ DOMAIN q = 1..n /\ DOMAIN c = 1..(m + n)
      /\ \A i \in 1..m : c[i] = p[i]
      /\ \A i \in (m + 1)..(m + n) : c[i] = q[i - m]
  BY <1>1, <1>2
<1>4. \A i \in 1..(m + n) : i \in 1..m \/ i \in (m + 1)..(m + n)
  OBVIOUS
<1>5. \A i \in (m + 1)..(m + n) : i - m \in 1..n
  OBVIOUS
<1>6. ASSUME NEW i \in 1..n
      PROVE  m + i \in (m + 1)..(m + n) /\ (m + i) - m = i
  OBVIOUS
<1>7. \A i \in 1..m : i \in 1..(m + n)
  OBVIOUS
<1>8. \A i \in (m + 1)..(m + n) : i \in 1..(m + n)
  OBVIOUS
<1>9. Elements(c) = Elements(p) \cup Elements(q)
  <2>1. ASSUME NEW e \in Elements(c)
        PROVE  e \in Elements(p) \cup Elements(q)
    BY <1>3, <1>4, <1>5 DEF Elements
  <2>2. ASSUME NEW e \in Elements(p)
        PROVE  e \in Elements(c)
    BY <1>3, <1>7 DEF Elements
  <2>3. ASSUME NEW e \in Elements(q)
        PROVE  e \in Elements(c)
    <3>1. PICK i \in 1..n : e = q[i]
      BY <1>3 DEF Elements
    <3>2. c[m + i] = e /\ m + i \in DOMAIN c
      BY <1>3, <1>6, <1>8, <3>1
    <3> QED
      BY <3>2 DEF Elements
  <2> QED
    BY <2>1, <2>2, <2>3
<1>10. Ascending(c)
  <2> SUFFICES ASSUME NEW i \in 1..(m + n), NEW j \in 1..(m + n), i < j
               PROVE  c[i].seq < c[j].seq
    BY <1>3 DEF Ascending
  <2>1. CASE i \in 1..m /\ j \in 1..m
    BY <1>3, <2>1 DEF Ascending
  <2>2. CASE i \in 1..m /\ j \in (m + 1)..(m + n)
    <3>1. c[i] \in Elements(p) /\ c[j] \in Elements(q)
      BY <1>3, <1>5, <2>2 DEF Elements
    <3> QED
      BY <3>1
  <2>3. CASE i \in (m + 1)..(m + n) /\ j \in (m + 1)..(m + n)
    <3>1. i - m < j - m /\ i - m \in DOMAIN q /\ j - m \in DOMAIN q
      BY <1>3, <1>5, <2>3
    <3>2. q[i - m].seq < q[j - m].seq
      BY <3>1 DEF Ascending
    <3> QED
      BY <1>3, <2>3, <3>2
  <2>4. ~(i \in (m + 1)..(m + n) /\ j \in 1..m)
    OBVIOUS
  <2> QED
    BY <1>4, <2>1, <2>2, <2>3, <2>4
<1> QED
  BY <1>2, <1>9, <1>10

\* The loop of DecisionsSince, unrolled.
LEMMA SinceTrace ==
    ASSUME NEW r, Len(r.notes) \in Nat, NEW s
    PROVE  \E g : /\ g[0] = <<>> /\ DecisionsSince(r, s) = g[Len(r.notes)]
                  /\ \A n \in Nat : n + 1 <= Len(r.notes) =>
                       g[n + 1] = IF r.notes[n + 1].seq > s THEN Append(g[n], r.notes[n + 1])
                                  ELSE g[n]
<1> DEFINE L == Len(r.notes)
           Then(q, i) == IF r.notes[i].seq > s THEN Append(q, r.notes[i]) ELSE q
           DoneTo(f, n) == /\ f = [m \in 0..n |-> f[m]] /\ f[0] = <<>>
                         /\ \A m \in 0..n : m # 0 => f[m] = Then(f[m - 1], m)
           T == {n \in Nat : \E f : DoneTo(f, n)}
           body(f) == [n \in 0..L |-> IF n = 0 THEN <<>>
                                      ELSE IF r.notes[n].seq > s THEN Append(f[n - 1], r.notes[n])
                                           ELSE f[n - 1]]
           upTo == CHOOSE f : f = body(f)
<1>1. 0 \in T
  <2> HIDE DEF Then
  <2> DEFINE f == [m \in 0..0 |-> <<>>]
  <2>1. DoneTo(f, 0)
    OBVIOUS
  <2> QED
    BY <2>1
<1>2. ASSUME NEW n \in Nat, n \in T
      PROVE  n + 1 \in T
  <2> HIDE DEF Then
  <2>1. PICK f : DoneTo(f, n)
    BY <1>2
  <2> DEFINE h == [m \in 0..(n + 1) |-> IF m = n + 1 THEN Then(f[n], n + 1) ELSE f[m]]
  <2>2. h[0] = <<>> /\ h = [m \in 0..(n + 1) |-> h[m]]
    BY <2>1
  <2>3. \A m \in 0..n : h[m] = f[m]
    OBVIOUS
  <2>4. ASSUME NEW m \in 0..(n + 1), m # 0
        PROVE  h[m] = Then(h[m - 1], m)
    <3>1. m - 1 \in 0..n
      BY <2>4
    <3>2. h[m - 1] = f[m - 1]
      BY <2>3, <3>1
    <3>3. CASE m = n + 1
      <4>1. h[m] = Then(f[n], m) /\ m - 1 = n
        BY <3>3
      <4> QED
        BY <3>2, <4>1
    <3>4. CASE m # n + 1
      <4>1. m \in 0..n
        BY <2>4, <3>4
      <4>2. f[m] = Then(f[m - 1], m)
        BY <2>1, <2>4, <4>1
      <4> QED
        BY <2>3, <3>2, <4>1, <4>2
    <3> QED
      BY <3>3, <3>4
  <2> HIDE DEF h
  <2>5. DoneTo(h, n + 1)
    BY <2>2, <2>4
  <2> HIDE DEF DoneTo
  <2> QED
    BY <2>5
<1>3. \A n \in Nat : n \in T
  <2> HIDE DEF T
  <2> QED
    BY <1>1, <1>2, Counting
<1>4. PICK f : DoneTo(f, L)
  BY <1>3
<1>5. f = body(f)
  <2>1. ASSUME NEW m \in 0..L
        PROVE  f[m] = IF m = 0 THEN <<>> ELSE Then(f[m - 1], m)
    <3> HIDE DEF Then
    <3> QED
      BY <1>4
  <2>2. f = [m \in 0..L |-> f[m]]
    BY <1>4
  <2> QED
    BY <2>1, <2>2
<1>6. upTo = body(upTo)
  <2> HIDE DEF body
  <2> QED
    BY <1>5
<1>7. DecisionsSince(r, s) = upTo[L]
  BY DEF DecisionsSince
<1> HIDE DEF upTo
<1>8. \A m \in 0..L : upTo[m] = IF m = 0 THEN <<>> ELSE Then(upTo[m - 1], m)
  BY <1>6
<1> HIDE DEF Then
<1>9. upTo[0] = <<>>
  BY <1>8
<1>10. ASSUME NEW n \in Nat, n + 1 <= L
       PROVE  upTo[n + 1] = Then(upTo[n], n + 1)
  <2>1. n + 1 \in 0..L /\ n + 1 # 0 /\ (n + 1) - 1 = n
    BY <1>10
  <2> QED
    BY <1>8, <2>1
<1> QED
  BY <1>7, <1>9, <1>10 DEF Then

\* A view is given the notes it has not read, in their order.
LEMMA SinceIs ==
    ASSUME NEW r, r.notes \in Seq(NoteRec), Ascending(r.notes), NEW s \in Nat
    PROVE  LET d == DecisionsSince(r, s)
           IN  /\ d \in Seq(NoteRec) /\ Ascending(d)
               /\ Elements(d) = {e \in Elements(r.notes) : e.seq > s}
<1>1. PICK notes \in Seq(NoteRec) : notes = r.notes
  OBVIOUS
<1>2. PICK L \in Nat : L = Len(notes) /\ DOMAIN notes = 1..L
  OBVIOUS
<1>3. PICK g : /\ g[0] = <<>> /\ DecisionsSince(r, s) = g[L]
               /\ \A n \in Nat : n + 1 <= L =>
                    g[n + 1] = IF notes[n + 1].seq > s THEN Append(g[n], notes[n + 1]) ELSE g[n]
  <2>1. PICK g : /\ g[0] = <<>> /\ DecisionsSince(r, s) = g[Len(r.notes)]
                 /\ \A n \in Nat : n + 1 <= Len(r.notes) =>
                      g[n + 1] = IF r.notes[n + 1].seq > s
                                 THEN Append(g[n], r.notes[n + 1]) ELSE g[n]
    BY SinceTrace
  <2> QED
    BY <1>1, <1>2, <2>1
<1> DEFINE DoneTo(n) == {notes[i] : i \in {i \in 1..n : notes[i].seq > s}}
           Good(n) == g[n] \in Seq(NoteRec) /\ Ascending(g[n]) /\ Elements(g[n]) = DoneTo(n)
           T == {n \in Nat : n <= L => Good(n)}
<1>4. 0 \in T
  <2>1. <<>> \in Seq(NoteRec) /\ Ascending(<<>>) /\ Elements(<<>>) = {}
    BY DEF Ascending, Elements
  <2>2. DoneTo(0) = {}
    OBVIOUS
  <2> QED
    BY <1>3, <2>1, <2>2
<1>5. ASSUME NEW n \in Nat, n \in T
      PROVE  n + 1 \in T
  <2> SUFFICES ASSUME n + 1 <= L PROVE Good(n + 1)
    OBVIOUS
  <2>1. Good(n) /\ n + 1 \in 1..L /\ n + 1 \in DOMAIN notes
    BY <1>2, <1>5
  <2>2. g[n + 1] = IF notes[n + 1].seq > s THEN Append(g[n], notes[n + 1]) ELSE g[n]
    BY <1>3
  <2>3. PICK x \in NoteRec : x = notes[n + 1]
    BY <2>1
  <2>4. \A i \in 1..(n + 1) : i \in 1..n \/ i = n + 1
    OBVIOUS
  <2>5. \A i \in 1..n : i \in 1..(n + 1) /\ i \in DOMAIN notes /\ i < n + 1
    BY <1>2, <2>1
  <2>6. CASE x.seq > s
    <3>1. DoneTo(n + 1) = DoneTo(n) \cup {x}
      BY <2>3, <2>4, <2>5, <2>6
    <3>2. \A e \in DoneTo(n) : e.seq < x.seq
      <4>1. \A i \in 1..n : notes[i].seq < notes[n + 1].seq
        BY <1>1, <2>1, <2>5 DEF Ascending
      <4> QED
        BY <2>3, <4>1
    <3> HIDE DEF DoneTo
    <3>3. g[n + 1] = Append(g[n], x)
      BY <2>2, <2>3, <2>6
    <3> QED
      BY <2>1, <3>1, <3>2, <3>3, AppendAscends
  <2>7. CASE ~(x.seq > s)
    <3>1. DoneTo(n + 1) = DoneTo(n)
      BY <2>3, <2>4, <2>5, <2>7
    <3> HIDE DEF DoneTo
    <3>2. g[n + 1] = g[n]
      BY <2>2, <2>3, <2>7
    <3> QED
      BY <2>1, <3>1, <3>2
  <2> QED
    BY <2>6, <2>7
<1>6. Good(L)
  <2>1. \A n \in Nat : n \in T
    <3> HIDE DEF T
    <3> QED
      BY <1>4, <1>5, Counting
  <2>2. L \in T
    BY <2>1
  <2> QED
    BY <2>2
<1>7. DoneTo(L) = {e \in Elements(notes) : e.seq > s}
  BY <1>2 DEF Elements
<1> QED
  BY <1>1, <1>3, <1>6, <1>7

(* What an event makes of a run. *)

\* A run has its fields, and a row for each of finitely many devices.
WholeRun(r) ==
    /\ r = [rows |-> r.rows, seq |-> r.seq, depth |-> r.depth, notes |-> r.notes,
            rejections |-> r.rejections, closed |-> r.closed]
    /\ r.rows \in [DOMAIN r.rows -> Row] /\ DOMAIN r.rows \subseteq Keys
    /\ IsFiniteSet(DOMAIN r.rows)
    /\ r.seq \in Nat /\ r.depth \in Nat /\ r.rejections \in Nat /\ r.closed \in BOOLEAN
    /\ r.notes \in Seq(NoteRec)

Numbered(r) ==
    \A k \in DOMAIN r.rows :
        /\ r.rows[k].seq \in 1..r.seq
        /\ r.rows[k].phase # "" => r.rows[k].state = "running"
        /\ \A j \in DOMAIN r.rows : r.rows[j].seq = r.rows[k].seq => j = k

-----------------------------------------------------------------------------
(* Rows and runs.                                                          *)

\* The fields of an event.
LEMMA EventIs ==
    ASSUME NEW ev \in Event
    PROVE  /\ ev.kind \in Kinds /\ ev.id \in Keys \cup {NoKey} /\ ev.depth \in Nat
           /\ ev.via \in Keys \cup {NoKey} /\ ev.detail \in Text
BY DEF Event

\* The fields of a row.
LEMMA RowIs ==
    ASSUME NEW d \in Row
    PROVE  /\ d.state \in States /\ d.depth \in Nat /\ d.via \in Keys \cup {NoKey} /\ d.detail \in Text
           /\ d.phase \in Text /\ d.attempts \in Nat /\ d.seq \in Nat
BY DEF Row

\* One event leaves a row in a state there is, with a phase only while running.
LEMMA StateIs ==
    ASSUME NEW d \in Row, NEW ev \in Event, d.phase # "" => d.state = "running"
    PROVE  /\ StateAfter(d, ev) \in States /\ PhaseAfter(d, ev) \in Text
           /\ PhaseAfter(d, ev) # "" => StateAfter(d, ev) = "running"
<1>1. d.state \in States /\ d.phase \in Text /\ ev.detail \in Text /\ "" \in Text
  BY RowIs, EventIs, RunRowsAssumption
<1>2. {"queued", "running"} \subseteq States /\ Outcomes \subseteq States
  BY DEF States
<1>3. CASE ev.kind \in Outcomes
  <2>1. ev.kind \notin {"auth-ok", "auth-reject", "collect", "phase"} /\ ev.kind \notin Annotating
    BY <1>3 DEF Outcomes, Annotating
  <2>2. StateAfter(d, ev) = ev.kind
    BY <1>3, <2>1 DEF StateAfter
  <2>3. PhaseAfter(d, ev) = ""
    BY <1>3, <2>1 DEF PhaseAfter
  <2> QED
    BY <1>1, <1>2, <1>3, <2>2, <2>3
<1>4. CASE ev.kind \in {"auth-ok", "auth-reject", "collect"}
  <2>0. ev.kind \notin Outcomes /\ ev.kind \notin Annotating \cup {"phase"}
    BY <1>4 DEF Outcomes, Annotating
  <2>1. StateAfter(d, ev) = "running" /\ PhaseAfter(d, ev) = d.phase
    BY <1>4, <2>0 DEF StateAfter, PhaseAfter
  <2> QED
    BY <1>1, <1>2, <2>1
<1>5. CASE ev.kind \in Annotating \cup {"phase"}
  <2>1. ev.kind \notin Outcomes /\ ev.kind \notin {"auth-ok", "auth-reject", "collect"}
    BY <1>5 DEF Annotating, Outcomes
  <2>2. StateAfter(d, ev) = AtWork(d.state)
    BY <1>5, <2>1 DEF StateAfter
  <2>3. PhaseAfter(d, ev) = IF ev.kind = "phase" /\ AtWork(d.state) = "running" THEN ev.detail ELSE d.phase
    BY <2>1 DEF PhaseAfter
  <2>4. AtWork(d.state) \in States /\ (d.state = "running" => AtWork(d.state) = "running")
    BY <1>1, <1>2 DEF AtWork
  <2> QED
    BY <1>1, <2>2, <2>3, <2>4
<1>6. CASE ev.kind \notin Outcomes \cup {"auth-ok", "auth-reject", "collect"} \cup Annotating \cup {"phase"}
  <2>1. StateAfter(d, ev) = d.state /\ PhaseAfter(d, ev) = d.phase
    BY <1>6 DEF StateAfter, PhaseAfter
  <2> QED
    BY <1>1, <2>1
<1> QED
  BY <1>3, <1>4, <1>5, <1>6

\* Of naturals.
LEMMA SumNat == \A m, n \in Nat : m + n \in Nat
OBVIOUS

\* What the bound cuts begins after the first note.
LEMMA CutAt == \A m, n \in Nat : m > 0 /\ n > m => n - m + 1 \in 1..n /\ n - m + 1 > 1
OBVIOUS

\* One event makes a row of a row (Run.Handle).
LEMMA RowAfterIs ==
    ASSUME NEW d \in Row, NEW ev \in Event, NEW s \in Nat, d.phase # "" => d.state = "running"
    PROVE  /\ RowAfter(d, ev, s) \in Row /\ RowAfter(d, ev, s).seq = s
           /\ RowAfter(d, ev, s).phase # "" => RowAfter(d, ev, s).state = "running"
<1>1. StateAfter(d, ev) \in States /\ PhaseAfter(d, ev) \in Text
      /\ (PhaseAfter(d, ev) # "" => StateAfter(d, ev) = "running")
  BY StateIs
<1>2. DepthAfter(d, ev) \in Nat
  BY RowIs, EventIs DEF DepthAfter
<1>3. DetailAfter(d, ev) \in Text
  BY RowIs, EventIs, RunRowsAssumption DEF DetailAfter, RowNote
<1>4. (IF d.via = NoKey THEN ev.via ELSE d.via) \in Keys \cup {NoKey}
  BY RowIs, EventIs
<1>5. d.attempts + (IF ev.kind \in {"auth-ok", "auth-reject"} THEN 1 ELSE 0) \in Nat
  <2>1. PICK m \in Nat : m = d.attempts
    BY RowIs
  <2>2. PICK x \in Nat : x = IF ev.kind \in {"auth-ok", "auth-reject"} THEN 1 ELSE 0
    OBVIOUS
  <2>3. m + x \in Nat
    BY SumNat
  <2> QED
    BY <2>1, <2>2, <2>3
<1> QED
  BY <1>1, <1>2, <1>3, <1>4, <1>5 DEF RowAfter, Row

\* The row a new key starts from (Run.row).
LEMMA NewRowIs == NewRow \in Row /\ (NewRow.phase # "" => NewRow.state = "running")
BY RunRowsAssumption DEF NewRow, Row, States

\* One event makes notes of notes.
LEMMA NotesAre ==
    ASSUME NEW q \in Seq(NoteRec), NEW ev \in Event, NEW s \in Nat
    PROVE  NotesAfter(q, ev, s) \in Seq(NoteRec) /\ Note(ev, s) \in NoteRec
<1>1. Note(ev, s) \in NoteRec
  BY DEF Note, NoteRec
<1>2. Append(q, Note(ev, s)) \in Seq(NoteRec)
  BY <1>1
<1>3. PICK all \in Seq(NoteRec) : all = IF Notable(ev) THEN Append(q, Note(ev, s)) ELSE q
  BY <1>2
<1>4. ASSUME MaxNotes > 0, Len(all) > MaxNotes
      PROVE  SubSeq(all, Len(all) - MaxNotes + 1, Len(all)) \in Seq(NoteRec)
  <2>1. PICK k \in 1..Len(all) : k = Len(all) - MaxNotes + 1
    <3>0. MaxNotes \in Nat
      BY RunRowsAssumption
    <3>1. Len(all) \in Nat
      OBVIOUS
    <3>2. Len(all) - MaxNotes + 1 \in 1..Len(all)
      BY <1>4, <3>0, <3>1, CutAt
    <3> QED
      BY <3>2
  <2>2. SubSeq(all, k, Len(all)) \in Seq(NoteRec)
    OBVIOUS
  <2> QED
    BY <2>1, <2>2
<1> QED
  BY <1>1, <1>3, <1>4 DEF NotesAfter

\* The row an event finds, or starts.
LEMMA RowOfIs ==
    ASSUME NEW r, WholeRun(r), Numbered(r), NEW k
    PROVE  RowOf(r, k) \in Row /\ (RowOf(r, k).phase # "" => RowOf(r, k).state = "running")
<1>1. CASE k \in DOMAIN r.rows
  <2>1. RowOf(r, k) = r.rows[k]
    BY <1>1 DEF RowOf
  <2>2. r.rows[k] \in Row
    BY <1>1 DEF WholeRun
  <2> QED
    BY <1>1, <2>1, <2>2 DEF Numbered
<1>2. CASE k \notin DOMAIN r.rows
  BY <1>2, NewRowIs DEF RowOf
<1> QED
  BY <1>1, <1>2

\* One event changes one row, which gets the next number (Run.Handle).
LEMMA AfterRows ==
    ASSUME NEW r, WholeRun(r), Numbered(r), NEW ev \in Event
    PROVE  LET rows == RowsAfter(r, ev)
           IN  /\ rows \in [DOMAIN rows -> Row] /\ DOMAIN rows \subseteq Keys
               /\ IsFiniteSet(DOMAIN rows) /\ DOMAIN r.rows \subseteq DOMAIN rows
               /\ \A k \in DOMAIN rows : rows[k].phase # "" => rows[k].state = "running"
               /\ \A k \in DOMAIN rows :
                    \/ k \in DOMAIN r.rows /\ k # ev.id /\ rows[k] = r.rows[k]
                    \/ k = ev.id /\ rows[k].seq = r.seq + 1
<1>1. CASE ev.id = NoKey
  <2>1. RowsAfter(r, ev) = r.rows /\ NoKey \notin Keys
    BY <1>1, RunRowsAssumption DEF RowsAfter
  <2> QED
    BY <1>1, <2>1 DEF WholeRun, Numbered
<1>2. CASE ev.id # NoKey
  <2> DEFINE row == RowAfter(RowOf(r, ev.id), ev, r.seq + 1)
             D == DOMAIN r.rows \cup {ev.id}
  <2>1. r.seq + 1 \in Nat
    BY DEF WholeRun
  <2>2. row \in Row /\ row.seq = r.seq + 1 /\ (row.phase # "" => row.state = "running")
    <3>1. PICK d \in Row : d = RowOf(r, ev.id) /\ (d.phase # "" => d.state = "running")
      BY RowOfIs
    <3>2. PICK s \in Nat : s = r.seq + 1
      BY <2>1
    <3>3. /\ RowAfter(d, ev, s) \in Row /\ RowAfter(d, ev, s).seq = s
          /\ RowAfter(d, ev, s).phase # "" => RowAfter(d, ev, s).state = "running"
      BY <3>1, RowAfterIs
    <3> QED
      BY <3>1, <3>2, <3>3
  <2>3. RowsAfter(r, ev) = [k \in D |-> IF k = ev.id THEN row ELSE r.rows[k]]
    BY <1>2 DEF RowsAfter
  <2> HIDE DEF row
  <2>4. D \subseteq Keys
    BY <1>2, EventIs DEF WholeRun
  <2>5. IsFiniteSet(D)
    BY FS_AddElement DEF WholeRun
  <2>6. \A k \in D : k # ev.id => k \in DOMAIN r.rows /\ r.rows[k] \in Row
    BY DEF WholeRun
  <2>7. \A k \in DOMAIN r.rows : r.rows[k].phase # "" => r.rows[k].state = "running"
    BY DEF Numbered
  <2> HIDE DEF D
  <2>8. RowsAfter(r, ev) \in [D -> Row] /\ DOMAIN RowsAfter(r, ev) = D
    BY <2>2, <2>3, <2>6
  <2>9. \A k \in D : RowsAfter(r, ev)[k] = IF k = ev.id THEN row ELSE r.rows[k]
    BY <2>3
  <2>10. DOMAIN r.rows \subseteq D
    BY DEF D
  <2> QED
    BY <2>2, <2>4, <2>5, <2>6, <2>7, <2>8, <2>9, <2>10
<1> QED
  BY <1>1, <1>2

\* One event makes a whole run of a whole run, whose changed row alone has the
\* next number.
LEMMA AfterIs ==
    ASSUME NEW r, WholeRun(r), Numbered(r), NEW ev \in Event
    PROVE  LET r2 == After(r, ev)
           IN  /\ WholeRun(r2) /\ Numbered(r2)
               /\ r2.seq = r.seq + 1 /\ r2.closed = r.closed
               /\ r2.notes = NotesAfter(r.notes, ev, r.seq + 1)
               /\ r2.rejections = RejectionsAfter(r, ev)
               /\ DOMAIN r.rows \subseteq DOMAIN r2.rows
               /\ \A k \in DOMAIN r2.rows : r2.rows[k].seq <= r.seq =>
                    k \in DOMAIN r.rows /\ r2.rows[k] = r.rows[k]
<1>1. PICK r2 : r2 = After(r, ev)
  OBVIOUS
<1>2. PICK rows : rows = RowsAfter(r, ev)
  OBVIOUS
<1>3. PICK s \in Nat : s = r.seq
  BY DEF WholeRun
<1>4. /\ r2.rows = rows /\ r2.seq = s + 1 /\ r2.closed = r.closed
      /\ r2.notes = NotesAfter(r.notes, ev, s + 1)
      /\ r2.rejections = RejectionsAfter(r, ev)
      /\ r2.depth = IF ev.kind = "depth" THEN ev.depth ELSE r.depth
      /\ r2 = [rows |-> r2.rows, seq |-> r2.seq, depth |-> r2.depth, notes |-> r2.notes,
               rejections |-> r2.rejections, closed |-> r2.closed]
  BY <1>1, <1>2, <1>3 DEF After
<1>5. /\ rows \in [DOMAIN rows -> Row] /\ DOMAIN rows \subseteq Keys
      /\ IsFiniteSet(DOMAIN rows) /\ DOMAIN r.rows \subseteq DOMAIN rows
      /\ \A k \in DOMAIN rows : rows[k].phase # "" => rows[k].state = "running"
      /\ \A k \in DOMAIN rows :
           \/ k \in DOMAIN r.rows /\ k # ev.id /\ rows[k] = r.rows[k]
           \/ k = ev.id /\ rows[k].seq = s + 1
  BY <1>2, <1>3, AfterRows
<1>6. \A k \in DOMAIN r.rows : r.rows[k].seq \in 1..s
  BY <1>3 DEF Numbered
<1>7. ~(s + 1 <= s) /\ s + 1 \in 1..(s + 1) /\ \A n \in 1..s : n \in 1..(s + 1) /\ n # s + 1
  OBVIOUS
<1>8. r2.depth \in Nat
  BY <1>4, EventIs DEF WholeRun
<1>9. r2.rejections \in Nat
  <2>1. PICK m \in Nat : m = r.rejections
    BY DEF WholeRun
  <2>2. m + 1 \in Nat /\ m + 0 \in Nat
    BY SumNat
  <2> QED
    BY <1>4, <2>1, <2>2 DEF RejectionsAfter
<1>10. r2.notes \in Seq(NoteRec) /\ s + 1 \in Nat
  <2>1. s + 1 \in Nat
    BY SumNat
  <2>2. r.notes \in Seq(NoteRec)
    BY DEF WholeRun
  <2> QED
    BY <1>4, <2>1, <2>2, NotesAre
<1>11. r2.closed \in BOOLEAN
  BY <1>4 DEF WholeRun
<1>12. WholeRun(r2)
  BY <1>4, <1>5, <1>8, <1>9, <1>10, <1>11 DEF WholeRun
<1>13. \A k \in DOMAIN rows : rows[k].seq \in 1..(s + 1)
  BY <1>5, <1>6, <1>7
<1>14. ASSUME NEW k \in DOMAIN rows, NEW j \in DOMAIN rows, rows[j].seq = rows[k].seq
       PROVE  j = k
  <2>1. CASE j = ev.id /\ k = ev.id
    BY <2>1
  <2>2. CASE j = ev.id /\ k # ev.id
    BY <1>5, <1>6, <1>7, <1>14, <2>2
  <2>3. CASE j # ev.id /\ k = ev.id
    BY <1>5, <1>6, <1>7, <1>14, <2>3
  <2>4. CASE j # ev.id /\ k # ev.id
    <3>1. j \in DOMAIN r.rows /\ k \in DOMAIN r.rows /\ r.rows[j].seq = r.rows[k].seq
      BY <1>5, <1>14, <2>4
    <3> QED
      BY <3>1 DEF Numbered
  <2> QED
    BY <2>1, <2>2, <2>3, <2>4
<1>15. Numbered(r2)
  BY <1>4, <1>5, <1>13, <1>14 DEF Numbered
<1>16. \A k \in DOMAIN rows : rows[k].seq <= s => k \in DOMAIN r.rows /\ rows[k] = r.rows[k]
  BY <1>5, <1>7
<1> QED
  BY <1>1, <1>3, <1>4, <1>5, <1>12, <1>15, <1>16

\* The end of a run ends what is in flight, each row with a number of its own
\* (Run.finishAt).
LEMMA EndedIs ==
    ASSUME NEW r, WholeRun(r), Numbered(r), NEW order \in Orders(InFlight(r))
    PROVE  LET r2 == Ended(r, order)
           IN  /\ WholeRun(r2) /\ Numbered(r2) /\ InFlight(r2) = {} /\ r2.closed
               /\ r2.seq \in Nat /\ r.seq <= r2.seq
               /\ r2.notes = r.notes /\ r2.rejections = r.rejections
               /\ DOMAIN r2.rows = DOMAIN r.rows
               /\ \A k \in DOMAIN r2.rows : r2.rows[k].seq <= r.seq => r2.rows[k] = r.rows[k]
<1>1. PICK r2 : r2 = Ended(r, order)
  OBVIOUS
<1>2. PICK F : F = InFlight(r)
  OBVIOUS
<1>3. PICK s \in Nat : s = r.seq
  BY DEF WholeRun
<1>4. F \subseteq DOMAIN r.rows /\ IsFiniteSet(F)
  <2>1. F \subseteq DOMAIN r.rows
    BY <1>2 DEF InFlight
  <2> QED
    BY <2>1, FS_Subset DEF WholeRun
<1>5. PICK c \in Nat : c = Cardinality(F)
  BY <1>4, FS_CardinalityType
<1>6. order \in [F -> 1..c] /\ \A j, k \in F : order[j] = order[k] => j = k
  BY <1>2, <1>5 DEF Orders
<1>7. PICK rows : rows = [k \in DOMAIN r.rows |->
                     IF k \in F THEN RowEnded(r.rows[k], s + order[k]) ELSE r.rows[k]]
  OBVIOUS
<1>8. /\ r2.rows = rows /\ r2.seq = s + c /\ r2.closed = TRUE
      /\ r2.notes = r.notes /\ r2.rejections = r.rejections /\ r2.depth = r.depth
      /\ r2 = [rows |-> r2.rows, seq |-> r2.seq, depth |-> r2.depth, notes |-> r2.notes,
               rejections |-> r2.rejections, closed |-> r2.closed]
  <2>1. r2 = [r EXCEPT !.rows = rows, !.seq = s + c, !.closed = TRUE]
    BY <1>1, <1>2, <1>3, <1>5, <1>7 DEF Ended
  <2>2. r = [rows |-> r.rows, seq |-> r.seq, depth |-> r.depth, notes |-> r.notes,
             rejections |-> r.rejections, closed |-> r.closed]
    BY DEF WholeRun
  <2> QED
    BY <2>1, <2>2
<1>9. DOMAIN rows = DOMAIN r.rows
  BY <1>7
<1>10. ASSUME NEW k \in F
       PROVE  /\ rows[k] \in Row /\ rows[k].seq = s + order[k] /\ rows[k].phase = ""
              /\ rows[k].state = "failed" /\ order[k] \in 1..c
  <2>1. r.rows[k] \in Row /\ k \in DOMAIN r.rows
    BY <1>4 DEF WholeRun
  <2>2. PICK n \in Nat : n = s + order[k]
    BY <1>6
  <2>3. rows[k] = RowEnded(r.rows[k], n)
    BY <1>7, <2>1, <2>2
  <2>4. "failed" \in States /\ "" \in Text /\ "unfinished" \in Text
    BY RunRowsAssumption DEF States, Outcomes
  <2>5. (IF r.rows[k].detail = "" THEN "unfinished" ELSE r.rows[k].detail) \in Text
    BY <2>1, <2>4, RowIs
  <2>6. RowEnded(r.rows[k], n) \in Row /\ RowEnded(r.rows[k], n).seq = n
        /\ RowEnded(r.rows[k], n).phase = "" /\ RowEnded(r.rows[k], n).state = "failed"
    BY <2>1, <2>4, <2>5 DEF RowEnded, Row
  <2> QED
    BY <1>6, <2>2, <2>3, <2>6
<1>11. ASSUME NEW k \in DOMAIN r.rows, k \notin F
       PROVE  rows[k] = r.rows[k] /\ rows[k] \in Row /\ rows[k].seq \in 1..s
              /\ rows[k].state \notin {"queued", "running"}
  <2>1. rows[k] = r.rows[k]
    BY <1>7, <1>11
  <2>2. r.rows[k] \in Row /\ r.rows[k].seq \in 1..s
    BY <1>3 DEF WholeRun, Numbered
  <2>3. r.rows[k].state \notin {"queued", "running"}
    BY <1>2, <1>11 DEF InFlight
  <2> QED
    BY <2>1, <2>2, <2>3
<1>12. s + c \in Nat /\ s <= s + c
  OBVIOUS
<1>13. \A n \in 1..c : s + n \in 1..(s + c) /\ ~(s + n <= s) /\ s + n \notin 1..s
  OBVIOUS
<1>14. \A n \in 1..s : n \in 1..(s + c)
  OBVIOUS
<1>15. WholeRun(r2)
  <2>1. rows \in [DOMAIN rows -> Row]
    <3>1. \A k \in DOMAIN rows : rows[k] \in Row
      BY <1>9, <1>10, <1>11
    <3>2. rows = [k \in DOMAIN rows |-> rows[k]]
      BY <1>7
    <3> QED
      BY <3>1, <3>2
  <2> QED
    BY <1>8, <1>9, <1>12, <2>1 DEF WholeRun
<1>16. ASSUME NEW k \in DOMAIN rows
       PROVE  rows[k].seq \in 1..(s + c) /\ (rows[k].phase # "" => rows[k].state = "running")
              /\ rows[k].state \notin {"queued", "running"}
  <2>1. CASE k \in F
    BY <1>10, <1>13, <2>1
  <2>2. CASE k \notin F
    <3>1. rows[k].phase # "" => rows[k].state = "running"
      BY <1>9, <1>11, <2>2 DEF Numbered
    <3> QED
      BY <1>9, <1>11, <1>14, <2>2, <3>1
  <2> QED
    BY <2>1, <2>2
<1>17. ASSUME NEW k \in DOMAIN rows, NEW j \in DOMAIN rows, rows[j].seq = rows[k].seq
       PROVE  j = k
  <2>1. CASE j \in F /\ k \in F
    <3>1. PICK a \in 1..c, b \in 1..c : a = order[j] /\ b = order[k]
      BY <1>6, <2>1
    <3>2. s + a = s + b
      BY <1>10, <1>17, <2>1, <3>1
    <3>3. a = b
      BY <3>2
    <3> QED
      BY <1>6, <2>1, <3>1, <3>3
  <2>2. CASE j \in F /\ k \notin F
    BY <1>9, <1>10, <1>11, <1>13, <1>17, <2>2
  <2>3. CASE j \notin F /\ k \in F
    BY <1>9, <1>10, <1>11, <1>13, <1>17, <2>3
  <2>4. CASE j \notin F /\ k \notin F
    <3>1. r.rows[j].seq = r.rows[k].seq
      BY <1>9, <1>11, <1>17, <2>4
    <3> QED
      BY <1>9, <3>1 DEF Numbered
  <2> QED
    BY <2>1, <2>2, <2>3, <2>4
<1>18. Numbered(r2)
  BY <1>8, <1>16, <1>17 DEF Numbered
<1>19. InFlight(r2) = {}
  BY <1>8, <1>16 DEF InFlight
<1>20. \A k \in DOMAIN rows : rows[k].seq <= s => rows[k] = r.rows[k]
  BY <1>9, <1>10, <1>11, <1>13
<1> QED
  BY <1>1, <1>3, <1>8, <1>9, <1>12, <1>15, <1>18, <1>19, <1>20

\* A new run is whole.
LEMMA NewRunIs == WholeRun(NewRun) /\ Numbered(NewRun) /\ InFlight(NewRun) = {}
<1>1. NewRun.rows = [k \in {} |-> NewRow] /\ DOMAIN NewRun.rows = {}
  BY DEF NewRun
<1>2. IsFiniteSet({})
  BY FS_EmptySet
<1>3. NewRun.rows \in [{} -> Row]
  BY <1>1
<1>4. <<>> \in Seq(NoteRec)
  OBVIOUS
<1>5. WholeRun(NewRun)
  BY <1>1, <1>2, <1>3, <1>4 DEF WholeRun, NewRun
<1> QED
  BY <1>1, <1>5 DEF Numbered, InFlight

-----------------------------------------------------------------------------
(* The notes without the oldest.                                           *)

LEMMA FrontCut ==
    ASSUME NEW all \in Seq(NoteRec), NEW m \in Nat \ {0}, Len(all) = m + 1
    PROVE  /\ Len(all) - m + 1 = 2
           /\ Len(SubSeq(all, 2, m + 1)) = m /\ SubSeq(all, 2, m + 1) \in Seq(NoteRec)
           /\ \A i \in 1..m : SubSeq(all, 2, m + 1)[i] = all[i + 1] /\ i + 1 \in 1..(m + 1)
OBVIOUS

\* Notes without the first of them.
LEMMA WithoutFirst ==
    ASSUME NEW all \in Seq(NoteRec), Ascending(all), NEW m \in Nat \ {0}, Len(all) = m + 1
    PROVE  LET q == SubSeq(all, 2, m + 1)
           IN  /\ q \in Seq(NoteRec) /\ Len(q) = m /\ Ascending(q)
               /\ Elements(q) = {all[i] : i \in 2..(m + 1)}
<1>1. PICK q \in Seq(NoteRec) : q = SubSeq(all, 2, m + 1)
  BY FrontCut
<1>2. Len(q) = m /\ DOMAIN q = 1..m /\ DOMAIN all = 1..(m + 1)
  BY <1>1, FrontCut
<1>3. \A i \in 1..m : q[i] = all[i + 1] /\ i + 1 \in 1..(m + 1)
  BY <1>1, FrontCut
<1>4. Ascending(q)
  <2> SUFFICES ASSUME NEW i \in 1..m, NEW j \in 1..m, i < j
               PROVE  q[i].seq < q[j].seq
    BY <1>2 DEF Ascending
  <2>1. i + 1 < j + 1
    OBVIOUS
  <2> QED
    BY <1>2, <1>3, <2>1 DEF Ascending
<1>5. Elements(q) = {all[i] : i \in 2..(m + 1)}
  <2>1. \A i \in 1..m : i + 1 \in 2..(m + 1)
    OBVIOUS
  <2>2. \A i \in 2..(m + 1) : i - 1 \in 1..m /\ (i - 1) + 1 = i
    OBVIOUS
  <2>3. ASSUME NEW i \in 2..(m + 1)
        PROVE  all[i] \in Elements(q)
    <3>1. q[i - 1] = all[i] /\ i - 1 \in DOMAIN q
      BY <1>2, <1>3, <2>2
    <3> QED
      BY <3>1 DEF Elements
  <2>4. ASSUME NEW i \in DOMAIN q
        PROVE  q[i] \in {all[k] : k \in 2..(m + 1)}
    BY <1>2, <1>3, <2>1
  <2> QED
    BY <2>3, <2>4 DEF Elements
<1> QED
  BY <1>1, <1>2, <1>4, <1>5

\* The bound on notes drops the oldest, which has been read unless a burst
\* came between two reads (Run.KeepNotes).
LEMMA NotesKept ==
    ASSUME NEW q \in Seq(NoteRec), Ascending(q), NEW ev \in Event, NEW s \in Nat,
           \A e \in Elements(q) : e.seq < s, MaxNotes > 0 => Len(q) <= MaxNotes
    PROVE  LET q2 == NotesAfter(q, ev, s)
               x == Note(ev, s)
           IN  /\ q2 \in Seq(NoteRec) /\ Ascending(q2)
               /\ MaxNotes > 0 => Len(q2) <= MaxNotes
               /\ Elements(q2) \subseteq Elements(q) \cup (IF Notable(ev) THEN {x} ELSE {})
               /\ Notable(ev) => x \in Elements(q2)
               /\ \A d \in Nat :
                    ~(Notable(ev) /\ MaxNotes > 0
                        /\ Cardinality({i \in DOMAIN q : q[i].seq > d}) = MaxNotes)
                    => \A e \in Elements(q) : e.seq > d => e \in Elements(q2)
<1>1. PICK m \in Nat : m = MaxNotes
  BY RunRowsAssumption
<1>2. PICK L \in Nat : L = Len(q) /\ DOMAIN q = 1..L
  OBVIOUS
<1>3. PICK q2 : q2 = NotesAfter(q, ev, s)
  OBVIOUS
<1>4. PICK x \in NoteRec : x = Note(ev, s) /\ x.seq = s
  <2>1. Note(ev, s) \in NoteRec /\ Note(ev, s).seq = s
    BY DEF Note, NoteRec
  <2> QED
    BY <2>1
<1>5. m > 0 => L <= m
  <2>1. m > 0 => Len(q) <= m
    BY <1>1
  <2> QED
    BY <1>2, <2>1
<1>6. CASE ~Notable(ev)
  <2>1. ~(m > 0 /\ L > m)
    BY <1>5
  <2>2. q2 = q
    BY <1>1, <1>2, <1>3, <1>6, <2>1 DEF NotesAfter
  <2> QED
    BY <1>3, <1>6, <2>2
<1>7. CASE Notable(ev)
  <2>0. Append(q, x) \in Seq(NoteRec)
    OBVIOUS
  <2>1. PICK all \in Seq(NoteRec) : all = Append(q, x)
    BY <2>0
  <2>2. Ascending(all) /\ Elements(all) = Elements(q) \cup {x}
    BY <1>4, <2>1, AppendAscends
  <2>3. Len(all) = L + 1 /\ all[L + 1] = x /\ DOMAIN all = 1..(L + 1)
        /\ \A i \in 1..L : all[i] = q[i]
    BY <1>2, <2>1
  <2>4. q2 = IF m > 0 /\ Len(all) > m THEN SubSeq(all, Len(all) - m + 1, Len(all)) ELSE all
    BY <1>1, <1>3, <1>4, <1>7, <2>1 DEF NotesAfter
  <2>5. CASE ~(m > 0 /\ L + 1 > m)
    <3>1. q2 = all
      BY <2>3, <2>4, <2>5
    <3>2. m > 0 => L + 1 <= m
      BY <2>5
    <3> QED
      BY <1>1, <1>3, <1>4, <1>7, <2>2, <2>3, <3>1, <3>2
  <2>6. CASE m > 0 /\ L + 1 > m
    <3>1. L = m /\ m \in Nat \ {0}
      BY <1>5, <2>6
    <3>2. Len(all) - m + 1 = 2 /\ Len(all) = m + 1
      BY <2>3, <3>1
    <3>3. q2 = SubSeq(all, 2, m + 1)
      BY <2>3, <2>4, <2>6, <3>2
    <3>4. q2 \in Seq(NoteRec) /\ Len(q2) = m /\ Ascending(q2)
          /\ Elements(q2) = {all[i] : i \in 2..(m + 1)}
      BY <2>2, <3>1, <3>2, <3>3, WithoutFirst
    <3>5. m + 1 \in 2..(m + 1) /\ (\A i \in 2..(m + 1) : i \in 1..(m + 1)) /\ m <= m
      BY <3>1
    <3>6. Elements(q2) \subseteq Elements(all) /\ x \in Elements(q2)
      BY <2>3, <3>1, <3>4, <3>5 DEF Elements
    <3>7. ASSUME NEW d \in Nat, Cardinality({i \in DOMAIN q : q[i].seq > d}) # m,
                 NEW e \in Elements(q), e.seq > d
          PROVE  e \in Elements(q2)
      <4>1. PICK i \in 1..L : e = q[i]
        BY <1>2 DEF Elements
      <4>2. CASE i = 1
        <5>1. \A j \in 1..L : q[j].seq > d
          <6> SUFFICES ASSUME NEW j \in 1..L PROVE q[j].seq > d
            OBVIOUS
          <6>1. q[j].seq \in Nat /\ q[1].seq \in Nat /\ q[1].seq > d
            <7>1. q[j] \in NoteRec /\ q[1] \in NoteRec
              BY <1>2, <4>1, <4>2
            <7>2. q[j].seq \in Nat /\ q[1].seq \in Nat
              BY <7>1 DEF NoteRec
            <7> QED
              BY <3>7, <4>1, <4>2, <7>2
          <6>2. CASE j = 1
            BY <6>1, <6>2
          <6>3. CASE j # 1
            <7>1. 1 < j /\ 1 \in DOMAIN q /\ j \in DOMAIN q
              BY <1>2, <6>3
            <7>2. q[1].seq < q[j].seq
              BY <7>1 DEF Ascending
            <7> QED
              BY <6>1, <7>2
          <6> QED
            BY <6>2, <6>3
        <5>2. {k \in DOMAIN q : q[k].seq > d} = 1..L
          BY <1>2, <5>1
        <5>3. Cardinality(1..L) = L
          BY FS_Interval, <3>1
        <5> QED
          BY <3>1, <3>7, <5>2, <5>3
      <4>3. CASE i # 1
        <5>1. i \in 2..(m + 1)
          BY <3>1, <4>3
        <5>2. all[i] = e
          BY <2>3, <4>1
        <5> QED
          BY <3>4, <5>1, <5>2
      <4> QED
        BY <4>2, <4>3
    <3>8. \A d \in Nat : ~(Notable(ev) /\ MaxNotes > 0
                             /\ Cardinality({i \in DOMAIN q : q[i].seq > d}) = MaxNotes)
            => \A e \in Elements(q) : e.seq > d => e \in Elements(q2)
      BY <1>1, <1>7, <2>6, <3>7
    <3> QED
      BY <1>1, <1>3, <1>4, <1>7, <2>2, <3>4, <3>5, <3>6, <3>8
  <2> QED
    BY <2>5, <2>6
<1> QED
  BY <1>6, <1>7

(* What a recording replays to. *)

-----------------------------------------------------------------------------
(* A tape, replayed.                                                       *)

Replay(t) ==
    CHOOSE f : f = [n \in 0..MaxEvents |-> IF n = 0 THEN NewRun ELSE After(f[n - 1], t[n].ev)]

\* The replay of RunView is that of its tape.
LEMMA ReplayedIs == Replayed = Replay(tape)
BY DEF Replayed, Replay

\* The loop of Play, unrolled.
LEMMA ReplaySteps ==
    ASSUME NEW t
    PROVE  /\ Replay(t)[0] = NewRun
           /\ \A n \in Nat : n + 1 <= MaxEvents => Replay(t)[n + 1] = After(Replay(t)[n], t[n + 1].ev)
<1>0. PICK L \in Nat : L = MaxEvents
  BY RunViewAssumption
<1> DEFINE DoneTo(f, n) == /\ f = [m \in 0..n |-> f[m]] /\ f[0] = NewRun
                         /\ \A m \in 0..n : m # 0 => f[m] = After(f[m - 1], t[m].ev)
           T == {n \in Nat : \E f : DoneTo(f, n)}
           body(f) == [n \in 0..L |-> IF n = 0 THEN NewRun ELSE After(f[n - 1], t[n].ev)]
           upTo == CHOOSE f : f = body(f)
<1>1. 0 \in T
  <2> DEFINE f == [m \in 0..0 |-> NewRun]
  <2>1. DoneTo(f, 0)
    OBVIOUS
  <2> QED
    BY <2>1
<1>2. ASSUME NEW n \in Nat, n \in T
      PROVE  n + 1 \in T
  <2>1. PICK f : DoneTo(f, n)
    BY <1>2
  <2> DEFINE h == [m \in 0..(n + 1) |-> IF m = n + 1 THEN After(f[n], t[n + 1].ev) ELSE f[m]]
  <2>2. h[0] = NewRun /\ h = [m \in 0..(n + 1) |-> h[m]]
    BY <2>1
  <2>3. \A m \in 0..n : h[m] = f[m]
    OBVIOUS
  <2>4. ASSUME NEW m \in 0..(n + 1), m # 0
        PROVE  h[m] = After(h[m - 1], t[m].ev)
    <3>1. m - 1 \in 0..n
      BY <2>4
    <3>2. h[m - 1] = f[m - 1]
      BY <2>3, <3>1
    <3>3. CASE m = n + 1
      <4>1. h[m] = After(f[n], t[m].ev) /\ m - 1 = n
        BY <3>3
      <4> QED
        BY <3>2, <4>1
    <3>4. CASE m # n + 1
      <4>1. m \in 0..n
        BY <2>4, <3>4
      <4>2. f[m] = After(f[m - 1], t[m].ev)
        BY <2>1, <2>4, <4>1
      <4> QED
        BY <2>3, <3>2, <4>1, <4>2
    <3> QED
      BY <3>3, <3>4
  <2> HIDE DEF h
  <2>5. DoneTo(h, n + 1)
    BY <2>2, <2>4
  <2> HIDE DEF DoneTo
  <2> QED
    BY <2>5
<1>3. \A n \in Nat : n \in T
  <2> HIDE DEF T
  <2> QED
    BY <1>1, <1>2, Counting
<1>4. PICK f : DoneTo(f, L)
  BY <1>3
<1>5. f = body(f)
  <2>1. ASSUME NEW m \in 0..L
        PROVE  f[m] = IF m = 0 THEN NewRun ELSE After(f[m - 1], t[m].ev)
    BY <1>4
  <2>2. f = [m \in 0..L |-> f[m]]
    BY <1>4
  <2> QED
    BY <2>1, <2>2
<1>6. upTo = body(upTo)
  <2> HIDE DEF body
  <2> QED
    BY <1>5
<1>7. Replay(t) = upTo
  BY <1>0 DEF Replay
<1> HIDE DEF upTo
<1>8. \A m \in 0..L : upTo[m] = IF m = 0 THEN NewRun ELSE After(upTo[m - 1], t[m].ev)
  BY <1>6
<1>9. upTo[0] = NewRun
  BY <1>8
<1>10. ASSUME NEW n \in Nat, n + 1 <= L
       PROVE  upTo[n + 1] = After(upTo[n], t[n + 1].ev)
  <2>1. n + 1 \in 0..L /\ n + 1 # 0 /\ (n + 1) - 1 = n
    BY <1>10
  <2> QED
    BY <1>8, <2>1
<1> QED
  BY <1>0, <1>7, <1>9, <1>10

\* A line more at the end replays to the run after one event more.
LEMMA ReplayAppend ==
    ASSUME NEW t \in Seq(NoteRec), NEW x \in NoteRec, Len(t) < MaxEvents
    PROVE  Replay(Append(t, x))[Len(t) + 1] = After(Replay(t)[Len(t)], x.ev)
<1>1. PICK L \in Nat : L = Len(t)
  OBVIOUS
<1>2. PICK u : u = Append(t, x)
  OBVIOUS
<1>3. u[L + 1] = x /\ \A n \in 1..L : u[n] = t[n]
  BY <1>1, <1>2
<1>4. PICK M \in Nat : M = MaxEvents
  BY RunViewAssumption
<1> DEFINE T == {n \in Nat : n <= L => Replay(u)[n] = Replay(t)[n]}
<1>5. 0 \in T
  BY ReplaySteps
<1>6. ASSUME NEW n \in Nat, n \in T
      PROVE  n + 1 \in T
  <2> SUFFICES ASSUME n + 1 <= L PROVE Replay(u)[n + 1] = Replay(t)[n + 1]
    OBVIOUS
  <2>1. n <= L /\ n + 1 \in 1..L /\ n + 1 <= M
    BY <1>1, <1>4
  <2>2. Replay(u)[n + 1] = After(Replay(u)[n], u[n + 1].ev)
    BY <1>4, <2>1, ReplaySteps
  <2>3. Replay(t)[n + 1] = After(Replay(t)[n], t[n + 1].ev)
    BY <1>4, <2>1, ReplaySteps
  <2> QED
    BY <1>3, <1>6, <2>1, <2>2, <2>3
<1>7. L \in T
  <2>1. \A n \in Nat : n \in T
    <3> HIDE DEF T
    <3> QED
      BY <1>5, <1>6, Counting
  <2> QED
    BY <2>1
<1>8. L + 1 <= M
  BY <1>1, <1>4
<1>9. Replay(u)[L + 1] = After(Replay(u)[L], u[L + 1].ev)
  BY <1>4, <1>8, ReplaySteps
<1> QED
  BY <1>1, <1>2, <1>3, <1>7, <1>9
(* The view of a run *)

-----------------------------------------------------------------------------
(* The invariant: the run is whole and its rows are numbered apart; the    *)
(* tape has every event under its number; the notes are the last notable   *)
(* ones on it; the view has read up to rowSeq and decSeq, and all of it    *)
(* once progress said the run was finished; and the run is what its tape   *)
(* replays to.                                                             *)

ViewTypes ==
    /\ hook \in BOOLEAN /\ owed \subseteq Workers \cup {Main}
    /\ tape \in Seq(NoteRec) /\ history \in Seq(NoteRec)
    /\ pipe \in BOOLEAN /\ gone \in BOOLEAN /\ missed \in BOOLEAN
    /\ vpc \in {"idle", "drain", "progress", "rows", "decisions", "publish",
                "finished", "closing", "closed"}
    /\ prog.finished \in BOOLEAN
    /\ shown = [k \in DOMAIN shown |-> shown[k]] /\ rowSeq \in Nat /\ decSeq \in Nat

\* The tape has every event, under the number it was given.
Taped ==
    /\ \A e \in Elements(tape) : e.seq <= Len(tape)
    /\ Len(tape) <= run.seq /\ Len(tape) <= MaxEvents
    /\ ~run.closed => Len(tape) = run.seq
    /\ rowSeq <= run.seq /\ decSeq <= run.seq
    /\ run.rejections = Cardinality({i \in DOMAIN tape : tape[i].ev.kind = "auth-reject"})

\* The notes are the last of the notable events, and those not read yet are
\* all there unless a burst outran the bound.
Noted ==
    /\ MaxNotes > 0 => Len(run.notes) <= MaxNotes
    /\ Ascending(run.notes)
    /\ Elements(run.notes) \subseteq {e \in Elements(tape) : Notable(e.ev)}
    /\ ~missed => \A e \in Elements(tape) :
         Notable(e.ev) /\ e.seq > decSeq => e \in Elements(run.notes)

Recalled ==
    ~missed =>
        /\ Ascending(history)
        /\ Elements(history) = {e \in Elements(tape) : Notable(e.ev) /\ e.seq <= decSeq}

\* Once progress said the run is finished, what is read after it is all there
\* will be.
Pulled ==
    /\ run.closed => InFlight(run) = {}
    /\ prog.finished => run.closed /\ prog.counts = Counts(run.rows)
    /\ prog.finished /\ vpc \in {"decisions", "publish", "finished"} => rowSeq = run.seq
    /\ prog.finished /\ vpc \in {"publish", "finished"} => decSeq = run.seq
    /\ vpc = "finished" => prog.finished

\* The run is what its tape replays to, ended when it is.
Retold ==
    LET again == Replay(tape)[Len(tape)]
    IN  /\ ~run.closed => run = again
        /\ run.closed => \E order \in Orders(InFlight(again)) : run = Ended(again, order)
        /\ WholeRun(again)

ViewInv ==
    /\ WholeRun(run) /\ Numbered(run) /\ ViewTypes /\ Taped /\ Noted /\ Recalled
    /\ ShownIsExact /\ Pulled /\ Retold /\ NoWakeAfterClose

\* The fields of a note.
LEMMA NumberedNotes ==
    ASSUME NEW q \in Seq(NoteRec)
    PROVE  \A e \in Elements(q) : e \in NoteRec /\ e.seq \in Nat
<1>1. \A i \in DOMAIN q : q[i] \in NoteRec
  OBVIOUS
<1> QED
  BY <1>1 DEF Elements, NoteRec

\* One line more on the tape.
LEMMA TapeGrows ==
    ASSUME NEW t \in Seq(NoteRec), NEW x \in NoteRec
    PROVE  LET u == Append(t, x)
           IN  /\ u \in Seq(NoteRec) /\ Len(u) = Len(t) + 1 /\ Len(t) \in Nat
               /\ Elements(u) = Elements(t) \cup {x}
               /\ Cardinality({i \in DOMAIN u : u[i].ev.kind = "auth-reject"}) =
                    Cardinality({i \in DOMAIN t : t[i].ev.kind = "auth-reject"})
                      + (IF x.ev.kind = "auth-reject" THEN 1 ELSE 0)
               /\ Cardinality({i \in DOMAIN t : t[i].ev.kind = "auth-reject"}) \in Nat
<1>1. PICK u : u = Append(t, x)
  OBVIOUS
<1>2. PICK L \in Nat : L = Len(t) /\ DOMAIN t = 1..L
  OBVIOUS
<1>3. /\ u \in Seq(NoteRec) /\ Len(u) = L + 1 /\ DOMAIN u = DOMAIN t \cup {L + 1}
      /\ L + 1 \notin DOMAIN t /\ u[L + 1] = x /\ \A i \in DOMAIN t : u[i] = t[i]
  BY <1>1, <1>2
<1>4. Elements(u) = Elements(t) \cup {x}
  BY <1>3 DEF Elements
<1> DEFINE S == {i \in DOMAIN t : t[i].ev.kind = "auth-reject"}
           U == {i \in DOMAIN u : u[i].ev.kind = "auth-reject"}
<1>5. IsFiniteSet(S)
  <2>1. IsFiniteSet(1..L)
    BY FS_Interval
  <2> QED
    BY <1>2, <2>1, FS_Subset
<1>6. U = IF x.ev.kind = "auth-reject" THEN S \cup {L + 1} ELSE S
  BY <1>3
<1>7. L + 1 \notin S
  BY <1>3
<1> HIDE DEF S, U
<1>8. Cardinality(S) \in Nat
  BY <1>5, FS_CardinalityType
<1>9. Cardinality(S \cup {L + 1}) = Cardinality(S) + 1
  BY <1>5, <1>7, FS_AddElement
<1>10. Cardinality(U) = Cardinality(S) + (IF x.ev.kind = "auth-reject" THEN 1 ELSE 0)
  BY <1>6, <1>8, <1>9
<1> QED
  BY <1>1, <1>2, <1>3, <1>4, <1>8, <1>10 DEF S, U

-----------------------------------------------------------------------------
(* Each step keeps it.                                                     *)

\* Run.Handle.
LEMMA HandleStep ==
    ASSUME ViewInv, NEW w \in Workers, NEW ev \in Events, Handle(w, ev)
    PROVE  ViewInv'
<1> USE DEF ViewInv
<1>1. /\ ~run.closed /\ run' = After(run, ev) /\ missed' = (missed \/ (Notable(ev) /\ Dropped(run)))
      /\ tape' = Append(tape, Note(ev, run.seq + 1)) /\ Len(tape) < MaxEvents
      /\ owed' = IF hook THEN owed \cup {w} ELSE owed
      /\ UNCHANGED <<hook, pipe, gone, vpc, prog, shown, rowSeq, decSeq, history>>
  BY DEF Handle, viewVars
<1>2. ev \in Event
  BY RunViewAssumption
<1>3. PICK s \in Nat : s = run.seq
  BY DEF WholeRun
<1>4. PICK r2 : r2 = After(run, ev)
  OBVIOUS
<1>5. /\ WholeRun(r2) /\ Numbered(r2) /\ r2.seq = s + 1 /\ r2.closed = FALSE
      /\ r2.notes = NotesAfter(run.notes, ev, s + 1)
      /\ r2.rejections = RejectionsAfter(run, ev)
      /\ DOMAIN run.rows \subseteq DOMAIN r2.rows
      /\ \A k \in DOMAIN r2.rows : r2.rows[k].seq <= s =>
           k \in DOMAIN run.rows /\ r2.rows[k] = run.rows[k]
  BY <1>1, <1>2, <1>3, <1>4, AfterIs
<1>6. run' = r2
  BY <1>1, <1>4
<1>7. PICK x \in NoteRec : x = Note(ev, s + 1) /\ x.seq = s + 1 /\ x.ev = ev
  <2>1. s + 1 \in Nat
    BY SumNat
  <2>2. Note(ev, s + 1) \in NoteRec
    BY <1>2, <2>1 DEF Note, NoteRec
  <2>3. Note(ev, s + 1).seq = s + 1 /\ Note(ev, s + 1).ev = ev
    BY DEF Note
  <2> QED
    BY <2>2, <2>3
<1>8. tape \in Seq(NoteRec) /\ tape' = Append(tape, x)
  BY <1>1, <1>3, <1>7 DEF ViewTypes
<1>9. /\ tape' \in Seq(NoteRec) /\ Len(tape') = Len(tape) + 1 /\ Len(tape) \in Nat
      /\ Elements(tape)' = Elements(tape) \cup {x}
      /\ Cardinality({i \in DOMAIN tape' : tape'[i].ev.kind = "auth-reject"}) =
           Cardinality({i \in DOMAIN tape : tape[i].ev.kind = "auth-reject"})
             + (IF ev.kind = "auth-reject" THEN 1 ELSE 0)
  BY <1>7, <1>8, TapeGrows DEF Elements
<1>10. Len(tape) = s
  BY <1>1, <1>3 DEF Taped
<1>11. ViewTypes'
  BY <1>1, <1>9 DEF ViewTypes
<1>12. Taped'
  <2>1. \A e \in Elements(tape) : e.seq <= s
    BY <1>10 DEF Taped
  <2>2. \A e \in Elements(tape)' : e.seq <= s + 1
    <3>1. \A e \in Elements(tape) : e.seq \in Nat
      BY <1>8, NumberedNotes
    <3>2. \A n \in Nat : n <= s => n <= s + 1
      OBVIOUS
    <3>3. s + 1 <= s + 1
      OBVIOUS
    <3> QED
      BY <1>7, <1>9, <2>1, <3>1, <3>2, <3>3
  <2>3. Len(tape') = s + 1 /\ run'.seq = s + 1 /\ s + 1 <= s + 1
    BY <1>5, <1>6, <1>9, <1>10
  <2>4. s + 1 <= MaxEvents
    <3>1. MaxEvents \in Nat /\ s < MaxEvents
      BY <1>1, <1>10, RunViewAssumption
    <3> QED
      BY <3>1
  <2>5. rowSeq <= s + 1 /\ decSeq <= s + 1
    <3>1. rowSeq <= s /\ decSeq <= s /\ rowSeq \in Nat /\ decSeq \in Nat
      BY <1>3 DEF Taped, ViewTypes
    <3> QED
      BY <3>1
  <2>6. run'.rejections = Cardinality({i \in DOMAIN tape' : tape'[i].ev.kind = "auth-reject"})
    BY <1>5, <1>6, <1>9 DEF Taped, RejectionsAfter
  <2> QED
    BY <1>1, <2>2, <2>3, <2>4, <2>5, <2>6 DEF Taped
<1>13. Noted'
  <2>1. run.notes \in Seq(NoteRec) /\ Ascending(run.notes)
        /\ (MaxNotes > 0 => Len(run.notes) <= MaxNotes) /\ s + 1 \in Nat
    BY DEF WholeRun, Noted
  <2>2. \A e \in Elements(run.notes) : e.seq < s + 1
    <3>1. \A e \in Elements(run.notes) : e \in Elements(tape)
      BY DEF Noted
    <3>2. \A e \in Elements(tape) : e.seq <= s /\ e.seq \in Nat
      BY <1>8, <1>10, NumberedNotes DEF Taped
    <3>3. \A n \in Nat : n <= s => n < s + 1
      OBVIOUS
    <3> QED
      BY <3>1, <3>2, <3>3
  <2>3. PICK q2 : q2 = NotesAfter(run.notes, ev, s + 1)
    OBVIOUS
  <2>4. /\ q2 \in Seq(NoteRec) /\ Ascending(q2) /\ (MaxNotes > 0 => Len(q2) <= MaxNotes)
        /\ Elements(q2) \subseteq Elements(run.notes) \cup (IF Notable(ev) THEN {x} ELSE {})
        /\ Notable(ev) => x \in Elements(q2)
        /\ \A d \in Nat :
             ~(Notable(ev) /\ MaxNotes > 0
                 /\ Cardinality({i \in DOMAIN run.notes : run.notes[i].seq > d}) = MaxNotes)
             => \A e \in Elements(run.notes) : e.seq > d => e \in Elements(q2)
    BY <1>2, <1>7, <2>1, <2>2, <2>3, NotesKept
  <2>5. run'.notes = q2
    BY <1>5, <1>6, <2>3
  <2>6. Elements(q2) \subseteq {e \in Elements(tape)' : Notable(e.ev)}
    BY <1>7, <1>9, <2>4 DEF Noted
  <2>7. ASSUME ~missed', NEW e \in Elements(tape)', Notable(e.ev), e.seq > decSeq
        PROVE  e \in Elements(q2)
    <3>1. CASE e = x
      BY <1>7, <2>4, <2>7, <3>1
    <3>2. CASE e # x
      <4>1. e \in Elements(tape) /\ ~missed
        BY <1>1, <1>9, <2>7, <3>2
      <4>2. e \in Elements(run.notes)
        BY <2>7, <4>1 DEF Noted
      <4>3. ~(Notable(ev) /\ Dropped(run)) /\ decSeq \in Nat
        BY <1>1, <2>7 DEF ViewTypes
      <4>4. ~(Notable(ev) /\ MaxNotes > 0
                /\ Cardinality({i \in DOMAIN run.notes : run.notes[i].seq > decSeq}) = MaxNotes)
        BY <4>3 DEF Dropped
      <4> QED
        BY <2>4, <2>7, <4>2, <4>3, <4>4
    <3> QED
      BY <3>1, <3>2
  <2> QED
    BY <1>1, <2>4, <2>5, <2>6, <2>7 DEF Noted
<1>14. Recalled'
  <2> SUFFICES ASSUME ~missed'
               PROVE  /\ Ascending(history)
                      /\ Elements(history) = {e \in Elements(tape)' : Notable(e.ev) /\ e.seq <= decSeq}
    BY <1>1 DEF Recalled, Elements
  <2>1. ~missed
    BY <1>1
  <2>2. ~(x.seq <= decSeq)
    <3>1. decSeq <= s /\ decSeq \in Nat
      BY <1>3 DEF Taped, ViewTypes
    <3>2. ~(s + 1 <= decSeq)
      BY <3>1
    <3> QED
      BY <1>7, <3>2
  <2> QED
    BY <1>9, <2>1, <2>2 DEF Recalled
<1>15. ShownIsExact'
  <2>1. DOMAIN shown \subseteq DOMAIN run.rows
    BY DEF ShownIsExact
  <2>2. \A n : n <= rowSeq /\ n \in Nat => n <= s
    BY <1>3 DEF Taped, ViewTypes
  <2>3. \A k \in DOMAIN r2.rows : r2.rows[k].seq \in Nat
    BY <1>5 DEF WholeRun, Row
  <2>4. \A k \in DOMAIN r2.rows : r2.rows[k].seq <= rowSeq => k \in DOMAIN shown /\ shown[k] = r2.rows[k]
    BY <1>5, <2>2, <2>3 DEF ShownIsExact
  <2>5. DOMAIN shown = {k \in DOMAIN r2.rows : k \in DOMAIN shown}
    BY <1>5, <2>1
  <2> QED
    BY <1>1, <1>6, <2>4, <2>5 DEF ShownIsExact
<1>16. Pulled'
  <2>1. ~prog.finished /\ vpc # "finished"
    BY <1>1 DEF Pulled
  <2> QED
    BY <1>1, <1>5, <1>6, <2>1 DEF Pulled
<1>17. Retold'
  <2>1. run = Replay(tape)[Len(tape)]
    BY <1>1 DEF Retold
  <2>2. Replay(Append(tape, x))[Len(tape) + 1] = After(run, ev)
    BY <1>1, <1>7, <1>8, <2>1, ReplayAppend
  <2>3. Replay(tape')[Len(tape')] = r2
    BY <1>4, <1>8, <1>9, <2>2
  <2>4. run'.closed = FALSE
    BY <1>5, <1>6
  <2> QED
    BY <1>5, <1>6, <2>3, <2>4 DEF Retold
<1>18. NoWakeAfterClose'
  BY <1>1 DEF NoWakeAfterClose
<1> QED
  BY <1>5, <1>6, <1>11, <1>12, <1>13, <1>14, <1>15, <1>16, <1>17, <1>18

\* Run.Finish: no row that was read changes, unless it gets a new number.
LEMMA FinishStep == ASSUME ViewInv, Finish PROVE ViewInv'
<1> USE DEF ViewInv
<1>1. PICK order \in Orders(InFlight(run)) : run' = Ended(run, order)
  BY DEF Finish
<1>2. /\ ~run.closed /\ owed' = IF hook THEN {Main} ELSE {}
      /\ UNCHANGED <<hook, tape, missed, pipe, gone, vpc, prog, shown, rowSeq, decSeq, history>>
  BY DEF Finish, viewVars
<1>3. PICK r2 : r2 = run'
  OBVIOUS
<1>4. PICK s \in Nat : s = run.seq
  BY DEF WholeRun
<1>5. /\ WholeRun(r2) /\ Numbered(r2) /\ InFlight(r2) = {} /\ r2.closed
      /\ r2.seq \in Nat /\ s <= r2.seq
      /\ r2.notes = run.notes /\ r2.rejections = run.rejections
      /\ DOMAIN r2.rows = DOMAIN run.rows
      /\ \A k \in DOMAIN r2.rows : r2.rows[k].seq <= s => r2.rows[k] = run.rows[k]
  BY <1>1, <1>3, <1>4, EndedIs
<1>6. ViewTypes'
  BY <1>2 DEF ViewTypes
<1>7. Taped'
  <2>1. rowSeq <= s /\ decSeq <= s /\ Len(tape) <= s
    BY <1>4 DEF Taped
  <2>2. rowSeq \in Nat /\ decSeq \in Nat /\ Len(tape) \in Nat
    BY DEF ViewTypes
  <2>3. rowSeq <= r2.seq /\ decSeq <= r2.seq /\ Len(tape) <= r2.seq
    BY <1>5, <2>1, <2>2
  <2>4. Elements(tape)' = Elements(tape)
    BY <1>2 DEF Elements
  <2> QED
    BY <1>2, <1>3, <1>5, <2>3, <2>4 DEF Taped
<1>8. Noted'
  BY <1>2, <1>3, <1>5 DEF Noted, Elements
<1>9. Recalled'
  BY <1>2 DEF Recalled, Elements, Ascending
<1>10. ShownIsExact'
  <2>1. \A n : n <= rowSeq /\ n \in Nat => n <= s
    BY <1>4 DEF Taped, ViewTypes
  <2>2. \A k \in DOMAIN r2.rows : r2.rows[k].seq \in Nat
    BY <1>5 DEF WholeRun, Row
  <2>3. \A k \in DOMAIN r2.rows : r2.rows[k].seq <= rowSeq => k \in DOMAIN shown /\ shown[k] = r2.rows[k]
    BY <1>5, <2>1, <2>2 DEF ShownIsExact
  <2>4. DOMAIN shown = {k \in DOMAIN r2.rows : k \in DOMAIN shown}
    BY <1>5 DEF ShownIsExact
  <2> QED
    BY <1>2, <1>3, <2>3, <2>4 DEF ShownIsExact
<1>11. Pulled'
  <2>1. ~prog.finished /\ vpc # "finished"
    BY <1>2 DEF Pulled
  <2> QED
    BY <1>2, <1>3, <1>5, <2>1 DEF Pulled
<1>12. Retold'
  <2>1. PICK again : again = Replay(tape)[Len(tape)]
    OBVIOUS
  <2>2. run = again /\ WholeRun(again)
    BY <1>2, <2>1 DEF Retold
  <2>3. again = Replay(tape')[Len(tape')]
    BY <1>2, <2>1
  <2>4. r2 = Ended(again, order) /\ order \in Orders(InFlight(again))
    BY <1>1, <1>3, <2>2
  <2> QED
    BY <1>3, <1>5, <2>2, <2>3, <2>4 DEF Retold
<1>13. NoWakeAfterClose'
  BY <1>2 DEF NoWakeAfterClose
<1> QED
  BY <1>3, <1>5, <1>6, <1>7, <1>8, <1>9, <1>10, <1>11, <1>12, <1>13

\* Steps that leave the run alone, its tape and what was read of them.
LEMMA QuietViewStep ==
    ASSUME ViewInv, UNCHANGED <<run, tape, missed, viewVars>>,
           hook' \in BOOLEAN, owed' \subseteq Workers \cup {Main}, pipe' \in BOOLEAN, gone' \in BOOLEAN,
           gone' => ~pipe',
           \/ vpc' = vpc
           \/ vpc' \in {"idle", "drain", "progress", "closing", "closed"}
           \/ vpc' = "finished" /\ vpc = "publish" /\ prog.finished
    PROVE  ViewInv'
<1> USE DEF ViewInv, viewVars
<1>1. WholeRun(run)' /\ Numbered(run)'
  BY DEF WholeRun, Numbered
<1>2. ViewTypes'
  BY DEF ViewTypes
<1>3. Taped' /\ Noted' /\ Recalled'
  BY DEF Taped, Noted, Recalled, Elements, Ascending
<1>4. ShownIsExact'
  BY DEF ShownIsExact
<1>5. Pulled'
  BY DEF Pulled
<1>6. Retold'
  BY DEF Retold
<1>7. NoWakeAfterClose'
  BY DEF NoWakeAfterClose
<1> QED
  BY <1>1, <1>2, <1>3, <1>4, <1>5, <1>6, <1>7

\* Steps that read, and what they leave alone.
LEMMA ReadingKeeps ==
    ASSUME ViewInv, UNCHANGED <<runVars, pipe, gone>>
    PROVE  /\ WholeRun(run)' /\ Numbered(run)' /\ Retold' /\ NoWakeAfterClose'
           /\ Elements(tape)' = Elements(tape)
<1> USE DEF ViewInv, runVars
<1>1. WholeRun(run)' /\ Numbered(run)'
  BY DEF WholeRun, Numbered
<1>2. Retold'
  BY DEF Retold
<1>3. NoWakeAfterClose' /\ Elements(tape)' = Elements(tape)
  BY DEF NoWakeAfterClose, Elements
<1> QED
  BY <1>1, <1>2, <1>3

\* The view reads progress: a run that has closed changes no more.
LEMMA ReadProgressStep == ASSUME ViewInv, ReadProgress PROVE ViewInv'
<1> USE DEF ViewInv
<1>1. /\ prog' = [finished |-> run.closed, counts |-> Counts(run.rows)] /\ vpc' = "rows"
      /\ UNCHANGED <<run, hook, owed, tape, missed, pipe, gone, shown, rowSeq, decSeq, history>>
  BY DEF ReadProgress, runVars
<1>2. WholeRun(run)' /\ Numbered(run)' /\ Retold' /\ NoWakeAfterClose'
  BY <1>1, ReadingKeeps DEF runVars
<1>3. run.closed \in BOOLEAN
  BY DEF WholeRun
<1>4. ViewTypes'
  BY <1>1, <1>3 DEF ViewTypes
<1>5. Taped' /\ Noted' /\ Recalled'
  BY <1>1 DEF Taped, Noted, Recalled, Elements, Ascending
<1>6. ShownIsExact'
  BY <1>1 DEF ShownIsExact
<1>7. Pulled'
  BY <1>1 DEF Pulled
<1> QED
  BY <1>2, <1>4, <1>5, <1>6, <1>7

\* The view reads rows: each is then as the run has it.
LEMMA ReadRowsStep == ASSUME ViewInv, ReadRows PROVE ViewInv'
<1> USE DEF ViewInv
<1>1. PICK new : new = RowsSince(run, rowSeq)
  OBVIOUS
<1>2. /\ shown' = [k \in DOMAIN shown \cup DOMAIN new |-> IF k \in DOMAIN new THEN new[k] ELSE shown[k]]
      /\ rowSeq' = run.seq /\ vpc' = "decisions"
      /\ UNCHANGED <<run, hook, owed, tape, missed, pipe, gone, prog, decSeq, history>>
  BY <1>1 DEF ReadRows, runVars
<1>3. WholeRun(run)' /\ Numbered(run)' /\ Retold' /\ NoWakeAfterClose'
  BY <1>2, ReadingKeeps DEF runVars
<1>4. PICK s \in Nat : s = run.seq
  BY DEF WholeRun
<1>5. DOMAIN new = {k \in DOMAIN run.rows : run.rows[k].seq > rowSeq}
      /\ \A k \in DOMAIN new : new[k] = run.rows[k]
  BY <1>1 DEF RowsSince
<1>6. ASSUME NEW k \in DOMAIN run.rows
      PROVE  k \in DOMAIN shown' /\ shown'[k] = run.rows[k]
  <2>1. CASE k \in DOMAIN new
    BY <1>2, <1>5, <2>1
  <2>2. CASE k \notin DOMAIN new
    <3>1. run.rows[k].seq \in Nat /\ rowSeq \in Nat
      BY DEF WholeRun, Row, ViewTypes
    <3>2. ~(run.rows[k].seq > rowSeq)
      BY <1>5, <2>2
    <3>3. run.rows[k].seq <= rowSeq
      BY <3>1, <3>2
    <3> QED
      BY <1>2, <2>2, <3>3 DEF ShownIsExact
  <2> QED
    BY <2>1, <2>2
<1>7. DOMAIN shown' \subseteq DOMAIN run.rows
  BY <1>2, <1>5 DEF ShownIsExact
<1>8. ShownIsExact'
  BY <1>2, <1>6, <1>7 DEF ShownIsExact
<1>9. ViewTypes'
  BY <1>2, <1>4 DEF ViewTypes
<1>10. Taped'
  <2>1. run.seq <= run.seq
    BY <1>4
  <2> QED
    BY <1>2, <2>1 DEF Taped, Elements
<1>11. Noted'
  <2>1. UNCHANGED <<run, tape, missed, decSeq>>
    BY <1>2
  <2> QED
    BY <2>1 DEF Noted, Elements, Ascending
<1>12. Recalled'
  BY <1>2 DEF Recalled, Elements, Ascending
<1>13. Pulled'
  BY <1>2 DEF Pulled
<1> QED
  BY <1>3, <1>8, <1>9, <1>10, <1>11, <1>12, <1>13

\* The view reads decisions: those on the tape since it last did.
LEMMA ReadDecisionsStep == ASSUME ViewInv, ReadDecisions PROVE ViewInv'
<1> USE DEF ViewInv
<1>1. PICK d : d = DecisionsSince(run, decSeq)
  OBVIOUS
<1>2. /\ vpc = "decisions" /\ history' = history \o d /\ decSeq' = run.seq /\ vpc' = "publish"
      /\ UNCHANGED <<run, hook, owed, tape, missed, pipe, gone, prog, shown, rowSeq>>
  BY <1>1 DEF ReadDecisions, runVars
<1>3. WholeRun(run)' /\ Numbered(run)' /\ Retold' /\ NoWakeAfterClose' /\ Elements(tape)' = Elements(tape)
  BY <1>2, ReadingKeeps DEF runVars
<1>4. PICK s \in Nat : s = run.seq
  BY DEF WholeRun
<1>5. d \in Seq(NoteRec) /\ Ascending(d) /\ Elements(d) = {e \in Elements(run.notes) : e.seq > decSeq}
  <2>1. run.notes \in Seq(NoteRec) /\ Ascending(run.notes) /\ decSeq \in Nat
    BY DEF WholeRun, Noted, ViewTypes
  <2> QED
    BY <1>1, <2>1, SinceIs
<1>6. history \in Seq(NoteRec) /\ history' \in Seq(NoteRec)
  BY <1>2, <1>5 DEF ViewTypes
<1>7. ViewTypes'
  BY <1>2, <1>4, <1>6 DEF ViewTypes
<1>8. Taped'
  <2>1. run.seq <= run.seq
    BY <1>4
  <2> QED
    BY <1>2, <1>3, <2>1 DEF Taped
<1>9. ASSUME NEW e \in Elements(tape)
      PROVE  e.seq \in Nat /\ e.seq <= s /\ (e.seq > decSeq \/ e.seq <= decSeq)
  <2>1. e.seq \in Nat /\ decSeq \in Nat /\ Len(tape) \in Nat
    BY NumberedNotes DEF ViewTypes
  <2>2. e.seq <= Len(tape) /\ Len(tape) <= s
    BY <1>4 DEF Taped
  <2> QED
    BY <2>1, <2>2
<1>10. Noted'
  <2>1. \A e \in Elements(tape) : ~(e.seq > s)
    BY <1>9
  <2>2. Ascending(run.notes)' /\ Elements(run.notes)' = Elements(run.notes)
    BY <1>2 DEF Noted, Ascending, Elements
  <2> QED
    BY <1>2, <1>3, <1>4, <2>1, <2>2 DEF Noted
<1>11. Recalled'
  <2> SUFFICES ASSUME ~missed
               PROVE  /\ Ascending(history')
                      /\ Elements(history') = {e \in Elements(tape) : Notable(e.ev) /\ e.seq <= s}
    BY <1>2, <1>3, <1>4 DEF Recalled, Ascending, Elements
  <2>1. Ascending(history)
        /\ Elements(history) = {e \in Elements(tape) : Notable(e.ev) /\ e.seq <= decSeq}
    BY DEF Recalled
  <2>2. Elements(d) = {e \in Elements(tape) : Notable(e.ev) /\ e.seq > decSeq}
    BY <1>5 DEF Noted
  <2>3. \A e \in Elements(history), f \in Elements(d) : e.seq < f.seq
    <3>1. \A m, n \in Nat : m <= decSeq /\ n > decSeq => m < n
      BY DEF ViewTypes
    <3> QED
      BY <1>9, <2>1, <2>2, <3>1
  <2>4. /\ Ascending(history \o d)
        /\ Elements(history \o d) = Elements(history) \cup Elements(d)
    BY <1>5, <1>6, <2>1, <2>3, CatAscends
  <2>5. Elements(history) \cup Elements(d) = {e \in Elements(tape) : Notable(e.ev) /\ e.seq <= s}
    <3>1. decSeq <= s /\ decSeq \in Nat
      BY <1>4 DEF Taped, ViewTypes
    <3> QED
      BY <1>9, <2>1, <2>2, <3>1
  <2> QED
    BY <1>2, <2>4, <2>5
<1>12. ShownIsExact'
  BY <1>2 DEF ShownIsExact
<1>13. Pulled'
  BY <1>2 DEF Pulled
<1> QED
  BY <1>3, <1>7, <1>8, <1>10, <1>11, <1>12, <1>13

\* Every step keeps the invariant.
LEMMA NextViewInv == ViewInv /\ [Next]_vars => ViewInv'
<1> SUFFICES ASSUME ViewInv, [Next]_vars PROVE ViewInv'
  OBVIOUS
<1>1. ASSUME NEW w \in Workers, NEW ev \in Events, Handle(w, ev) PROVE ViewInv'
  BY <1>1, HandleStep
<1>2. CASE Finish
  BY <1>2, FinishStep
<1>3. CASE ReadProgress \/ ReadRows \/ ReadDecisions
  BY <1>3, ReadProgressStep, ReadRowsStep, ReadDecisionsStep
<1>4. hook \in BOOLEAN /\ owed \subseteq Workers \cup {Main} /\ pipe \in BOOLEAN /\ gone \in BOOLEAN
      /\ (gone => ~pipe)
  BY DEF ViewInv, ViewTypes, NoWakeAfterClose
<1>5. ASSUME NEW w \in Workers \cup {Main}, Poke(w) PROVE ViewInv'
  BY <1>4, <1>5, QuietViewStep DEF Poke
<1>6. CASE Wake \/ Tick \/ Drain
  <2>1. UNCHANGED <<run, tape, missed, viewVars>>
    BY <1>6 DEF Wake, Tick, Drain, runVars
  <2>2. hook' = hook /\ owed' = owed /\ gone' = gone /\ (pipe' = pipe \/ pipe' = FALSE)
    BY <1>6 DEF Wake, Tick, Drain, runVars
  <2>3. vpc' \in {"idle", "drain", "progress", "closing", "closed"}
        \/ (vpc' = "finished" /\ vpc = "publish" /\ prog.finished)
    BY <1>6 DEF Wake, Tick, Drain
  <2>4. /\ hook' \in BOOLEAN /\ owed' \subseteq Workers \cup {Main}
        /\ pipe' \in BOOLEAN /\ gone' \in BOOLEAN /\ (gone' => ~pipe')
    <3>1. hook' \in BOOLEAN /\ owed' \subseteq Workers \cup {Main}
      BY <1>4, <2>2
    <3>2. pipe' \in BOOLEAN
      BY <1>4, <2>2
    <3>3. gone' \in BOOLEAN
      BY <1>4, <2>2
    <3>4. gone' => ~pipe'
      BY <1>4, <2>2
    <3> QED
      BY <3>1, <3>2, <3>3, <3>4
  <2> QED
    BY <2>1, <2>3, <2>4, QuietViewStep
<1>7. CASE Publish
  <2>1. UNCHANGED <<run, tape, missed, viewVars>>
    BY <1>7 DEF Publish, runVars
  <2>2. hook' = hook /\ owed' = owed /\ gone' = gone /\ pipe' = pipe
    BY <1>7 DEF Publish, runVars
  <2>3. vpc' \in {"idle", "drain", "progress", "closing", "closed"}
        \/ (vpc' = "finished" /\ vpc = "publish" /\ prog.finished)
    BY <1>7 DEF Publish
  <2>4. /\ hook' \in BOOLEAN /\ owed' \subseteq Workers \cup {Main}
        /\ pipe' \in BOOLEAN /\ gone' \in BOOLEAN /\ (gone' => ~pipe')
    <3>1. hook' \in BOOLEAN /\ owed' \subseteq Workers \cup {Main}
      BY <1>4, <2>2
    <3>2. pipe' \in BOOLEAN
      BY <1>4, <2>2
    <3>3. gone' \in BOOLEAN
      BY <1>4, <2>2
    <3>4. gone' => ~pipe'
      BY <1>4, <2>2
    <3> QED
      BY <3>1, <3>2, <3>3, <3>4
  <2> QED
    BY <2>1, <2>3, <2>4, QuietViewStep
<1>8. CASE Unhook \/ CloseNotifier
  <2>1. UNCHANGED <<run, tape, missed, viewVars>>
    BY <1>8 DEF Unhook, CloseNotifier, runVars
  <2>2. /\ (hook' = hook \/ hook' = FALSE) /\ owed' = owed
        /\ (pipe' = pipe /\ gone' = gone) \/ (pipe' = FALSE /\ gone' = TRUE)
    BY <1>8 DEF Unhook, CloseNotifier, runVars
  <2>3. vpc' \in {"idle", "drain", "progress", "closing", "closed"}
        \/ (vpc' = "finished" /\ vpc = "publish" /\ prog.finished)
    BY <1>8 DEF Unhook, CloseNotifier
  <2>4. /\ hook' \in BOOLEAN /\ owed' \subseteq Workers \cup {Main}
        /\ pipe' \in BOOLEAN /\ gone' \in BOOLEAN /\ (gone' => ~pipe')
    <3>1. hook' \in BOOLEAN /\ owed' \subseteq Workers \cup {Main}
      BY <1>4, <2>2
    <3>2. pipe' \in BOOLEAN
      BY <1>4, <2>2
    <3>3. gone' \in BOOLEAN
      BY <1>4, <2>2
    <3>4. gone' => ~pipe'
      BY <1>4, <2>2
    <3> QED
      BY <3>1, <3>2, <3>3, <3>4
  <2> QED
    BY <2>1, <2>3, <2>4, QuietViewStep
<1>9. CASE Quiet \/ UNCHANGED vars
  BY <1>4, <1>9, QuietViewStep DEF Quiet, vars, viewVars
<1> QED
  BY <1>1, <1>2, <1>3, <1>5, <1>6, <1>7, <1>8, <1>9 DEF Next, Pull

\* The view is opened with the run.
LEMMA InitViewInv == Init => ViewInv
<1> SUFFICES ASSUME Init PROVE ViewInv
  OBVIOUS
<1>1. /\ run = NewRun /\ tape = <<>> /\ history = <<>> /\ shown = NewRun.rows /\ ~missed
      /\ rowSeq = 0 /\ decSeq = 0 /\ vpc = "drain" /\ ~prog.finished /\ ~gone /\ ~pipe /\ owed = {}
      /\ hook = TRUE /\ pipe = FALSE /\ gone = FALSE /\ missed = FALSE /\ prog.finished = FALSE
  BY DEF Init
<1>2. NewRun.rows = [k \in {} |-> NewRow] /\ NewRun.seq = 0 /\ NewRun.notes = <<>> /\ ~NewRun.closed
      /\ NewRun.rejections = 0
  BY DEF NewRun
<1>3. WholeRun(run) /\ Numbered(run) /\ InFlight(run) = {}
  BY <1>1, NewRunIs
<1>4. <<>> \in Seq(NoteRec) /\ Len(<<>>) = 0 /\ DOMAIN <<>> = {}
  OBVIOUS
<1>5. Elements(<<>>) = {} /\ Ascending(<<>>)
  BY <1>4 DEF Elements, Ascending
<1>6. ViewTypes
  BY <1>1, <1>2, <1>4 DEF ViewTypes
<1>7. Taped
  <2>1. {i \in DOMAIN tape : tape[i].ev.kind = "auth-reject"} = {} /\ Cardinality({}) = 0
    BY <1>1, <1>4, FS_EmptySet
  <2>2. PICK M \in Nat : M = MaxEvents
    BY RunViewAssumption
  <2>3. 0 <= 0 /\ 0 <= M
    OBVIOUS
  <2>4. Len(tape) = 0 /\ run.seq = 0 /\ run.rejections = 0 /\ Elements(tape) = {}
    BY <1>1, <1>2, <1>4, <1>5
  <2>5. run.rejections = Cardinality({i \in DOMAIN tape : tape[i].ev.kind = "auth-reject"})
    BY <2>1, <2>4
  <2> QED
    BY <1>1, <2>2, <2>3, <2>4, <2>5 DEF Taped
<1>8. Noted
  <2>1. MaxNotes > 0 => 0 <= MaxNotes
    <3>1. PICK M \in Nat : M = MaxNotes
      BY RunRowsAssumption
    <3>2. 0 <= M
      OBVIOUS
    <3> QED
      BY <3>1, <3>2
  <2> QED
    BY <1>1, <1>2, <1>4, <1>5, <2>1 DEF Noted
<1>9. Recalled
  BY <1>1, <1>5 DEF Recalled
<1>10. ShownIsExact
  BY <1>1, <1>2 DEF ShownIsExact
<1>11. Pulled
  BY <1>1, <1>2, <1>3 DEF Pulled
<1>12. Retold
  BY <1>1, <1>2, <1>4, NewRunIs, ReplaySteps DEF Retold
<1>13. NoWakeAfterClose
  BY <1>1 DEF NoWakeAfterClose
<1> QED
  BY <1>3, <1>6, <1>7, <1>8, <1>9, <1>10, <1>11, <1>12, <1>13 DEF ViewInv

-----------------------------------------------------------------------------
(* What it says of a view.                                                 *)

\* Recounts, in the terms of the invariant.
LEMMA RecountsIs ==
    ASSUME NEW q, NEW s
    PROVE  Recounts(q, s) <=>
              Ascending(q) /\ Elements(q) = {e \in Elements(tape) : Notable(e.ev) /\ e.seq <= s}
<1> DEFINE heard == {tape[i] : i \in {i \in DOMAIN tape : Notable(tape[i].ev) /\ tape[i].seq <= s}}
<1>1. heard = {e \in Elements(tape) : Notable(e.ev) /\ e.seq <= s}
  BY DEF Elements
<1> QED
  BY <1>1 DEF Recounts, Ascending, Elements

\* Two endings of one run differ only in the numbers of its last rows.
LEMMA EndingsAgree ==
    ASSUME NEW r, WholeRun(r), NEW o1 \in Orders(InFlight(r)), NEW o2 \in Orders(InFlight(r))
    PROVE  LET Unstamped(rows) == [k \in DOMAIN rows |-> [rows[k] EXCEPT !.seq = 0]]
           IN  Unstamped(Ended(r, o1).rows) = Unstamped(Ended(r, o2).rows)
<1> DEFINE Unstamped(rows) == [k \in DOMAIN rows |-> [rows[k] EXCEPT !.seq = 0]]
<1>1. ASSUME NEW o
      PROVE  /\ DOMAIN Ended(r, o).rows = DOMAIN r.rows
             /\ \A k \in DOMAIN r.rows : Ended(r, o).rows[k] =
                  IF k \in InFlight(r) THEN RowEnded(r.rows[k], r.seq + o[k]) ELSE r.rows[k]
  BY DEF Ended, WholeRun
<1>2. ASSUME NEW row \in Row, NEW m, NEW n
      PROVE  [RowEnded(row, m) EXCEPT !.seq = 0] = [RowEnded(row, n) EXCEPT !.seq = 0]
  BY DEF RowEnded, Row
<1>3. ASSUME NEW k \in DOMAIN r.rows
      PROVE  [Ended(r, o1).rows[k] EXCEPT !.seq = 0] = [Ended(r, o2).rows[k] EXCEPT !.seq = 0]
  <2>1. r.rows[k] \in Row
    BY DEF WholeRun
  <2>2. CASE k \in InFlight(r)
    BY <1>1, <1>2, <2>1, <2>2
  <2>3. CASE k \notin InFlight(r)
    BY <1>1, <2>3
  <2> QED
    BY <2>2, <2>3
<1> QED
  BY <1>1, <1>3

LEMMA ExactFromViewInv == ViewInv => ViewIsExact
<1> SUFFICES ASSUME ViewInv PROVE ViewIsExact
  OBVIOUS
<1> USE DEF ViewInv
<1>1. TypeOK
  BY DEF ViewTypes, WholeRun, TypeOK, NoteRec, ShownIsExact
<1>2. RowsNumbered
  BY DEF Numbered, RowsNumbered
<1>3. HistoryIsComplete
  BY RecountsIs DEF HistoryIsComplete, Recalled
<1> QED
  BY <1>1, <1>2, <1>3 DEF ViewIsExact

LEMMA FinishedFromViewInv == ViewInv => FinishedIsComplete
<1> SUFFICES ASSUME ViewInv PROVE FinishedIsComplete
  OBVIOUS
<1> USE DEF ViewInv
<1>1. run.rejections = Cardinality({i \in DOMAIN tape : tape[i].ev.kind = "auth-reject"})
  BY DEF Taped
<1>2. ASSUME vpc = "finished"
      PROVE  /\ run.closed /\ InFlight(run) = {} /\ shown = run.rows
             /\ prog.counts = Counts(shown) /\ (~missed => Recounts(history, run.seq))
  <2>1. /\ run.closed /\ InFlight(run) = {} /\ prog.counts = Counts(run.rows)
        /\ rowSeq = run.seq /\ decSeq = run.seq
    BY <1>2 DEF Pulled
  <2>2. \A n \in 1..run.seq : n <= rowSeq
    BY <2>1 DEF WholeRun
  <2>3. \A k \in DOMAIN run.rows : k \in DOMAIN shown /\ shown[k] = run.rows[k]
    BY <2>2 DEF Numbered, ShownIsExact
  <2>4. DOMAIN shown = DOMAIN run.rows
    BY <2>3 DEF ShownIsExact
  <2>5. shown = [k \in DOMAIN shown |-> shown[k]] /\ run.rows = [k \in DOMAIN run.rows |-> run.rows[k]]
    BY DEF ViewTypes, WholeRun
  <2>6. shown = run.rows
    BY <2>3, <2>4, <2>5
  <2>7. ~missed => Recounts(history, run.seq)
    BY <2>1, RecountsIs DEF Recalled
  <2> QED
    BY <2>1, <2>6, <2>7
<1> QED
  BY <1>1, <1>2 DEF FinishedIsComplete

LEMMA ReplayFromViewInv == ViewInv => ReplayRebuilds
<1> SUFFICES ASSUME ViewInv, run.closed PROVE ReplayRebuilds
  BY DEF ReplayRebuilds
<1> DEFINE again == Replayed[Len(tape)]
           order == CHOOSE f \in Orders(InFlight(again)) : TRUE
           Unstamped(rows) == [k \in DOMAIN rows |-> [rows[k] EXCEPT !.seq = 0]]
<1>1. again = Replay(tape)[Len(tape)]
  BY ReplayedIs
<1> HIDE DEF again
<1>2. PICK o \in Orders(InFlight(again)) : run = Ended(again, o)
  BY <1>1 DEF ViewInv, Retold
<1>3. WholeRun(again)
  BY <1>1 DEF ViewInv, Retold
<1>4. order \in Orders(InFlight(again))
  BY <1>2
<1> HIDE DEF order
<1>5. Unstamped(Ended(again, order).rows) = Unstamped(Ended(again, o).rows)
  BY <1>3, <1>4, EndingsAgree
<1>6. Unstamped(Ended(again, order).rows) = Unstamped(run.rows)
  BY <1>2, <1>5
<1> QED
  BY <1>6 DEF ReplayRebuilds, again, order

\* For any keys, texts, workers, events and bound on notes: a view that pulls
\* shows of each row not changed since it read exactly that row, rows are
\* numbered apart, and the decisions shown are the notable events up to where it
\* read, in order, unless a burst outran the bound.
THEOREM RunViewIsExact == Spec => []ViewIsExact
BY InitViewInv, NextViewInv, ExactFromViewInv, PTL DEF Spec

\* A view that believes the run finished shows all its rows, counts that add up to
\* them, and all its decisions; the rejections it reports are those on the tape,
\* however few notes are kept.
THEOREM RunFinishedIsComplete == Spec => []FinishedIsComplete
BY InitViewInv, NextViewInv, FinishedFromViewInv, PTL DEF Spec

\* The recording of a run that has finished replays to the same rows in the same
\* states, in whichever order Finish walked them, and though it recorded nothing.
THEOREM RunReplayRebuilds == Spec => []ReplayRebuilds
BY InitViewInv, NextViewInv, ReplayFromViewInv, PTL DEF Spec

\* A notifier is not woken once it is closed, by any hook captured before.
THEOREM RunNoWakeAfterClose == Spec => []NoWakeAfterClose
<1>1. ViewInv => NoWakeAfterClose
  BY DEF ViewInv
<1> QED
  BY <1>1, InitViewInv, NextViewInv, PTL DEF Spec
=============================================================================
