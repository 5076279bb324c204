------------------------------ MODULE RunView -------------------------------
(***************************************************************************)
(* A run while it is watched: crawl goroutines hand events to a Run        *)
(* (internal/crawlrun), whose change hook wakes a notifier (capi), and the *)
(* window's thread pulls what changed (app/runbridge.cpp).                 *)
(*                                                                         *)
(* Handle and Finish change the run under its lock and call the hook after *)
(* releasing it, so a wake may come late, and even after the view closed   *)
(* the run.  A pull is four calls with the lock released in between: drain *)
(* the notifier, read progress, read rows, read decisions.                 *)
(***************************************************************************)
EXTENDS RunRows

CONSTANTS Workers,    \* goroutines that emit events
          Main,       \* the goroutine that runs the crawl and finishes the run
          Events,     \* events a worker may emit
          MaxEvents   \* bound on the events of a run

ASSUME RunViewAssumption ==
    Events \subseteq Event /\ MaxEvents \in Nat /\ Main \notin Workers

VARIABLES run,      \* the Run
          hook,     \* Run.changed is installed
          owed,     \* goroutines that captured the hook and have yet to call it
          tape,     \* what the run's tap has recorded
          pipe,     \* the notifier is readable
          gone,     \* the notifier is closed
          vpc,      \* where the window's thread is
          prog,     \* the progress it read: finished, and the counts
          shown,    \* the rows it shows
          rowSeq, decSeq,  \* up to where it has read rows and decisions
          history,  \* the decisions it shows
          missed    \* a burst larger than MaxNotes came between two reads

vars == <<run, hook, owed, tape, pipe, gone, vpc, prog, shown, rowSeq, decSeq, history, missed>>

runVars == <<run, hook, owed, tape, missed>>
viewVars == <<prog, shown, rowSeq, decSeq, history>>

Init ==
    /\ run = NewRun /\ hook = TRUE /\ owed = {} /\ tape = <<>>
    /\ pipe = FALSE /\ gone = FALSE
    /\ vpc = "drain"              \* RunBridge.adopt queues the first pull
    /\ prog = [finished |-> FALSE, counts |-> Counts(NewRun.rows)]
    /\ shown = NewRun.rows /\ rowSeq = 0 /\ decSeq = 0 /\ history = <<>>
    /\ missed = FALSE

-----------------------------------------------------------------------------
(* The crawl. *)

\* Decisions not read yet that the bound has dropped.
Dropped(r) == MaxNotes > 0 /\
    Cardinality({i \in DOMAIN r.notes : r.notes[i].seq > decSeq}) = MaxNotes

\* Mutant: only the notable events are recorded.
Handle_TapsNotable(w, ev) ==
    /\ ~run.closed /\ w \notin owed /\ Len(tape) < MaxEvents
    /\ run' = After(run, ev)
    /\ tape' = IF Notable(ev) THEN Append(tape, Note(ev, run.seq + 1)) ELSE tape
    /\ owed' = IF hook THEN owed \cup {w} ELSE owed
    /\ missed' = (missed \/ (Notable(ev) /\ Dropped(run)))
    /\ UNCHANGED <<hook, pipe, gone, vpc, viewVars>>

\* Run.Handle: fold, tap and capture the hook under the lock.
Handle(w, ev) ==
    /\ ~run.closed /\ w \notin owed /\ Len(tape) < MaxEvents
    /\ run' = After(run, ev)
    /\ tape' = Append(tape, Note(ev, run.seq + 1))
    /\ owed' = IF hook THEN owed \cup {w} ELSE owed
    /\ missed' = (missed \/ (Notable(ev) /\ Dropped(run)))
    /\ UNCHANGED <<hook, pipe, gone, vpc, viewVars>>

\* Mutant: the hook is not called for the end.
Finish_Silent ==
    /\ ~run.closed /\ owed = {}
    /\ \E order \in Orders(InFlight(run)) : run' = Ended(run, order)
    /\ UNCHANGED <<owed, hook, tape, missed, pipe, gone, vpc, viewVars>>

\* Run.Finish, once CrawlContext has returned and every worker with it.
Finish ==
    /\ ~run.closed /\ owed = {}
    /\ \E order \in Orders(InFlight(run)) : run' = Ended(run, order)
    /\ owed' = IF hook THEN {Main} ELSE {}
    /\ UNCHANGED <<hook, tape, missed, pipe, gone, vpc, viewVars>>

\* Mutant: the notifier is woken whether or not it is still there.
Poke_Unguarded(w) ==
    /\ w \in owed /\ owed' = owed \ {w}
    /\ pipe' = TRUE
    /\ UNCHANGED <<run, hook, tape, missed, gone, vpc, viewVars>>

\* The captured hook is called: runState.poke, which must not wake a notifier
\* that has been closed.
Poke(w) ==
    /\ w \in owed /\ owed' = owed \ {w}
    /\ pipe' = (pipe \/ ~gone)
    /\ UNCHANGED <<run, hook, tape, missed, gone, vpc, viewVars>>

-----------------------------------------------------------------------------
(* The window's thread. *)

\* The notifier is readable, or half a second has passed; both call pull.
Wake ==
    /\ vpc = "idle" /\ pipe
    /\ vpc' = "drain"
    /\ UNCHANGED <<runVars, pipe, gone, viewVars>>

Tick ==
    /\ vpc = "idle" /\ ~pipe
    /\ vpc' = "drain"
    /\ UNCHANGED <<runVars, pipe, gone, viewVars>>

Drain ==
    /\ vpc = "drain"
    /\ pipe' = FALSE
    /\ vpc' = "progress"
    /\ UNCHANGED <<runVars, gone, viewVars>>

ReadProgress ==
    /\ vpc = "progress"
    /\ prog' = [finished |-> run.closed, counts |-> Counts(run.rows)]
    /\ vpc' = "rows"
    /\ UNCHANGED <<runVars, pipe, gone, shown, rowSeq, decSeq, history>>

ReadRows ==
    /\ vpc = "rows"
    /\ LET new == RowsSince(run, rowSeq)
       IN  shown' = [k \in DOMAIN shown \cup DOMAIN new |->
                        IF k \in DOMAIN new THEN new[k] ELSE shown[k]]
    /\ rowSeq' = run.seq
    /\ vpc' = "decisions"
    /\ UNCHANGED <<runVars, pipe, gone, prog, decSeq, history>>

\* Mutant: decisions are asked for from where the rows were read.
ReadDecisions_FromRows ==
    /\ vpc = "decisions"
    /\ history' = history \o DecisionsSince(run, rowSeq)
    /\ decSeq' = run.seq
    /\ vpc' = "publish"
    /\ UNCHANGED <<runVars, pipe, gone, prog, shown, rowSeq>>

ReadDecisions ==
    /\ vpc = "decisions"
    /\ history' = history \o DecisionsSince(run, decSeq)
    /\ decSeq' = run.seq
    /\ vpc' = "publish"
    /\ UNCHANGED <<runVars, pipe, gone, prog, shown, rowSeq>>

\* Mutant: the view asks again whether the run is finished.
Publish_AsksAgain ==
    /\ vpc = "publish"
    /\ vpc' = IF run.closed THEN "finished" ELSE "idle"
    /\ UNCHANGED <<runVars, pipe, gone, viewVars>>

\* A view that has seen the run finished stops pulling.
Publish ==
    /\ vpc = "publish"
    /\ vpc' = IF prog.finished THEN "finished" ELSE "idle"
    /\ UNCHANGED <<runVars, pipe, gone, viewVars>>

-----------------------------------------------------------------------------
(* omegamaps_close, from the event loop or from a slot that a pull is       *)
(* calling: the hook is removed, then the notifier closed.  It cancels the  *)
(* crawl too, whose last events and end may come at any time after.         *)

Unhook ==
    /\ vpc \in {"idle", "decisions", "publish", "finished"}
    /\ hook' = FALSE
    /\ vpc' = "closing"
    /\ UNCHANGED <<run, owed, tape, missed, pipe, gone, viewVars>>

CloseNotifier ==
    /\ vpc = "closing"
    /\ gone' = TRUE /\ pipe' = FALSE
    /\ vpc' = "closed"
    /\ UNCHANGED <<runVars, viewVars>>

\* Nothing is left to do.
Quiet ==
    /\ run.closed /\ owed = {} /\ vpc \in {"finished", "closed"}
    /\ UNCHANGED vars

Pull == Drain \/ ReadProgress \/ ReadRows \/ ReadDecisions \/ Publish

Next ==
    \/ \E w \in Workers : \E ev \in Events : Handle(w, ev)
    \/ Finish
    \/ \E w \in Workers \cup {Main} : Poke(w)
    \/ Wake \/ Tick \/ Pull
    \/ Unhook \/ CloseNotifier
    \/ Quiet

Spec == Init /\ [][Next]_vars

(* A goroutine that captured the hook calls it, and the window's event loop *)
(* serves its notifier and finishes what it began.  The timer is not relied *)
(* on: omegamaps.h promises that a wake follows every change.               *)
FairSpec ==
    /\ Spec
    /\ \A w \in Workers \cup {Main} : WF_vars(Poke(w))
    /\ WF_vars(Wake) /\ WF_vars(Pull)

-----------------------------------------------------------------------------
(* Properties. *)

\* Rows are filed under identities only, and every variable has its type.
TypeOK ==
    /\ DOMAIN run.rows \subseteq Keys /\ \A k \in DOMAIN run.rows : run.rows[k] \in Row
    /\ run.seq \in Nat /\ run.depth \in Nat /\ run.rejections \in Nat
    /\ run.closed \in BOOLEAN /\ run.notes \in Seq([seq : Nat, ev : Event])
    /\ hook \in BOOLEAN /\ owed \subseteq Workers \cup {Main}
    /\ tape \in Seq([seq : Nat, ev : Event])
    /\ pipe \in BOOLEAN /\ gone \in BOOLEAN /\ missed \in BOOLEAN
    /\ vpc \in {"idle", "drain", "progress", "rows", "decisions", "publish",
                "finished", "closing", "closed"}
    /\ prog.finished \in BOOLEAN
    /\ DOMAIN shown \subseteq Keys /\ rowSeq \in Nat /\ decSeq \in Nat

\* Every change of a row has a number of its own, and only a running device
\* has a phase: what a view sorts and cuts by (Run.seq, DeviceRow.Phase).
RowsNumbered ==
    \A k \in DOMAIN run.rows :
        /\ run.rows[k].seq \in 1..run.seq
        /\ run.rows[k].phase # "" => run.rows[k].state = "running"
        /\ \A j \in DOMAIN run.rows : run.rows[j].seq = run.rows[k].seq => j = k

\* A view that asks only for what changed since it last asked shows, of every
\* row not changed since, exactly that row, the rows Finish ended included.
ShownIsExact ==
    /\ DOMAIN shown = {k \in DOMAIN run.rows : k \in DOMAIN shown}
    /\ \A k \in DOMAIN run.rows : run.rows[k].seq <= rowSeq =>
          k \in DOMAIN shown /\ shown[k] = run.rows[k]

\* The notes are the notable events up to number s, in order, none twice and
\* none missing.
Recounts(notes, s) ==
    /\ \A i, j \in DOMAIN notes : i < j => notes[i].seq < notes[j].seq
    /\ {notes[i] : i \in DOMAIN notes} =
         {tape[i] : i \in {i \in DOMAIN tape : Notable(tape[i].ev) /\ tape[i].seq <= s}}

\* The decisions shown are those up to decSeq, unless a burst outran the bound
\* between two reads (KeepNotes, DecisionsSince).
HistoryIsComplete == ~missed => Recounts(history, decSeq)

\* A view that pulls shows exactly what the run holds, as far as it has pulled:
\* each row as numbered, each decision once.
ViewIsExact == TypeOK /\ RowsNumbered /\ ShownIsExact /\ HistoryIsComplete

\* When the view believes the run finished, it shows the whole of it: progress
\* is read before rows and decisions, and the counts add up to the rows; the
\* rejections it reports do not depend on how many decisions the run keeps.
FinishedIsComplete ==
    /\ vpc = "finished" =>
          /\ run.closed /\ InFlight(run) = {}
          /\ shown = run.rows
          /\ prog.counts = Counts(shown)
          /\ ~missed => Recounts(history, run.seq)
    /\ run.rejections = Cardinality({i \in DOMAIN tape : tape[i].ev.kind = "auth-reject"})

\* A notifier is never woken after it was closed, when its descriptor may be
\* another's, whatever hooks were captured before (runState.notifyGone).
NoWakeAfterClose == gone => ~pipe

\* A recording replays to the run it was made from: same rows in the same
\* states, though Finish records nothing (Run.Tap, Replay).
Replayed[n \in 0..MaxEvents] == IF n = 0 THEN NewRun ELSE After(Replayed[n - 1], tape[n].ev)

ReplayRebuilds ==
    LET again == Replayed[Len(tape)]
        order == CHOOSE f \in Orders(InFlight(again)) : TRUE
        Unstamped(rows) == [k \in DOMAIN rows |-> [rows[k] EXCEPT !.seq = 0]]
    IN  run.closed =>
            Unstamped(Ended(again, order).rows) = Unstamped(run.rows)

\* A view that stays open learns that the run finished, by wakes alone.
ViewFinishes == run.closed ~> vpc \in {"finished", "closing", "closed"}
=============================================================================
