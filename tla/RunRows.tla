------------------------------ MODULE RunRows -------------------------------
(***************************************************************************)
(* The run model of internal/crawlrun as a value: what one event makes of  *)
(* a run (Run.Handle), how a run ends (Run.finishAt), and what a view that *)
(* asks for changes is given (RowsSince, DecisionsSince).                  *)
(*                                                                         *)
(* Names, platforms, descriptions, credentials, counts of neighbors and    *)
(* times are carried by events and rows but decide nothing; they are left  *)
(* out.  A text is whatever words the code composes, "" being none.        *)
(***************************************************************************)
EXTENDS Naturals, Sequences, FiniteSets

CONSTANTS Keys,       \* identities rows are filed under
          NoKey,      \* the empty identity
          Text,       \* details
          MaxNotes    \* decisions kept; 0 keeps all of them

ASSUME RunRowsAssumption ==
    NoKey \notin Keys /\ "" \in Text /\ "unfinished" \in Text /\ MaxNotes \in Nat

Outcomes == {"reached", "failed", "not-dialed"}
States == {"queued", "running"} \cup Outcomes

\* Kinds that put a queued device to work, and may annotate its row.
Annotating == {"resolved", "retry-addr", "renamed", "platform", "host-key-new", "fallback"}

Kinds == Outcomes \cup Annotating \cup
         {"queued", "depth", "phase", "auth-ok", "auth-reject", "cred-parked",
          "collect", "collect-err"}

\* For auth-ok, detail is how the credential was chosen.
Event == [kind : Kinds, id : Keys \cup {NoKey}, depth : Nat,
          via : Keys \cup {NoKey}, detail : Text]

\* Event.Notable: what belongs in the decisions list.
Notable(ev) ==
    \/ ev.kind \in {"not-dialed", "failed", "resolved", "retry-addr", "renamed",
                    "host-key-new", "auth-reject", "cred-parked", "collect-err", "fallback"}
    \/ ev.kind = "auth-ok" /\ ev.detail \notin {"", "pinned"}

Row == [state : States, depth : Nat, via : Keys \cup {NoKey}, detail : Text,
        phase : Text, attempts : Nat, seq : Nat]

NewRow == [state |-> "queued", depth |-> 0, via |-> NoKey, detail |-> "",
           phase |-> "", attempts |-> 0, seq |-> 0]

-----------------------------------------------------------------------------
(* One event, folded into the row it names. *)

\* Mutant: whatever state the device was in.
AtWork_Always(state) == "running"

\* A queued device that something happens to is running.
AtWork(state) == IF state = "queued" THEN "running" ELSE state

StateAfter(d, ev) ==
    CASE ev.kind \in Outcomes -> ev.kind
      [] ev.kind \in {"auth-ok", "auth-reject", "collect"} -> "running"
      [] ev.kind \in Annotating \cup {"phase"} -> AtWork(d.state)
      [] OTHER -> d.state

PhaseAfter(d, ev) ==
    CASE ev.kind \in Outcomes -> ""
      [] ev.kind = "phase" /\ AtWork(d.state) = "running" -> ev.detail
      [] OTHER -> d.phase

\* rowNote: the texts that belong on the device's own row.
RowNote(ev) ==
    IF ev.kind \in {"retry-addr", "resolved", "platform", "fallback"} THEN ev.detail ELSE ""

DetailAfter(d, ev) ==
    IF ev.kind \in {"failed", "not-dialed"} THEN ev.detail
    ELSE IF RowNote(ev) # "" THEN RowNote(ev) ELSE d.detail

DepthAfter(d, ev) ==
    IF ev.kind = "queued" \/ (ev.kind = "not-dialed" /\ ev.depth > 0)
    THEN ev.depth ELSE d.depth

RowAfter(d, ev, seq) ==
    [state |-> StateAfter(d, ev), depth |-> DepthAfter(d, ev),
     via |-> IF d.via = NoKey THEN ev.via ELSE d.via,
     detail |-> DetailAfter(d, ev), phase |-> PhaseAfter(d, ev),
     attempts |-> d.attempts + (IF ev.kind \in {"auth-ok", "auth-reject"} THEN 1 ELSE 0),
     seq |-> seq]

-----------------------------------------------------------------------------
(* A run. *)

NewRun == [rows |-> [k \in {} |-> NewRow], seq |-> 0, depth |-> 0, notes |-> <<>>,
           rejections |-> 0, closed |-> FALSE]

RowOf(run, k) == IF k \in DOMAIN run.rows THEN run.rows[k] ELSE NewRow

\* A note is the event and the number it was given.
Note(ev, seq) == [seq |-> seq, ev |-> ev]

NotesAfter(notes, ev, seq) ==
    LET all == IF Notable(ev) THEN Append(notes, Note(ev, seq)) ELSE notes
    IN  IF MaxNotes > 0 /\ Len(all) > MaxNotes
        THEN SubSeq(all, Len(all) - MaxNotes + 1, Len(all))
        ELSE all

RowsAfter(run, ev) ==
    IF ev.id = NoKey THEN run.rows
    ELSE [k \in DOMAIN run.rows \cup {ev.id} |->
            IF k = ev.id THEN RowAfter(RowOf(run, k), ev, run.seq + 1) ELSE run.rows[k]]

RejectionsAfter(run, ev) ==
    run.rejections + (IF ev.kind = "auth-reject" THEN 1 ELSE 0)

\* Run.Handle.
After(run, ev) ==
    [rows |-> RowsAfter(run, ev),
     seq |-> run.seq + 1,
     depth |-> IF ev.kind = "depth" THEN ev.depth ELSE run.depth,
     notes |-> NotesAfter(run.notes, ev, run.seq + 1),
     rejections |-> RejectionsAfter(run, ev),
     closed |-> run.closed]

\* Run.finishAt ends what is still in flight, and stamps each such row in turn;
\* order is the order in which the map of rows happened to be walked.
InFlight(run) == {k \in DOMAIN run.rows : run.rows[k].state \in {"queued", "running"}}

Orders(S) == {f \in [S -> 1..Cardinality(S)] : \A j, k \in S : f[j] = f[k] => j = k}

RowEnded(row, seq) ==
    [row EXCEPT !.state = "failed", !.phase = "", !.seq = seq,
                !.detail = IF row.detail = "" THEN "unfinished" ELSE row.detail]

Ended(run, order) ==
    [run EXCEPT
        !.rows = [k \in DOMAIN run.rows |->
                    IF k \in InFlight(run) THEN RowEnded(run.rows[k], run.seq + order[k])
                                           ELSE run.rows[k]],
        !.seq = run.seq + Cardinality(InFlight(run)),
        !.closed = TRUE]

\* Run.RowsSince and Run.DecisionsSince.
RowsSince(run, s) ==
    [k \in {k \in DOMAIN run.rows : run.rows[k].seq > s} |-> run.rows[k]]

DecisionsSince(run, s) ==
    LET upTo[i \in 0..Len(run.notes)] ==
          IF i = 0 THEN <<>>
          ELSE IF run.notes[i].seq > s THEN Append(upTo[i - 1], run.notes[i]) ELSE upTo[i - 1]
    IN  upTo[Len(run.notes)]

\* Run.countsLocked: the rows in each state, the credentials offered, and the
\* rejections among them.
Counts(rows) == [s \in States |-> Cardinality({k \in DOMAIN rows : rows[k].state = s})]
=============================================================================
