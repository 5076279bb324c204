------------------------------ MODULE Session -------------------------------
(***************************************************************************)
(* One device's shell: the session of internal/netexec with its two read   *)
(* loops, the fingerprint that probes it and the collection that runs the  *)
(* platform's plan (Crawler.collectSSH), against a device that answers in  *)
(* its own time, may fall silent and may hang up.                          *)
(*                                                                         *)
(* Output is a sequence of lines, each with the number of the command it   *)
(* answers (0 before the first).  "prompt" is a line that matches the      *)
(* prompt and that nothing follows, "more" one that asks for a key, "error" *)
(* a refusal; any other line is text.  Lengths count lines.  The echo of a *)
(* command, normalization and the counts an error reports are left out, as *)
(* are the parsing of answers and Enable, which nothing calls.             *)
(*                                                                         *)
(* The device is external: it takes its input in order, and while it waits *)
(* at "more" anything it is sent is a key.  A collection begins here with  *)
(* the shell open: asking for it (NewSession, RequestPty, Shell) and       *)
(* writing to a device whose window is shut wait without a deadline, and   *)
(* that is EndsUnlessHeld of module Crawl.                                 *)
(***************************************************************************)
EXTENDS Integers, Sequences

CONSTANTS
    Commands, Readers, Stdout,
    Banner,        \* what the device says before its first prompt
    Reply,         \* command -> the lines it answers with, "error" to refuse
    Quiets,        \* commands after which the device no longer pages
    PageLen,       \* lines it shows between two "more"
    OpenPaging,    \* Options.PagingDisable, or NoCommand
    Probes,        \* sequence of [paging, version, names]
    Steps,         \* platform name -> sequence of [cmd, best]
    Bound,         \* command -> RunOptions.MaxBytes, 0 for the session's
    BaseLimit, TailKeep,
    NoCommand

ASSUME SessionAssumption ==
    /\ Stdout \in Readers /\ NoCommand \notin Commands
    /\ Reply \in [Commands -> Seq(STRING)] /\ Banner \in Seq(STRING)
    /\ Quiets \subseteq Commands /\ OpenPaging \in Commands \cup {NoCommand}
    /\ PageLen \in Nat \ {0} /\ BaseLimit \in Nat /\ TailKeep \in Nat \ {0}
    /\ Bound \in [Commands -> Int]
    /\ Probes # <<>>
    /\ Probes \in Seq([paging : Commands \cup {NoCommand}, version : Commands, names : SUBSET STRING])
    /\ \A p \in DOMAIN Steps : Steps[p] \in Seq([cmd : Commands, best : BOOLEAN])

\* What a device says before a prompt is no prompt, what it answers asks for no
\* key, and no probe looks for either or reports the platform it has not found.
ASSUME LinesAssumption ==
    /\ \A k \in DOMAIN Banner : Banner[k] # "prompt"
    /\ \A c \in Commands : \A k \in DOMAIN Reply[c] : Reply[c][k] \notin {"prompt", "more"}
    /\ \A i \in DOMAIN Probes : Probes[i].names \cap {"prompt", "more", "unknown", "none"} = {}

VARIABLES
    device,   \* input not taken yet, output not sent yet, at "more", paging, up
    wire,     \* sent by the device, not read yet
    buf, overflow, limit, err, closed, notify,   \* Session
    reader,   \* where each read loop stands
    pc,       \* where the collecting goroutine stands
    saw,      \* what its last look at the buffer left it with
    task,     \* what it is doing: [at, i]
    platform, \* what the fingerprint found
    sent,     \* commands sent
    last,     \* the last command that ended
    cancelled,
    adrift    \* a command was given up with its prompt still to come

shell == <<buf, overflow, limit, err, closed>>
vars == <<device, wire, shell, notify, reader, pc, saw, task, platform, sent, last, cancelled, adrift>>

Line(n, text) == [of |-> n, text |-> text]
EndsAt(lines, text) == lines # <<>> /\ lines[Len(lines)].text = text

-----------------------------------------------------------------------------
(* The device *)

\* Lines with a stop after each page but the last.
Paged(lines) ==
    LET stops == IF lines = <<>> THEN 0 ELSE (Len(lines) - 1) \div PageLen
    IN  [i \in 1..(Len(lines) + stops) |->
            IF i % (PageLen + 1) = 0 THEN "more" ELSE lines[i - i \div (PageLen + 1)]]

Output(n, lines, pages) ==
    LET all == Append(IF pages THEN Paged(lines) ELSE lines, "prompt")
    IN  [i \in DOMAIN all |-> Line(n, all[i])]

DeviceEmits ==
    /\ device.up /\ ~device.atMore /\ device.out # <<>>
    /\ wire' = Append(wire, Head(device.out))
    /\ device' = [device EXCEPT !.out = Tail(@), !.atMore = Head(device.out).text = "more"]
    /\ UNCHANGED <<shell, notify, reader, pc, saw, task, platform, sent, last, cancelled, adrift>>

\* A key moves it on from "more" and means nothing at its prompt.
DeviceTakes ==
    /\ device.up /\ device.in # <<>> /\ (device.atMore \/ device.out = <<>>)
    /\ LET input == Head(device.in)
           pages == device.pages /\ input.cmd \notin Quiets
       IN  device' =
             IF device.atMore \/ input.cmd = NoCommand
             THEN [device EXCEPT !.in = Tail(@), !.atMore = FALSE]
             ELSE [device EXCEPT !.in = Tail(@), !.pages = pages,
                      !.out = Output(input.n, Reply[input.cmd], pages)]
    /\ UNCHANGED <<wire, shell, notify, reader, pc, saw, task, platform, sent, last, cancelled, adrift>>

DeviceHangsUp ==
    /\ device.up
    /\ device' = [device EXCEPT !.up = FALSE]
    /\ UNCHANGED <<wire, shell, notify, reader, pc, saw, task, platform, sent, last, cancelled, adrift>>

-----------------------------------------------------------------------------
(* Session.readLoop *)

\* appendLocked: past the limit only the tail stays.
Appended(lines) ==
    LET all == buf \o lines
        over == limit > 0 /\ (overflow \/ Len(all) > limit)
        keep == IF TailKeep > limit THEN limit ELSE TailKeep
    IN  /\ overflow' = over
        /\ buf' = IF over /\ Len(all) > keep THEN SubSeq(all, Len(all) - keep + 1, Len(all)) ELSE all

Arrives(n) ==
    /\ reader[Stdout] = "reading" /\ n <= Len(wire)
    /\ Appended(SubSeq(wire, 1, n))
    /\ wire' = SubSeq(wire, n + 1, Len(wire))
    /\ reader' = [reader EXCEPT ![Stdout] = "telling"]
    /\ UNCHANGED <<device, limit, err, closed, notify, pc, saw, task, platform, sent, last, cancelled, adrift>>

\* The end of a stream; the first to see it records it.
StreamEnds(r) ==
    /\ reader[r] = "reading"
    /\ closed \/ (~device.up /\ wire = <<>>)
    /\ err' = TRUE
    /\ reader' = [reader EXCEPT ![r] = "ending"]
    /\ UNCHANGED <<device, wire, buf, overflow, limit, closed, notify, pc, saw, task, platform, sent,
                   last, cancelled, adrift>>

\* The send never blocks: one notice is as good as two.
Tells(r) ==
    /\ reader[r] \in {"telling", "ending"}
    /\ notify' = TRUE
    /\ reader' = [reader EXCEPT ![r] = IF @ = "ending" THEN "gone" ELSE "reading"]
    /\ UNCHANGED <<device, wire, shell, pc, saw, task, platform, sent, last, cancelled, adrift>>

-----------------------------------------------------------------------------
(* What is done with the answers: Open, Fingerprint, the plan *)

At(at, i) == [at |-> at, i |-> i]
Failed == At("failed", 0)
Refused(lines) == \E i \in DOMAIN lines : lines[i].text = "error"

CommandOf(t) ==
    CASE t.at = "disable" -> OpenPaging
      [] t.at = "paging"  -> Probes[t.i].paging
      [] t.at = "version" -> Probes[t.i].version
      [] t.at = "step"    -> Steps[platform][t.i].cmd
      [] OTHER            -> NoCommand

\* Every probe missed: unknown, and a platform without a plan is a leaf.
Step(name, i) ==
    IF name \in DOMAIN Steps /\ i <= Len(Steps[name]) THEN At("step", i) ELSE At("done", 0)
Probe(i) ==
    IF i > Len(Probes) THEN Step("unknown", 1)
    ELSE IF Probes[i].paging = NoCommand THEN At("version", i) ELSE At("paging", i)

\* classify
Classified(i, lines) == {lines[k].text : k \in DOMAIN lines} \cap Probes[i].names
Found(how, lines) ==
    IF how = "ok" /\ task.at = "version" /\ ~Refused(lines) /\ Classified(task.i, lines) # {}
    THEN CHOOSE p \in Classified(task.i, lines) : TRUE
    ELSE "unknown"

\* Any error ends it; a refusal is the next probe's turn.
AfterProbe(how, lines) ==
    IF how # "ok" THEN Failed
    ELSE IF Found(how, lines) # "unknown" THEN Step(Found(how, lines), 1)
    ELSE IF task.at = "paging" /\ ~Refused(lines) THEN At("version", task.i)
    ELSE Probe(task.i + 1)

\* Only a step that is not best effort fails the device.
AfterStep(how) ==
    IF how = "ok" \/ Steps[platform][task.i].best THEN Step(platform, task.i + 1) ELSE Failed

After(how, lines) ==
    CASE task.at = "banner"  -> IF how # "ok" THEN Failed
                                ELSE IF OpenPaging # NoCommand THEN At("disable", 0) ELSE Probe(1)
      [] task.at = "disable" -> IF how = "ok" THEN Probe(1) ELSE Failed
      [] task.at \in {"paging", "version"} -> AfterProbe(how, lines)
      [] task.at = "step"    -> AfterStep(how)

\* A command, or the wait for the first prompt, ends.
Ends(how, lines) ==
    LET next == After(how, lines)
        probing == task.at \in {"paging", "version"} /\ next.at \in {"step", "done"}
    IN  /\ last' = [n |-> sent, cmd |-> CommandOf(task), how |-> how, lines |-> lines]
        /\ task' = next
        /\ platform' = IF probing THEN Found(how, lines) ELSE platform
        /\ pc' = "idle"

-----------------------------------------------------------------------------
(* Session.RunWith and expect *)

Working == task.at \notin {"done", "failed"}

\* beginCommand: the buffer is left alone.
Begin ==
    /\ pc = "idle" /\ Working /\ ~cancelled
    /\ overflow' = FALSE /\ limit' = BaseLimit
    /\ pc' = IF Bound[CommandOf(task)] # 0 THEN "bounding" ELSE "sending"
    /\ UNCHANGED <<device, wire, buf, err, closed, notify, reader, saw, task, platform, sent, last,
                   cancelled, adrift>>

NotBegun ==
    /\ pc = "idle" /\ Working /\ cancelled
    /\ Ends("refused", <<>>)
    /\ UNCHANGED <<device, wire, shell, notify, reader, saw, sent, cancelled, adrift>>

SetLimit ==
    /\ pc = "bounding"
    /\ limit' = IF Bound[CommandOf(task)] < 0 THEN 0 ELSE Bound[CommandOf(task)]
    /\ pc' = "sending"
    /\ UNCHANGED <<device, wire, buf, overflow, err, closed, notify, reader, saw, task, platform, sent,
                   last, cancelled, adrift>>

Send ==
    /\ pc = "sending" /\ device.up
    /\ sent' = sent + 1
    /\ device' = [device EXCEPT !.in = Append(@, [n |-> sent', cmd |-> CommandOf(task)])]
    /\ pc' = "looking"
    /\ UNCHANGED <<wire, shell, notify, reader, saw, task, platform, last, cancelled, adrift>>

SendFails ==
    /\ pc = "sending" /\ ~device.up
    /\ Ends("closed", <<>>)
    /\ UNCHANGED <<device, wire, shell, notify, reader, saw, sent, cancelled, adrift>>

\* Mutant: what is left of an answer that was too large is returned.
Complete_Clipped ==
    /\ pc = "looking" /\ EndsAt(buf, "prompt")
    /\ buf' = <<>>
    /\ Ends("ok", buf)
    /\ UNCHANGED <<device, wire, overflow, limit, err, closed, notify, reader, saw, sent, cancelled, adrift>>

\* The prompt is there: the buffer is drained, and is the answer unless more
\* came than was allowed.
Complete ==
    /\ pc = "looking" /\ EndsAt(buf, "prompt")
    /\ buf' = <<>>
    /\ Ends(IF overflow THEN "toolarge" ELSE "ok", IF overflow THEN <<>> ELSE buf)
    /\ UNCHANGED <<device, wire, overflow, limit, err, closed, notify, reader, saw, sent, cancelled, adrift>>

LookAgain ==
    /\ pc = "looking" /\ ~EndsAt(buf, "prompt")
    /\ saw' = [more |-> EndsAt(buf, "more"), err |-> err, over |-> overflow]
    /\ pc' = "seen"
    /\ UNCHANGED <<device, wire, shell, notify, reader, task, platform, sent, last, cancelled, adrift>>

Key == [n |-> 0, cmd |-> NoCommand]

\* Mutant: notices from before the key are taken to be about the gate.
Acknowledge_Drains ==
    /\ pc = "seen" /\ saw.more /\ device.up
    /\ device' = [device EXCEPT !.in = Append(@, Key)]
    /\ saw' = [saw EXCEPT !.more = FALSE]
    /\ notify' = FALSE
    /\ UNCHANGED <<wire, shell, reader, pc, task, platform, sent, last, cancelled, adrift>>

\* A key for whatever asks for one, each time it is looked at.
Acknowledge ==
    /\ pc = "seen" /\ saw.more /\ device.up
    /\ device' = [device EXCEPT !.in = Append(@, Key)]
    /\ saw' = [saw EXCEPT !.more = FALSE]
    /\ UNCHANGED <<wire, shell, notify, reader, pc, task, platform, sent, last, cancelled, adrift>>

\* Nothing more will come, by what was seen; or the write says so.
HungUp ==
    /\ pc = "seen"
    /\ IF saw.more THEN ~device.up /\ Ends("closed", <<>>)
       ELSE saw.err /\ Ends(IF saw.over THEN "toolarge" ELSE "closed", <<>>)
    /\ adrift' = TRUE
    /\ UNCHANGED <<device, wire, shell, notify, reader, saw, sent, cancelled>>

Waiting == pc = "seen" /\ ~saw.more /\ ~saw.err

Woken ==
    /\ Waiting /\ notify
    /\ notify' = FALSE /\ pc' = "looking"
    /\ UNCHANGED <<device, wire, shell, reader, saw, task, platform, sent, last, cancelled, adrift>>

\* Mutant: only a cancelled context ends a wait.
GivesUp_WhenStopped ==
    /\ Waiting /\ cancelled
    /\ Ends("cancelled", <<>>)
    /\ adrift' = TRUE
    /\ UNCHANGED <<device, wire, shell, notify, reader, saw, sent, cancelled>>

\* The deadline, or a cancelled context: the session is left as it is.
GivesUp ==
    /\ Waiting
    /\ \E how \in {"timeout"} \cup (IF cancelled THEN {"cancelled"} ELSE {}) :
         Ends(IF saw.over /\ how = "timeout" THEN "toolarge" ELSE how, <<>>)
    /\ adrift' = TRUE
    /\ UNCHANGED <<device, wire, shell, notify, reader, saw, sent, cancelled>>

\* The crawl is stopped.
Cancel ==
    /\ ~cancelled
    /\ cancelled' = TRUE
    /\ UNCHANGED <<device, wire, shell, notify, reader, pc, saw, task, platform, sent, last, adrift>>

\* The deferred Close; Open closes what it could not open.
Close ==
    /\ ~Working /\ ~closed
    /\ closed' = TRUE
    /\ UNCHANGED <<device, wire, buf, overflow, limit, err, notify, reader, pc, saw, task, platform, sent,
                   last, cancelled, adrift>>

-----------------------------------------------------------------------------
Nothing == [n |-> 0, cmd |-> NoCommand, how |-> "none", lines |-> <<>>]

Init ==
    /\ device = [in |-> <<>>, out |-> Output(0, Banner, FALSE), atMore |-> FALSE, pages |-> TRUE, up |-> TRUE]
    /\ wire = <<>> /\ buf = <<>> /\ overflow = FALSE /\ limit = BaseLimit
    /\ err = FALSE /\ closed = FALSE /\ notify = FALSE
    /\ reader = [r \in Readers |-> "reading"]
    /\ pc = "looking" /\ saw = [more |-> FALSE, err |-> FALSE, over |-> FALSE]
    /\ task = At("banner", 0) /\ platform = "none"
    /\ sent = 0 /\ last = Nothing /\ cancelled = FALSE /\ adrift = FALSE

Device == DeviceEmits \/ DeviceTakes \/ DeviceHangsUp
Reading == (\E n \in 1..Len(wire) : Arrives(n)) \/ (\E r \in Readers : StreamEnds(r) \/ Tells(r))
Collecting ==
    \/ Begin \/ NotBegun \/ SetLimit \/ Send \/ SendFails
    \/ Complete \/ LookAgain \/ Acknowledge \/ HungUp \/ Woken \/ GivesUp \/ Close

Next == Device \/ Reading \/ Collecting \/ Cancel

Spec == Init /\ [][Next]_vars

\* The deadline of every wait for output passes; the device and the network owe
\* no answer.
FairSpec == Spec /\ WF_vars(Collecting)

-----------------------------------------------------------------------------
(* Properties *)

TypeOK ==
    /\ device.in \in Seq([n : Nat, cmd : Commands \cup {NoCommand}])
    /\ overflow \in BOOLEAN /\ limit \in Nat /\ err \in BOOLEAN /\ notify \in BOOLEAN
    /\ overflow => Len(buf) <= TailKeep
    /\ reader \in [Readers -> {"reading", "telling", "ending", "gone"}]
    /\ pc \in {"idle", "bounding", "sending", "looking", "seen"}
    /\ task.at \in {"banner", "disable", "paging", "version", "step", "done", "failed"}
    /\ last.how \in {"none", "ok", "refused", "toolarge", "closed", "timeout", "cancelled"}

\* Nobody waits for what is already there: while a command waits, a prompt in
\* the buffer or the end of the session has a notice pending, and so does a
\* device that asks for a key nobody has sent.
Noticed ==
    LET told == notify \/ \E r \in Readers : reader[r] \in {"telling", "ending"}
    IN  Waiting =>
          /\ EndsAt(buf, "prompt") \/ err => told
          /\ device.up /\ device.atMore /\ device.in = <<>> /\ wire = <<>> => told

\* Every step of the handshake between reader and command keeps this.
NoLostWake == TypeOK /\ Noticed

\* The lines are all the device says to a command, paged or not, as the n-th.
Whole(n, cmd, lines) == \E pages \in BOOLEAN : lines = Output(n, Reply[cmd], pages)

\* What a command returns is its own output, all of it and nothing else.
AnswersAreOwn == last.how = "ok" /\ last.n > 0 => Whole(last.n, last.cmd, last.lines)

\* The same, until a command is given up with its prompt still to come.
AnswersAreOwnUntilGivenUp == adrift \/ AnswersAreOwn

\* The platform is that of the first probe the device really takes, however its
\* answers were cut up and delayed, and the device took the paging command;
\* "unknown" means there is none.
Takes(c) == c = NoCommand \/ \A k \in DOMAIN Reply[c] : Reply[c][k] # "error"
Matching(i) ==
    IF Takes(Probes[i].paging) /\ Takes(Probes[i].version)
    THEN {Reply[Probes[i].version][k] : k \in DOMAIN Reply[Probes[i].version]} \cap Probes[i].names
    ELSE {}
FingerprintIsTrue ==
    platform # "none" =>
        IF \E i \in DOMAIN Probes : Matching(i) # {}
        THEN \E i \in DOMAIN Probes :
               /\ platform \in Matching(i) /\ \A j \in 1..(i - 1) : Matching(j) = {}
               /\ Probes[i].paging \in Quiets => ~device.pages
        ELSE platform = "unknown"

\* What the crawler makes of a session is what the device said: a command's
\* output is its own, and the platform the one the device is.
TextIsTrue == AnswersAreOwnUntilGivenUp /\ FingerprintIsTrue

\* Once the shell is open a collection ends, whatever the device sends or leaves
\* unsent: every wait for output gives up.
CollectionEnds == <>(~Working /\ closed)
=============================================================================
