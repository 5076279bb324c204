--------------------------- MODULE SessionProofs ----------------------------
(***************************************************************************)
(* Theorems about Session: no command waits for what has already come, and *)
(* what the crawler makes of a session is what the device said.            *)
(*                                                                         *)
(* Noticed is not inductive.  That a device asks for a key is seen only in *)
(* the buffer, so the argument must say where its question is while it     *)
(* waits (Asking); and what a look at the buffer missed must have come     *)
(* after it, with a notice of its own (Missed).                            *)
(*                                                                         *)
(* Nor is TextIsTrue.  An answer is a command's own because, until one is  *)
(* given up, what the device has still to say, what is on its way and what *)
(* is in the buffer are the last lines of one answer, and only its last    *)
(* line is a prompt (Flow).  A platform is right because the probes before *)
(* its own were refused or matched nothing, and its paging command was     *)
(* taken (Probing).                                                        *)
(***************************************************************************)
EXTENDS Session, TLAPS

\* Every line a device may say.
Text == STRING \cup {"prompt"} \cup {Paged(lines)[i] : lines \in Seq(STRING), i \in Nat}
Spoken == [of : Nat, text : Text]

Input == [n : Nat, cmd : Commands \cup {NoCommand}]
Ats == {"banner", "disable", "paging", "version", "step", "done", "failed"}
Hows == {"ok", "refused", "toolarge", "closed", "timeout", "cancelled"}

DeviceType ==
    device \in [in : Seq(Input), out : Seq(Spoken), atMore : BOOLEAN, pages : BOOLEAN, up : BOOLEAN]

ShellType ==
    /\ wire \in Seq(Spoken) /\ buf \in Seq(Spoken)
    /\ overflow \in BOOLEAN /\ limit \in Nat /\ err \in BOOLEAN /\ notify \in BOOLEAN
    /\ overflow => Len(buf) <= TailKeep
    /\ reader \in [Readers -> {"reading", "telling", "ending", "gone"}]

\* A task that can be carried out: its command exists.
Doable(t, p) ==
    /\ t \in [at : Ats, i : Nat]
    /\ t.at = "disable" => OpenPaging # NoCommand
    /\ t.at = "paging" => t.i \in DOMAIN Probes /\ Probes[t.i].paging # NoCommand
    /\ t.at = "version" => t.i \in DOMAIN Probes
    /\ t.at = "step" => p \in DOMAIN Steps /\ t.i \in DOMAIN Steps[p]

CommandType ==
    /\ pc \in {"idle", "bounding", "sending", "looking", "seen"}
    /\ saw \in [more : BOOLEAN, err : BOOLEAN, over : BOOLEAN]
    /\ Doable(task, platform)
    /\ task.at = "banner" => pc \in {"looking", "seen"}
    /\ task.at \in {"done", "failed"} => pc = "idle"
    /\ sent \in Nat /\ last.how \in Hows \cup {"none"}

Pending == notify \/ \E r \in Readers : reader[r] \in {"telling", "ending"}

\* While a device waits at "more", that is the last line it has sent.
Asking == device.atMore => EndsAt(IF wire = <<>> THEN buf ELSE wire, "more")

\* What is there and was not seen has a notice pending.
Missed ==
    pc = "seen" =>
        /\ EndsAt(buf, "prompt") => Pending
        /\ err /\ ~saw.err => Pending
        /\ ~saw.more /\ device.atMore /\ device.in = <<>> /\ wire = <<>> => Pending

IInv == DeviceType /\ ShellType /\ CommandType /\ Asking /\ Missed

-----------------------------------------------------------------------------
(* What a device says *)

LEMMA SeqOfRange ==
    ASSUME NEW f, NEW n \in Nat, f = [i \in 1..n |-> f[i]]
    PROVE  f \in Seq({f[i] : i \in 1..n}) /\ Len(f) = n /\ DOMAIN f = 1..n
<1>1. DOMAIN f = 1..n
  OBVIOUS
<1>2. f \in [1..n -> {f[i] : i \in 1..n}]
  OBVIOUS
<1>3. f \in Seq({f[i] : i \in 1..n})
  BY <1>2
<1> QED
  BY <1>1, <1>3

LEMMA StopsNat ==
    ASSUME NEW lines \in Seq(STRING), lines # <<>>
    PROVE  (Len(lines) - 1) \div PageLen \in Nat
<1>1. Len(lines) - 1 \in Nat /\ PageLen \in Nat \ {0}
  BY SessionAssumption
<1> QED
  BY <1>1

LEMMA OutputType ==
    ASSUME NEW n \in Nat, NEW lines \in Seq(STRING), NEW pages \in BOOLEAN
    PROVE  Output(n, lines, pages) \in Seq(Spoken)
<1> DEFINE said == IF pages THEN Paged(lines) ELSE lines
           all == Append(said, "prompt")
           out == Output(n, lines, pages)
<1>1. \E S : said \in Seq(S)
  <2>1. CASE ~pages
    BY <2>1
  <2>2. CASE pages
    <3> DEFINE stops == IF lines = <<>> THEN 0 ELSE (Len(lines) - 1) \div PageLen
               len == Len(lines) + stops
    <3>1. len \in Nat
      BY StopsNat
    <3>2. Paged(lines) = [i \in 1..len |-> IF i % (PageLen + 1) = 0 THEN "more"
                                           ELSE lines[i - i \div (PageLen + 1)]]
      BY DEF Paged
    <3> HIDE DEF len
    <3>3. Paged(lines) = [i \in 1..len |-> Paged(lines)[i]]
      BY <3>2
    <3> QED
      BY <2>2, <3>1, <3>3, SeqOfRange
  <2> QED
    BY <2>1, <2>2
<1> HIDE DEF said
<1>2. PICK S : said \in Seq(S)
  BY <1>1
<1>3. all \in Seq(S \cup {"prompt"}) /\ Len(all) \in Nat /\ DOMAIN all = 1..Len(all)
  <2>1. said \in Seq(S \cup {"prompt"})
    BY <1>2
  <2> QED
    BY <2>1
<1>4. out = [i \in 1..Len(all) |-> Line(n, all[i])]
  BY <1>3 DEF Output, said
<1> HIDE DEF all
<1>5. out = [i \in 1..Len(all) |-> out[i]] /\ DOMAIN out = 1..Len(all)
  BY <1>4
<1>6. \A i \in 1..Len(all) : out[i] \in Spoken
  <2> SUFFICES ASSUME NEW i \in 1..Len(all) PROVE out[i] \in Spoken
    OBVIOUS
  <2>1. out[i] = [of |-> n, text |-> all[i]]
    BY <1>4 DEF Line
  <2>2. all[i] \in Text
    <3>1. all[i] = "prompt" \/ (i \in DOMAIN said /\ all[i] = said[i])
      BY <1>2, <1>3 DEF all
    <3>2. i \in DOMAIN said /\ ~pages => said[i] \in STRING
      BY DEF said
    <3>3. i \in Nat /\ (pages => said = Paged(lines))
      BY <1>3 DEF said
    <3>4. CASE all[i] = "prompt"
      BY <3>4 DEF Text
    <3>5. CASE all[i] = said[i] /\ i \in DOMAIN said /\ ~pages
      BY <3>2, <3>5 DEF Text
    <3>6. CASE all[i] = said[i] /\ pages
      <4>1. all[i] = Paged(lines)[i] /\ i \in Nat
        BY <3>3, <3>6
      <4> QED
        BY <4>1 DEF Text
    <3> QED
      BY <3>1, <3>4, <3>5, <3>6
  <2> QED
    BY <2>1, <2>2 DEF Spoken
<1> HIDE DEF out
<1>7. out \in [1..Len(all) -> Spoken]
  BY <1>5, <1>6
<1> QED
  BY <1>3, <1>7 DEF out

-----------------------------------------------------------------------------
(* The buffer *)

LEMMA AppendedFacts ==
    ASSUME NEW S, buf \in Seq(S), NEW lines \in Seq(S), lines # <<>>, limit \in Nat,
           overflow \in BOOLEAN, Appended(lines)
    PROVE  /\ buf' \in Seq(S) /\ overflow' \in BOOLEAN
           /\ overflow' => Len(buf') <= TailKeep
           /\ buf' # <<>> /\ buf'[Len(buf')] = lines[Len(lines)]
<1> DEFINE all == buf \o lines
           over == limit > 0 /\ (overflow \/ Len(all) > limit)
           keep == IF TailKeep > limit THEN limit ELSE TailKeep
<1>1. /\ all \in Seq(S) /\ Len(all) \in Nat /\ Len(all) > 0
      /\ all[Len(all)] = lines[Len(lines)]
  OBVIOUS
<1>2. over \in BOOLEAN
  OBVIOUS
<1>3. over => keep \in Nat \ {0} /\ keep <= TailKeep
  BY SessionAssumption
<1>4. overflow' = over
      /\ buf' = IF over /\ Len(all) > keep THEN SubSeq(all, Len(all) - keep + 1, Len(all)) ELSE all
  BY DEF Appended
<1>5. TailKeep \in Nat \ {0}
  BY SessionAssumption
<1> HIDE DEF all, over, keep
<1>6. CASE over /\ Len(all) > keep
  <2>1. buf' = SubSeq(all, Len(all) - keep + 1, Len(all)) /\ keep \in Nat \ {0} /\ keep <= TailKeep
    BY <1>3, <1>4, <1>6
  <2>2. buf' \in Seq(S) /\ Len(buf') = keep
    BY <1>1, <1>6, <2>1
  <2>3. buf'[keep] = all[Len(all)]
    BY <1>1, <1>6, <2>1
  <2>4. Len(buf') <= TailKeep /\ buf' # <<>> /\ buf'[Len(buf')] = lines[Len(lines)]
    BY <1>1, <1>5, <2>1, <2>2, <2>3
  <2> QED
    BY <1>2, <1>4, <2>2, <2>4
<1>7. CASE ~(over /\ Len(all) > keep)
  <2>1. buf' = all
    BY <1>4, <1>7
  <2>2. over => Len(all) <= TailKeep
    BY <1>1, <1>3, <1>5, <1>7
  <2>3. buf' # <<>> /\ buf' \in Seq(S) /\ buf'[Len(buf')] = lines[Len(lines)]
    BY <1>1, <2>1
  <2>4. over => Len(buf') <= TailKeep
    BY <2>1, <2>2
  <2> QED
    BY <1>2, <1>4, <2>3, <2>4
<1> QED
  BY <1>6, <1>7

-----------------------------------------------------------------------------
(* Tasks *)

LEMMA StepDoable ==
    ASSUME NEW name, NEW i \in Nat \ {0}
    PROVE  Doable(Step(name, i), name) /\ Step(name, i).at \in {"step", "done"}
<1>1. CASE name \in DOMAIN Steps /\ i <= Len(Steps[name])
  <2>1. Step(name, i) = [at |-> "step", i |-> i]
    BY <1>1 DEF Step, At
  <2>2. i \in DOMAIN Steps[name]
    BY <1>1, SessionAssumption
  <2> QED
    BY <1>1, <2>1, <2>2 DEF Doable, Ats
<1>2. CASE ~(name \in DOMAIN Steps /\ i <= Len(Steps[name]))
  <2>1. Step(name, i) = [at |-> "done", i |-> 0]
    BY <1>2 DEF Step, At
  <2> QED
    BY <2>1 DEF Doable, Ats
<1> QED
  BY <1>1, <1>2

LEMMA ProbeDoable ==
    ASSUME NEW p, NEW i \in 1..Len(Probes)
    PROVE  Doable(Probe(i), p) /\ Probe(i).at \in {"paging", "version"}
<1>1. Len(Probes) \in Nat /\ DOMAIN Probes = 1..Len(Probes) /\ ~(i > Len(Probes)) /\ i \in Nat
  BY SessionAssumption
<1>2. CASE Probes[i].paging = NoCommand
  <2>1. Probe(i) = [at |-> "version", i |-> i]
    BY <1>1, <1>2 DEF Probe, At
  <2> QED
    BY <1>1, <2>1 DEF Doable, Ats
<1>3. CASE Probes[i].paging # NoCommand
  <2>1. Probe(i) = [at |-> "paging", i |-> i]
    BY <1>1, <1>3 DEF Probe, At
  <2> QED
    BY <1>1, <1>3, <2>1 DEF Doable, Ats
<1> QED
  BY <1>2, <1>3

LEMMA FirstProbe == 1 \in 1..Len(Probes)
BY SessionAssumption

LEMMA EndsDoable ==
    ASSUME Doable(task, platform), task.at \notin {"done", "failed"},
           NEW how \in Hows, NEW lines, Ends(how, lines)
    PROVE  Doable(task, platform)' /\ task'.at # "banner" /\ pc' = "idle" /\ last'.how = how
<1> DEFINE next == After(how, lines)
           probing == task.at \in {"paging", "version"} /\ next.at \in {"step", "done"}
<1>1. /\ task' = next /\ pc' = "idle" /\ last'.how = how
      /\ platform' = IF probing THEN Found(how, lines) ELSE platform
  BY DEF Ends
<1>2. task \in [at : Ats, i : Nat] /\ task.at \in Ats /\ task.i \in Nat
  BY DEF Doable
<1> SUFFICES Doable(next, platform') /\ next.at # "banner"
  BY <1>1 DEF Doable
<1>3. \A p : Doable(Failed, p) /\ Failed.at = "failed"
  BY DEF Doable, Failed, At, Ats
<1>4. \A p : Doable(Probe(1), p) /\ Probe(1).at # "banner"
  BY FirstProbe, ProbeDoable
<1>5. CASE task.at = "banner"
  <2>1. next = IF how # "ok" THEN Failed
               ELSE IF OpenPaging # NoCommand THEN At("disable", 0) ELSE Probe(1)
    BY <1>5 DEF After
  <2>2. OpenPaging # NoCommand => Doable(At("disable", 0), platform') /\ At("disable", 0).at # "banner"
    BY DEF Doable, At, Ats
  <2> QED
    BY <2>1, <2>2, <1>3, <1>4
<1>6. CASE task.at = "disable"
  <2>1. next = IF how = "ok" THEN Probe(1) ELSE Failed
    BY <1>6 DEF After
  <2> QED
    BY <2>1, <1>3, <1>4
<1>7. CASE task.at \in {"paging", "version"}
  <2>1. next = AfterProbe(how, lines)
    BY <1>7 DEF After
  <2>2. task.i \in 1..Len(Probes) /\ Len(Probes) \in Nat
    BY <1>7, SessionAssumption DEF Doable
  <2>3. CASE how # "ok"
    BY <2>1, <2>3, <1>3 DEF AfterProbe
  <2>4. CASE how = "ok" /\ Found(how, lines) # "unknown"
    <3>1. next = Step(Found(how, lines), 1)
      BY <2>1, <2>4 DEF AfterProbe
    <3>2. Doable(next, Found(how, lines)) /\ next.at \in {"step", "done"}
      BY <3>1, StepDoable
    <3> QED
      BY <1>1, <1>7, <3>2
  <2>5. CASE how = "ok" /\ Found(how, lines) = "unknown" /\ task.at = "paging" /\ ~Refused(lines)
    <3>1. next = [at |-> "version", i |-> task.i]
      BY <2>1, <2>5 DEF AfterProbe, At
    <3> QED
      BY <3>1, <2>2, SessionAssumption DEF Doable, Ats
  <2>6. CASE how = "ok" /\ Found(how, lines) = "unknown" /\ ~(task.at = "paging" /\ ~Refused(lines))
    <3>1. next = Probe(task.i + 1)
      BY <2>1, <2>6 DEF AfterProbe
    <3>2. CASE task.i + 1 \in 1..Len(Probes)
      BY <3>1, <3>2, ProbeDoable
    <3>3. CASE task.i + 1 > Len(Probes)
      <4>1. next = Step("unknown", 1)
        BY <3>1, <3>3 DEF Probe
      <4>2. Doable(next, "unknown") /\ next.at \in {"step", "done"}
        BY <4>1, StepDoable
      <4> QED
        BY <1>1, <1>7, <2>6, <4>2
    <3> QED
      BY <2>2, <3>2, <3>3
  <2> QED
    BY <2>3, <2>4, <2>5, <2>6
<1>8. CASE task.at = "step"
  <2>1. next = AfterStep(how) /\ platform' = platform
    BY <1>1, <1>8 DEF After
  <2>2. task.i + 1 \in Nat \ {0}
    BY <1>2
  <2>3. Doable(Step(platform, task.i + 1), platform) /\ Step(platform, task.i + 1).at # "banner"
    BY <2>2, StepDoable
  <2> QED
    BY <1>3, <2>1, <2>3 DEF AfterStep
<1> QED
  BY <1>2, <1>5, <1>6, <1>7, <1>8 DEF Ats

LEMMA SeqAt ==
    ASSUME NEW S, NEW s \in Seq(S), NEW i \in DOMAIN s
    PROVE  s[i] \in S
OBVIOUS

LEMMA CommandIs ==
    ASSUME Doable(task, platform)
    PROVE  /\ CommandOf(task) \in Commands \cup {NoCommand}
           /\ task.at \in {"disable", "paging", "version", "step"} => CommandOf(task) \in Commands
<1>1. task.at \in Ats
  BY DEF Doable
<1>2. CASE task.at \in {"banner", "done", "failed"}
  BY <1>2 DEF CommandOf
<1>3. CASE task.at = "disable"
  BY <1>3, SessionAssumption DEF CommandOf, Doable
<1>4. CASE task.at = "paging"
  <2>1. CommandOf(task) = Probes[task.i].paging
    BY <1>4 DEF CommandOf
  <2>2. Probes[task.i] \in [paging : Commands \cup {NoCommand}, version : Commands, names : SUBSET STRING]
        /\ Probes[task.i].paging # NoCommand
    <3>1. task.i \in DOMAIN Probes /\ Probes[task.i].paging # NoCommand
      BY <1>4 DEF Doable
    <3>2. Probes \in Seq([paging : Commands \cup {NoCommand}, version : Commands, names : SUBSET STRING])
      BY SessionAssumption
    <3> QED
      BY <3>1, <3>2, SeqAt
  <2> QED
    BY <2>1, <2>2
<1>5. CASE task.at = "version"
  <2>1. CommandOf(task) = Probes[task.i].version
    BY <1>5 DEF CommandOf
  <2>2. Probes[task.i] \in [paging : Commands \cup {NoCommand}, version : Commands, names : SUBSET STRING]
    <3>1. task.i \in DOMAIN Probes
      BY <1>5 DEF Doable
    <3>2. Probes \in Seq([paging : Commands \cup {NoCommand}, version : Commands, names : SUBSET STRING])
      BY SessionAssumption
    <3> QED
      BY <3>1, <3>2, SeqAt
  <2> QED
    BY <2>1, <2>2
<1>6. CASE task.at = "step"
  <2>1. CommandOf(task) = Steps[platform][task.i].cmd
    BY <1>6 DEF CommandOf
  <2>2. Steps[platform][task.i] \in [cmd : Commands, best : BOOLEAN]
    <3>1. platform \in DOMAIN Steps /\ task.i \in DOMAIN Steps[platform]
      BY <1>6 DEF Doable
    <3>2. Steps[platform] \in Seq([cmd : Commands, best : BOOLEAN])
      BY <3>1, SessionAssumption
    <3> QED
      BY <3>1, <3>2, SeqAt
  <2> QED
    BY <2>1, <2>2
<1> QED
  BY <1>1, <1>2, <1>3, <1>4, <1>5, <1>6 DEF Ats

-----------------------------------------------------------------------------
(* The device *)

LEMMA EmitsStep == ASSUME IInv, DeviceEmits PROVE IInv'
<1>1. /\ device.up /\ ~device.atMore /\ device.out # <<>>
      /\ wire' = Append(wire, Head(device.out))
      /\ device' = [device EXCEPT !.out = Tail(@), !.atMore = Head(device.out).text = "more"]
      /\ UNCHANGED <<shell, notify, reader, pc, saw, task, platform, sent, last>>
  BY DEF DeviceEmits
<1>2. device.out \in Seq(Spoken) /\ wire \in Seq(Spoken) /\ Len(wire) \in Nat
  BY DEF IInv, DeviceType, ShellType
<1>3. Head(device.out) \in Spoken /\ Tail(device.out) \in Seq(Spoken)
  BY <1>1, <1>2
<1>4. DeviceType'
  BY <1>1, <1>3 DEF IInv, DeviceType
<1>5. wire' \in Seq(Spoken) /\ wire' # <<>> /\ wire'[Len(wire')] = Head(device.out)
  BY <1>1, <1>2, <1>3
<1>6. ShellType' /\ CommandType'
  BY <1>1, <1>5 DEF IInv, ShellType, CommandType, Doable, shell
<1>7. device'.atMore = (Head(device.out).text = "more")
  BY <1>1 DEF IInv, DeviceType
<1>8. Asking'
  BY <1>5, <1>7 DEF Asking, EndsAt
<1>9. Missed'
  BY <1>1, <1>5 DEF IInv, Missed, Pending, EndsAt, shell
<1> QED
  BY <1>4, <1>6, <1>8, <1>9 DEF IInv

LEMMA TakesStep == ASSUME IInv, DeviceTakes PROVE IInv'
<1> DEFINE input == Head(device.in)
           pages == device.pages /\ input.cmd \notin Quiets
<1>1. /\ device.up /\ device.in # <<>>
      /\ device' = IF device.atMore \/ input.cmd = NoCommand
                   THEN [device EXCEPT !.in = Tail(@), !.atMore = FALSE]
                   ELSE [device EXCEPT !.in = Tail(@), !.pages = pages,
                            !.out = Output(input.n, Reply[input.cmd], pages)]
      /\ UNCHANGED <<wire, shell, notify, reader, pc, saw, task, platform, sent, last>>
  BY DEF DeviceTakes
<1>2. device.in \in Seq(Input)
  BY DEF IInv, DeviceType
<1>3. input \in Input /\ Tail(device.in) \in Seq(Input) /\ pages \in BOOLEAN
  BY <1>1, <1>2
<1>4. input.cmd # NoCommand => Output(input.n, Reply[input.cmd], pages) \in Seq(Spoken)
  <2> SUFFICES ASSUME input.cmd # NoCommand
               PROVE  Output(input.n, Reply[input.cmd], pages) \in Seq(Spoken)
    OBVIOUS
  <2>1. input.n \in Nat /\ input.cmd \in Commands
    BY <1>3 DEF Input
  <2>2. Reply[input.cmd] \in Seq(STRING)
    BY <2>1, SessionAssumption
  <2> HIDE DEF input, pages
  <2> QED
    BY <1>3, <2>1, <2>2, OutputType
<1> HIDE DEF input, pages
<1>5. DeviceType' /\ ~device'.atMore
  <2>1. CASE device.atMore \/ input.cmd = NoCommand
    BY <1>1, <1>3, <2>1 DEF IInv, DeviceType
  <2>2. CASE ~device.atMore /\ input.cmd # NoCommand
    BY <1>1, <1>3, <1>4, <2>2 DEF IInv, DeviceType
  <2> QED
    BY <2>1, <2>2
<1>6. ShellType' /\ CommandType'
  BY <1>1 DEF IInv, ShellType, CommandType, Doable, shell
<1>7. Asking' /\ Missed'
  BY <1>1, <1>5 DEF IInv, Asking, Missed, Pending, EndsAt, shell
<1> QED
  BY <1>5, <1>6, <1>7 DEF IInv

LEMMA HangsUpStep == ASSUME IInv, DeviceHangsUp PROVE IInv'
<1>1. /\ device' = [device EXCEPT !.up = FALSE]
      /\ UNCHANGED <<wire, shell, notify, reader, pc, saw, task, platform, sent, last>>
  BY DEF DeviceHangsUp
<1>2. DeviceType' /\ device'.atMore = device.atMore /\ device'.in = device.in
  BY <1>1 DEF IInv, DeviceType
<1>3. ShellType' /\ CommandType'
  BY <1>1 DEF IInv, ShellType, CommandType, Doable, shell
<1>4. Asking' /\ Missed'
  BY <1>1, <1>2 DEF IInv, Asking, Missed, Pending, EndsAt, shell
<1> QED
  BY <1>2, <1>3, <1>4 DEF IInv

-----------------------------------------------------------------------------
(* The read loops *)

LEMMA ArrivesStep == ASSUME IInv, NEW n \in 1..Len(wire), Arrives(n) PROVE IInv'
<1>1. /\ reader[Stdout] = "reading" /\ n <= Len(wire)
      /\ Appended(SubSeq(wire, 1, n))
      /\ wire' = SubSeq(wire, n + 1, Len(wire))
      /\ reader' = [reader EXCEPT ![Stdout] = "telling"]
      /\ UNCHANGED <<device, limit, err, closed, notify, pc, saw, task, platform, sent, last>>
  BY DEF Arrives
<1> DEFINE lines == SubSeq(wire, 1, n)
<1>2. /\ wire \in Seq(Spoken) /\ buf \in Seq(Spoken) /\ limit \in Nat /\ overflow \in BOOLEAN
      /\ reader \in [Readers -> {"reading", "telling", "ending", "gone"}]
  BY DEF IInv, ShellType
<1>3. /\ lines \in Seq(Spoken) /\ lines # <<>> /\ lines[Len(lines)] = wire[n]
      /\ wire' \in Seq(Spoken)
      /\ wire' = <<>> => n = Len(wire)
      /\ wire' # <<>> => wire'[Len(wire')] = wire[Len(wire)]
      /\ wire # <<>>
  <2>1. Len(wire) \in Nat /\ n \in Nat /\ n >= 1 /\ n <= Len(wire)
    BY <1>2
  <2>2. lines \in Seq(Spoken) /\ Len(lines) = n /\ lines[n] = wire[n]
    BY <1>2, <2>1
  <2>3. wire' \in Seq(Spoken) /\ Len(wire') = Len(wire) - n
        /\ \A k \in 1..Len(wire') : wire'[k] = wire[n + k]
    BY <1>1, <1>2, <2>1
  <2>4. lines # <<>> /\ wire # <<>> /\ (wire' = <<>> => n = Len(wire))
    <3>1. wire' = <<>> => Len(wire') = 0
      OBVIOUS
    <3>2. lines = <<>> => Len(lines) = 0
      OBVIOUS
    <3>3. wire = <<>> => Len(wire) = 0
      OBVIOUS
    <3>4. wire' = <<>> => n = Len(wire)
      <4>1. Len(wire') = Len(wire) - n
        BY <2>3
      <4> QED
        BY <2>1, <3>1, <4>1
    <3>5. Len(lines) = n
      BY <2>2
    <3> HIDE DEF lines
    <3> QED
      BY <2>1, <3>2, <3>3, <3>4, <3>5
  <2>5. wire' # <<>> => wire'[Len(wire')] = wire[Len(wire)]
    <3> SUFFICES ASSUME wire' # <<>> PROVE wire'[Len(wire')] = wire[Len(wire)]
      OBVIOUS
    <3>1. Len(wire') \in 1..Len(wire')
      BY <2>1, <2>3
    <3>2. wire'[Len(wire')] = wire[n + Len(wire')]
      BY <2>3, <3>1
    <3> QED
      BY <2>1, <2>3, <3>2
  <2> QED
    BY <2>2, <2>3, <2>4, <2>5
<1> HIDE DEF lines
<1>4. /\ buf' \in Seq(Spoken) /\ overflow' \in BOOLEAN
      /\ overflow' => Len(buf') <= TailKeep
      /\ buf' # <<>> /\ buf'[Len(buf')] = lines[Len(lines)]
  BY <1>1, <1>2, <1>3, AppendedFacts DEF lines
<1>5. reader' \in [Readers -> {"reading", "telling", "ending", "gone"}]
      /\ Stdout \in Readers /\ reader'[Stdout] = "telling"
  BY <1>1, <1>2, SessionAssumption
<1>6. DeviceType' /\ ShellType' /\ CommandType'
  BY <1>1, <1>3, <1>4, <1>5 DEF IInv, DeviceType, ShellType, CommandType, Doable
<1>7. Pending'
  BY <1>5 DEF Pending
<1>8. Asking'
  BY <1>1, <1>3, <1>4 DEF IInv, Asking, EndsAt
<1> QED
  BY <1>6, <1>7, <1>8 DEF IInv, Missed

LEMMA StreamEndsStep == ASSUME IInv, NEW r \in Readers, StreamEnds(r) PROVE IInv'
<1>1. /\ err' = TRUE /\ reader' = [reader EXCEPT ![r] = "ending"]
      /\ UNCHANGED <<device, wire, buf, overflow, limit, closed, notify, pc, saw, task, platform, sent, last>>
  BY DEF StreamEnds
<1>2. reader' \in [Readers -> {"reading", "telling", "ending", "gone"}] /\ reader'[r] = "ending"
  BY <1>1 DEF IInv, ShellType
<1>3. DeviceType' /\ ShellType' /\ CommandType'
  BY <1>1, <1>2 DEF IInv, DeviceType, ShellType, CommandType, Doable
<1>4. Pending'
  BY <1>2 DEF Pending
<1> QED
  BY <1>1, <1>3, <1>4 DEF IInv, Asking, Missed, EndsAt

LEMMA TellsStep == ASSUME IInv, NEW r \in Readers, Tells(r) PROVE IInv'
<1>1. /\ notify' = TRUE
      /\ reader' = [reader EXCEPT ![r] = IF @ = "ending" THEN "gone" ELSE "reading"]
      /\ UNCHANGED <<device, wire, shell, pc, saw, task, platform, sent, last>>
  BY DEF Tells
<1>2. reader' \in [Readers -> {"reading", "telling", "ending", "gone"}]
  BY <1>1 DEF IInv, ShellType
<1>3. DeviceType' /\ ShellType' /\ CommandType'
  BY <1>1, <1>2 DEF IInv, DeviceType, ShellType, CommandType, Doable, shell
<1> QED
  BY <1>1, <1>3 DEF IInv, Asking, Missed, Pending, EndsAt, shell

-----------------------------------------------------------------------------
(* The command *)

\* Whatever ends a command leaves nothing waiting.
LEMMA EndsFine ==
    ASSUME IInv, NEW how \in Hows, NEW lines, Ends(how, lines), task.at \notin {"done", "failed"},
           UNCHANGED <<saw, sent>>
    PROVE  CommandType' /\ Missed'
<1>1. Doable(task, platform)' /\ task'.at # "banner" /\ pc' = "idle" /\ last'.how = how
  BY EndsDoable DEF IInv, CommandType
<1> QED
  BY <1>1 DEF IInv, CommandType, Missed

\* A step that leaves device, wire and buffer alone.
LEMMA Still ==
    ASSUME IInv, UNCHANGED <<device, wire, buf, reader>>, notify' \in BOOLEAN,
           overflow' \in BOOLEAN, limit' \in Nat, err' = err, overflow' => overflow
    PROVE  DeviceType' /\ ShellType' /\ Asking'
BY DEF IInv, DeviceType, ShellType, Asking, EndsAt

LEMMA Shell == ASSUME IInv PROVE /\ notify \in BOOLEAN /\ overflow \in BOOLEAN /\ limit \in Nat /\ err \in BOOLEAN
                                 /\ saw \in [more : BOOLEAN, err : BOOLEAN, over : BOOLEAN]
                                 /\ (pc # "idle" => task.at \notin {"done", "failed"})
BY DEF IInv, ShellType, CommandType

LEMMA BeginStep == ASSUME IInv, Begin PROVE IInv'
<1>1. /\ pc = "idle" /\ task.at \notin {"done", "failed"}
      /\ overflow' = FALSE /\ limit' = BaseLimit
      /\ pc' \in {"bounding", "sending"}
      /\ UNCHANGED <<device, wire, buf, err, notify, reader, saw, task, platform, sent, last>>
  BY DEF Begin, Working
<1>2. DeviceType' /\ ShellType' /\ Asking'
  BY <1>1, Shell, Still, SessionAssumption
<1>3. CommandType' /\ Missed'
  BY <1>1 DEF IInv, CommandType, Doable, Missed
<1> QED
  BY <1>2, <1>3 DEF IInv

LEMMA NotBegunStep == ASSUME IInv, NotBegun PROVE IInv'
<1>1. /\ task.at \notin {"done", "failed"} /\ Ends("refused", <<>>) /\ "refused" \in Hows
      /\ UNCHANGED <<device, wire, shell, notify, reader, saw, sent>>
  BY DEF NotBegun, Working, Hows
<1>2. DeviceType' /\ ShellType' /\ Asking'
  BY <1>1, Shell, Still DEF shell
<1>3. CommandType' /\ Missed'
  BY <1>1, EndsFine
<1> QED
  BY <1>2, <1>3 DEF IInv

LEMMA SetLimitStep == ASSUME IInv, SetLimit PROVE IInv'
<1>1. /\ pc = "bounding" /\ pc' = "sending"
      /\ limit' = IF Bound[CommandOf(task)] < 0 THEN 0 ELSE Bound[CommandOf(task)]
      /\ UNCHANGED <<device, wire, buf, overflow, err, notify, reader, saw, task, platform, sent, last>>
  BY DEF SetLimit
<1>2. task.at \in {"disable", "paging", "version", "step"}
  BY <1>1 DEF IInv, CommandType, Doable, Ats
<1>3. CommandOf(task) \in Commands
  BY <1>2, CommandIs DEF IInv, CommandType
<1>4. limit' \in Nat
  BY <1>1, <1>3, SessionAssumption
<1>5. DeviceType' /\ ShellType' /\ Asking'
  BY <1>1, <1>4, Shell, Still
<1>6. CommandType' /\ Missed'
  BY <1>1, <1>2 DEF IInv, CommandType, Doable, Missed
<1> QED
  BY <1>5, <1>6 DEF IInv

LEMMA SendStep == ASSUME IInv, Send PROVE IInv'
<1>1. /\ pc = "sending" /\ pc' = "looking" /\ sent' = sent + 1
      /\ device' = [device EXCEPT !.in = Append(@, [n |-> sent', cmd |-> CommandOf(task)])]
      /\ UNCHANGED <<wire, shell, notify, reader, saw, task, platform, last>>
  BY DEF Send
<1>2. sent' \in Nat /\ CommandOf(task) \in Commands \cup {NoCommand}
  BY <1>1, CommandIs DEF IInv, CommandType
<1>3. Append(device.in, [n |-> sent', cmd |-> CommandOf(task)]) \in Seq(Input)
  BY <1>2 DEF IInv, DeviceType, Input
<1>4. DeviceType' /\ device'.atMore = device.atMore
  BY <1>1, <1>3 DEF IInv, DeviceType
<1>5. ShellType' /\ CommandType'
  BY <1>1, <1>2 DEF IInv, ShellType, CommandType, Doable, shell
<1>6. Asking' /\ Missed'
  BY <1>1, <1>4 DEF IInv, Asking, Missed, EndsAt, shell
<1> QED
  BY <1>4, <1>5, <1>6 DEF IInv

LEMMA SendFailsStep == ASSUME IInv, SendFails PROVE IInv'
<1>1. /\ pc = "sending" /\ Ends("closed", <<>>) /\ "closed" \in Hows
      /\ UNCHANGED <<device, wire, shell, notify, reader, saw, sent>>
  BY DEF SendFails, Hows
<1>2. DeviceType' /\ ShellType' /\ Asking'
  BY <1>1, Shell, Still DEF shell
<1>3. CommandType' /\ Missed'
  BY <1>1, Shell, EndsFine
<1> QED
  BY <1>2, <1>3 DEF IInv

\* The buffer that is drained ends in a prompt, so the device is not at "more"
\* with nothing on its way.
LEMMA CompleteStep == ASSUME IInv, Complete PROVE IInv'
<1> DEFINE how == IF overflow THEN "toolarge" ELSE "ok"
           lines == IF overflow THEN <<>> ELSE buf
<1>1. /\ pc = "looking" /\ EndsAt(buf, "prompt") /\ buf' = <<>> /\ Ends(how, lines) /\ how \in Hows
      /\ UNCHANGED <<device, wire, overflow, limit, err, notify, reader, saw, sent>>
  BY DEF Complete, Hows
<1> HIDE DEF how, lines
<1>2. DeviceType' /\ ShellType'
  <2>1. Len(buf') <= TailKeep /\ buf' \in Seq(Spoken)
    BY <1>1, SessionAssumption
  <2> QED
    BY <1>1, <2>1 DEF IInv, DeviceType, ShellType
<1>3. Asking'
  BY <1>1 DEF IInv, Asking, EndsAt
<1>4. CommandType' /\ Missed'
  BY <1>1, Shell, EndsFine
<1> QED
  BY <1>2, <1>3, <1>4 DEF IInv

LEMMA LookAgainStep == ASSUME IInv, LookAgain PROVE IInv'
<1>1. /\ pc = "looking" /\ pc' = "seen" /\ ~EndsAt(buf, "prompt")
      /\ saw' = [more |-> EndsAt(buf, "more"), err |-> err, over |-> overflow]
      /\ UNCHANGED <<device, wire, shell, notify, reader, task, platform, sent, last>>
  BY DEF LookAgain
<1>2. DeviceType' /\ ShellType' /\ Asking'
  BY <1>1, Shell, Still DEF shell
<1>3. EndsAt(buf, "more") \in BOOLEAN
  BY DEF EndsAt
<1>4. CommandType'
  BY <1>1, <1>3, Shell DEF IInv, CommandType, Doable
<1>5. Missed'
  BY <1>1 DEF IInv, Asking, Missed, EndsAt, shell
<1> QED
  BY <1>2, <1>4, <1>5 DEF IInv

LEMMA AcknowledgeStep == ASSUME IInv, Acknowledge PROVE IInv'
<1>1. /\ pc = "seen"
      /\ device' = [device EXCEPT !.in = Append(@, Key)]
      /\ saw' = [saw EXCEPT !.more = FALSE]
      /\ UNCHANGED <<wire, shell, notify, reader, pc, task, platform, sent, last>>
  BY DEF Acknowledge
<1>2. Append(device.in, Key) \in Seq(Input) /\ Append(device.in, Key) # <<>>
  <2>1. Key \in Input
    BY DEF Input, Key
  <2>2. device.in \in Seq(Input)
    BY DEF IInv, DeviceType
  <2> HIDE DEF Input, Key
  <2> QED
    BY <2>1, <2>2
<1>3. DeviceType' /\ device'.atMore = device.atMore /\ device'.in # <<>>
  BY <1>1, <1>2 DEF IInv, DeviceType
<1>4. ShellType' /\ CommandType'
  BY <1>1 DEF IInv, ShellType, CommandType, Doable, shell
<1>5. saw'.err = saw.err
  BY <1>1, Shell
<1>6. Asking' /\ Missed'
  BY <1>1, <1>3, <1>5 DEF IInv, Asking, Missed, Pending, EndsAt, shell
<1> QED
  BY <1>3, <1>4, <1>6 DEF IInv

LEMMA HungUpStep == ASSUME IInv, HungUp PROVE IInv'
<1>1. PICK how \in Hows : Ends(how, <<>>)
  BY DEF HungUp, Hows
<1>2. pc = "seen" /\ UNCHANGED <<device, wire, shell, notify, reader, saw, sent>>
  BY DEF HungUp
<1>3. DeviceType' /\ ShellType' /\ Asking'
  BY <1>2, Shell, Still DEF shell
<1>4. CommandType' /\ Missed'
  BY <1>1, <1>2, Shell, EndsFine
<1> QED
  BY <1>3, <1>4 DEF IInv

LEMMA WokenStep == ASSUME IInv, Woken PROVE IInv'
<1>1. /\ pc = "seen" /\ notify' = FALSE /\ pc' = "looking"
      /\ UNCHANGED <<device, wire, shell, reader, saw, task, platform, sent, last>>
  BY DEF Woken, Waiting
<1>2. DeviceType' /\ ShellType' /\ Asking'
  BY <1>1, Shell, Still DEF shell
<1>3. CommandType' /\ Missed'
  BY <1>1 DEF IInv, CommandType, Doable, Missed
<1> QED
  BY <1>2, <1>3 DEF IInv

LEMMA GivesUpStep == ASSUME IInv, GivesUp PROVE IInv'
<1>1. PICK how \in {"timeout"} \cup (IF cancelled THEN {"cancelled"} ELSE {}) :
        Ends(IF saw.over /\ how = "timeout" THEN "toolarge" ELSE how, <<>>)
  BY DEF GivesUp
<1> DEFINE said == IF saw.over /\ how = "timeout" THEN "toolarge" ELSE how
<1>2. said \in Hows /\ Ends(said, <<>>)
  BY <1>1 DEF Hows
<1>3. pc = "seen" /\ UNCHANGED <<device, wire, shell, notify, reader, saw, sent>>
  BY DEF GivesUp, Waiting
<1> HIDE DEF said
<1>4. DeviceType' /\ ShellType' /\ Asking'
  BY <1>3, Shell, Still DEF shell
<1>5. CommandType' /\ Missed'
  BY <1>2, <1>3, Shell, EndsFine
<1> QED
  BY <1>4, <1>5 DEF IInv

LEMMA AsideStep == ASSUME IInv, Close \/ Cancel \/ UNCHANGED vars PROVE IInv'
<1>1. UNCHANGED <<device, wire, buf, overflow, limit, err, notify, reader, pc, saw, task, platform, sent, last>>
  BY DEF Close, Cancel, vars, shell
<1> QED
  BY <1>1 DEF IInv, DeviceType, ShellType, CommandType, Doable, Asking, Missed, Pending, EndsAt

-----------------------------------------------------------------------------
(* Whoever moves *)

LEMMA InitIInv == Init => IInv
<1> SUFFICES ASSUME Init PROVE IInv
  OBVIOUS
<1>1. Output(0, Banner, FALSE) \in Seq(Spoken)
  BY OutputType, SessionAssumption
<1>2. DeviceType /\ ~device.atMore
  <2>1. <<>> \in Seq(Input)
    OBVIOUS
  <2>2. device = [in |-> <<>>, out |-> Output(0, Banner, FALSE), atMore |-> FALSE, pages |-> TRUE, up |-> TRUE]
    BY DEF Init
  <2> HIDE DEF Input
  <2> QED
    BY <1>1, <2>1, <2>2 DEF DeviceType
<1>3. ShellType
  <2>1. <<>> \in Seq(Spoken)
    OBVIOUS
  <2>2. wire = <<>> /\ buf = <<>> /\ Len(buf) = 0
    BY DEF Init
  <2> HIDE DEF Spoken
  <2> QED
    BY <2>1, <2>2, SessionAssumption DEF Init, ShellType
<1>4. CommandType
  BY DEF Init, CommandType, Doable, Ats, At, Nothing
<1>5. Asking /\ Missed
  BY <1>2 DEF Init, Asking, Missed
<1> QED
  BY <1>2, <1>3, <1>4, <1>5 DEF IInv

LEMMA NextIInv == IInv /\ [Next]_vars => IInv'
<1> SUFFICES ASSUME IInv, [Next]_vars PROVE IInv'
  OBVIOUS
<1>1. CASE Device
  BY <1>1, EmitsStep, TakesStep, HangsUpStep DEF Device
<1>2. CASE Reading
  BY <1>2, ArrivesStep, StreamEndsStep, TellsStep DEF Reading
<1>3. CASE Collecting
  BY <1>3, BeginStep, NotBegunStep, SetLimitStep, SendStep, SendFailsStep, CompleteStep,
     LookAgainStep, AcknowledgeStep, HungUpStep, WokenStep, GivesUpStep, AsideStep DEF Collecting
<1>4. CASE Cancel \/ UNCHANGED vars
  BY <1>4, AsideStep
<1> QED
  BY <1>1, <1>2, <1>3, <1>4 DEF Next

LEMMA IInvNoLostWake == IInv => NoLostWake
<1> SUFFICES ASSUME IInv PROVE NoLostWake
  OBVIOUS
<1>1. TypeOK
  BY DEF IInv, DeviceType, ShellType, CommandType, Doable, TypeOK, Input, Ats, Hows
<1>2. Noticed
  BY DEF IInv, Missed, Noticed, Waiting, Pending
<1> QED
  BY <1>1, <1>2 DEF NoLostWake

\* A command that waits for output is never the last to know of it: a prompt
\* that has come, the end of the session, or a device that asks for a key which
\* was not sent has always left a notice, however the lines are cut up, paged
\* and clipped, with any number of streams, at any limit.
THEOREM SessionNoLostWake == Spec => []NoLostWake
<1>1. Spec => []IInv
  BY InitIInv, NextIInv, PTL DEF Spec
<1> QED
  BY <1>1, IInvNoLostWake, PTL

-----------------------------------------------------------------------------
(* Lines, pages and keys *)

\* Division, as multiplication.
LEMMA Division ==
    ASSUME NEW a \in Nat, NEW d \in Nat \ {0}
    PROVE  \E q, r \in Nat : a = q * d + r /\ r < d /\ a \div d = q /\ a % d = r
<1> DEFINE q == a \div d
           r == a % d
<1>1. q \in Int /\ r \in 0..(d - 1) /\ a = q * d + r
  OBVIOUS
<1> HIDE DEF q, r
<1>2. ASSUME q < 0
      PROVE  FALSE
  <2>1. (0 - q) \in Nat \ {0}
    BY <1>1, <1>2
  <2>2. PICK p \in Nat \ {0} : q = 0 - p
    BY <1>1, <2>1
  <2>3. p * d >= d
    OBVIOUS
  <2>4. q * d = 0 - p * d
    BY <2>2
  <2> QED
    BY <1>1, <2>3, <2>4
<1>3. q \in Nat
  BY <1>1, <1>2
<1> QED
  BY <1>1, <1>3 DEF q, r

LEMMA Quotient ==
    ASSUME NEW q \in Nat, NEW r \in Nat, NEW d \in Nat \ {0}, r < d
    PROVE  (q * d + r) \div d = q /\ (q * d + r) % d = r
OBVIOUS

LEMMA MoreTimes ==
    ASSUME NEW q \in Nat, NEW s \in Nat, NEW d \in Nat \ {0}, q < s
    PROVE  q * d + d <= s * d
OBVIOUS

LEMMA NoMore ==
    ASSUME NEW q \in Nat, NEW s \in Nat, NEW d \in Nat \ {0}, q * d < s * d + d
    PROVE  q <= s
BY MoreTimes

\* A device that pages says every line, and asks for a key in between.
LEMMA PagedSays ==
    ASSUME NEW lines \in Seq(STRING)
    PROVE  /\ \E len \in Nat : DOMAIN Paged(lines) = 1..len
           /\ \A i \in DOMAIN Paged(lines) :
                 Paged(lines)[i] = "more" \/ \E k \in DOMAIN lines : Paged(lines)[i] = lines[k]
           /\ \A k \in DOMAIN lines : \E i \in DOMAIN Paged(lines) : Paged(lines)[i] = lines[k]
<1> DEFINE p == PageLen
           d == p + 1
           n == Len(lines)
           stops == IF lines = <<>> THEN 0 ELSE (n - 1) \div p
<1>1. p \in Nat \ {0} /\ d \in Nat \ {0} /\ n \in Nat /\ DOMAIN lines = 1..n
  BY SessionAssumption
<1>2. lines # <<>> => n - 1 \in Nat
  OBVIOUS
<1>3. /\ stops \in Nat
      /\ lines # <<>> => \E u \in Nat : n - 1 = stops * p + u /\ u < p
      /\ lines = <<>> => stops = 0 /\ n = 0
  <2>1. CASE lines = <<>>
    BY <2>1
  <2>2. CASE lines # <<>>
    <3>1. PICK q \in Nat, u \in Nat : n - 1 = q * p + u /\ u < p /\ (n - 1) \div p = q
      BY <1>1, <1>2, <2>2, Division
    <3> QED
      BY <2>2, <3>1
  <2> QED
    BY <2>1, <2>2
<1>4. Paged(lines) = [i \in 1..(n + stops) |->
                        IF i % d = 0 THEN "more" ELSE lines[i - i \div d]]
  BY DEF Paged
<1> HIDE DEF p, d, n, stops
<1>5. DOMAIN Paged(lines) = 1..(n + stops)
  BY <1>4
<1>6. ASSUME NEW i \in 1..(n + stops), i % d # 0
      PROVE  i - i \div d \in 1..n
  <2>0. i \in Nat
    BY <1>1, <1>3
  <2>1. PICK q \in Nat, r \in Nat : i = q * d + r /\ r < d /\ i \div d = q /\ i % d = r
    BY <1>1, <2>0, Division
  <2>2. q * d = q * p + q
    BY <1>1 DEF d
  <2>3. i - q = q * p + r /\ r >= 1 /\ r <= p /\ q * p \in Nat
    BY <1>1, <1>6, <2>1, <2>2 DEF d
  <2>4. i - q >= 1
    BY <2>3
  <2>5. lines # <<>>
    BY <1>1, <1>3, <1>6
  <2>6. PICK u \in Nat : n - 1 = stops * p + u /\ u < p
    BY <1>3, <2>5
  <2>7. ASSUME i - q > n
        PROVE  FALSE
    <3>1. i <= n + stops
      BY <1>1, <1>3
    <3>2. q < stops
      BY <1>1, <1>3, <2>1, <2>7, <3>1
    <3>3. q * p + p <= stops * p
      BY <1>1, <1>3, <3>2, MoreTimes
    <3>4. stops * p \in Nat
      BY <1>1, <1>3
    <3> QED
      BY <1>1, <2>3, <2>6, <2>7, <3>3, <3>4
  <2>8. i \in Nat /\ i - q \in Int
    BY <1>1, <1>3, <2>1
  <2>9. i - q <= n
    BY <1>1, <2>7, <2>8
  <2>10. i - q \in 1..n
    BY <1>1, <2>4, <2>8, <2>9
  <2> QED
    BY <2>1, <2>10
<1>7. ASSUME NEW i \in DOMAIN Paged(lines)
      PROVE  Paged(lines)[i] = "more" \/ \E k \in DOMAIN lines : Paged(lines)[i] = lines[k]
  BY <1>1, <1>4, <1>5, <1>6
<1>8. ASSUME NEW k \in 1..n
      PROVE  \E i \in 1..(n + stops) : i % d # 0 /\ i - i \div d = k
  <2>1. PICK q \in Nat, r \in Nat : k - 1 = q * p + r /\ r < p
    <3>1. k - 1 \in Nat
      BY <1>1
    <3> QED
      BY <1>1, <3>1, Division
  <2>2. r + 1 \in Nat /\ r + 1 < d
    BY <1>1, <2>1 DEF d
  <2>3. (q * d + (r + 1)) \div d = q /\ (q * d + (r + 1)) % d = r + 1
    BY <1>1, <2>2, Quotient
  <2>4. q * d = q * p + q
    BY <1>1 DEF d
  <2>5. q * p \in Nat
    BY <1>1
  <2>6. q * d + (r + 1) = k + q
    BY <1>1, <2>1, <2>4, <2>5
  <2>7. lines # <<>>
    BY <1>1, <1>3
  <2>8. PICK u \in Nat : n - 1 = stops * p + u /\ u < p
    BY <1>3, <2>7
  <2>9. stops * p \in Nat
    BY <1>1, <1>3
  <2>10. q * p < stops * p + p
    BY <1>1, <2>1, <2>5, <2>8, <2>9
  <2>11. q <= stops
    BY <1>1, <1>3, <2>10, NoMore
  <2>12. k + q \in 1..(n + stops)
    BY <1>1, <1>3, <2>11
  <2>13. (k + q) % d = r + 1 /\ (k + q) - (k + q) \div d = k
    BY <1>1, <2>3, <2>6
  <2> QED
    BY <2>12, <2>13
<1>9. ASSUME NEW k \in DOMAIN lines
      PROVE  \E i \in DOMAIN Paged(lines) : Paged(lines)[i] = lines[k]
  <2>1. PICK i \in 1..(n + stops) : i % d # 0 /\ i - i \div d = k
    BY <1>1, <1>8
  <2> QED
    BY <1>4, <1>5, <2>1
<1>10. n + stops \in Nat
  BY <1>1, <1>3
<1> QED
  BY <1>5, <1>7, <1>9, <1>10

\* What a device says to a command: its lines, keys asked for in between if it
\* pages, and the prompt.
LEMMA OutputSays ==
    ASSUME NEW n \in Nat, NEW lines \in Seq(STRING), NEW pages \in BOOLEAN,
           NEW all, all = Output(n, lines, pages)
    PROVE  /\ Len(all) \in Nat \ {0} /\ DOMAIN all = 1..Len(all)
           /\ all = [i \in 1..Len(all) |-> all[i]]
           /\ all[Len(all)].text = "prompt"
           /\ \A i \in 1..(Len(all) - 1) :
                 all[i].text = "more" \/ \E k \in DOMAIN lines : all[i].text = lines[k]
           /\ \A k \in DOMAIN lines : \E i \in 1..Len(all) : all[i].text = lines[k]
<1> DEFINE said == IF pages THEN Paged(lines) ELSE lines
           full == Append(said, "prompt")
<1>1. /\ \E len \in Nat : DOMAIN said = 1..len
      /\ \A i \in DOMAIN said : said[i] = "more" \/ \E k \in DOMAIN lines : said[i] = lines[k]
      /\ \A k \in DOMAIN lines : \E i \in DOMAIN said : said[i] = lines[k]
      /\ said = [i \in DOMAIN said |-> said[i]]
  <2>1. CASE pages
    <3>1. said = Paged(lines)
      BY <2>1
    <3>2. Paged(lines) = [i \in DOMAIN Paged(lines) |-> Paged(lines)[i]]
      BY DEF Paged
    <3> QED
      BY <3>1, <3>2, PagedSays
  <2>2. CASE ~pages
    <3>1. said = lines /\ DOMAIN lines = 1..Len(lines) /\ Len(lines) \in Nat
      BY <2>2
    <3>2. lines = [i \in DOMAIN lines |-> lines[i]]
      OBVIOUS
    <3> QED
      BY <3>1, <3>2
  <2> QED
    BY <2>1, <2>2
<1>2. all = [i \in DOMAIN full |-> Line(n, full[i])]
  BY DEF Output
<1> HIDE DEF said
<1>3. PICK len \in Nat : DOMAIN said = 1..len
  BY <1>1
<1>4. said \in Seq({said[i] : i \in 1..len}) /\ Len(said) = len
  BY <1>1, <1>3, SeqOfRange
<1>5. /\ DOMAIN full = 1..(len + 1) /\ full[len + 1] = "prompt"
      /\ \A i \in 1..len : full[i] = said[i]
  BY <1>4
<1> HIDE DEF full
<1>6. DOMAIN all = 1..(len + 1) /\ \A i \in 1..(len + 1) : all[i].text = full[i]
  BY <1>2, <1>5 DEF Line
<1>7. Len(all) = len + 1 /\ all = [i \in 1..(len + 1) |-> all[i]]
  <2>1. all = [i \in 1..(len + 1) |-> all[i]]
    BY <1>2, <1>5
  <2> QED
    BY <2>1, SeqOfRange
<1>8. \A i \in 1..len : all[i].text = said[i]
  BY <1>5, <1>6
<1>9. Len(all) \in Nat \ {0} /\ DOMAIN all = 1..Len(all) /\ all = [i \in 1..Len(all) |-> all[i]]
  BY <1>3, <1>6, <1>7
<1>10. all[Len(all)].text = "prompt"
  BY <1>3, <1>5, <1>6, <1>7
<1>11. Len(all) - 1 = len
  BY <1>3, <1>7
<1>14. Len(all) = len + 1
  BY <1>7
<1>12. ASSUME NEW i \in 1..(Len(all) - 1)
       PROVE  all[i].text = "more" \/ \E k \in DOMAIN lines : all[i].text = lines[k]
  <2>1. i \in DOMAIN said /\ all[i].text = said[i]
    BY <1>3, <1>8, <1>11
  <2> QED
    BY <1>1, <2>1
<1>13. ASSUME NEW k \in DOMAIN lines
       PROVE  \E i \in 1..Len(all) : all[i].text = lines[k]
  <2>0. \E i \in DOMAIN said : said[i] = lines[k]
    BY <1>1
  <2>1. PICK i \in 1..len : said[i] = lines[k]
    BY <1>3, <2>0
  <2>2. all[i].text = said[i]
    BY <1>8
  <2>3. i \in 1..Len(all)
    BY <1>3, <1>14, <2>1
  <2> QED
    BY <2>1, <2>2, <2>3
<1> QED
  BY <1>9, <1>10, <1>12, <1>13

-----------------------------------------------------------------------------
(* The answer on its way *)

Said == IF task.at = "banner" THEN Banner ELSE Reply[CommandOf(task)]

OnlyKeys == \A i \in DOMAIN device.in : device.in[i].cmd = NoCommand
Silent == buf = <<>> /\ wire = <<>> /\ device.out = <<>> /\ ~device.atMore

\* The command is on its way, among keys sent for the answers before it.
Asked ==
    /\ task.at # "banner" /\ ~overflow
    /\ \E k \in DOMAIN device.in :
        /\ device.in[k].n = sent /\ device.in[k].cmd = CommandOf(task)
        /\ \A i \in DOMAIN device.in : i # k => device.in[i].cmd = NoCommand

\* The lines of s are those of all that end with the e-th.
EndsWith(s, all, e) ==
    Len(s) <= e /\ \A i \in 1..Len(s) : s[i] = all[e - Len(s) + i]

\* What is still to come, on its way and in the buffer are the last lines of
\* an answer, all of it unless the buffer was cut.
Follows(all) ==
    LET e == Len(all) - Len(device.out)
        f == e - Len(wire)
    IN  /\ EndsWith(device.out, all, Len(all)) /\ EndsWith(wire, all, e) /\ EndsWith(buf, all, f)
        /\ ~overflow => Len(buf) = f
        /\ device.atMore => e > 0 /\ all[e].text = "more"

Answering ==
    /\ OnlyKeys /\ (overflow => limit > 0)
    /\ task.at # "banner" /\ CommandOf(task) \in Quiets => ~device.pages
    /\ \E pages \in BOOLEAN : Follows(Output(sent, Said, pages))

\* Until a command is given up, the device says what was asked last and
\* nothing else.
Flow ==
    ~adrift /\ Working =>
        IF pc \in {"looking", "seen"} THEN (Silent /\ Asked) \/ Answering
        ELSE Silent /\ OnlyKeys /\ (pc # "idle" => ~overflow)

LEMMA NothingEndsWith ==
    ASSUME NEW all, NEW e \in Nat
    PROVE  EndsWith(<<>>, all, e)
<1>1. Len(<<>>) = 0 /\ \A i : i \notin 1..0
  OBVIOUS
<1> QED
  BY <1>1 DEF EndsWith

LEMMA AllEndsWith ==
    ASSUME NEW all, Len(all) \in Nat
    PROVE  EndsWith(all, all, Len(all))
<1>1. \A i \in 1..Len(all) : Len(all) - Len(all) + i = i
  OBVIOUS
<1> QED
  BY <1>1 DEF EndsWith

\* A line goes from what is to come to what is on its way.
LEMMA OneMoves ==
    ASSUME NEW S, NEW s \in Seq(S), NEW t \in Seq(S), s # <<>>, NEW all, NEW e \in Nat,
           EndsWith(s, all, e), EndsWith(t, all, e - Len(s))
    PROVE  /\ EndsWith(Tail(s), all, e)
           /\ EndsWith(Append(t, Head(s)), all, e - Len(Tail(s)))
           /\ Len(Tail(s)) = Len(s) - 1 /\ Len(Append(t, Head(s))) = Len(t) + 1
           /\ Head(s) = all[e - Len(Tail(s))] /\ e - Len(Tail(s)) > 0
           /\ e - Len(Tail(s)) - Len(Append(t, Head(s))) = e - Len(s) - Len(t)
<1>1. Len(s) \in Nat \ {0} /\ Len(t) \in Nat /\ Len(s) <= e
  BY DEF EndsWith
<1>2. Len(Tail(s)) = Len(s) - 1 /\ \A i \in 1..(Len(s) - 1) : Tail(s)[i] = s[i + 1]
  BY <1>1
<1>3. Head(s) = s[1] /\ s[1] = all[e - Len(s) + 1]
  BY <1>1 DEF EndsWith
<1>4. e - Len(Tail(s)) = e - Len(s) + 1
  BY <1>1, <1>2
<1>5. EndsWith(Tail(s), all, e)
  <2>1. ASSUME NEW i \in 1..(Len(s) - 1)
        PROVE  Tail(s)[i] = all[e - Len(Tail(s)) + i]
    <3>1. i + 1 \in 1..Len(s)
      BY <1>1
    <3>2. s[i + 1] = all[e - Len(s) + (i + 1)]
      BY <3>1 DEF EndsWith
    <3>3. e - Len(s) + (i + 1) = e - Len(Tail(s)) + i
      BY <1>1, <1>4
    <3> QED
      BY <1>2, <3>2, <3>3
  <2> QED
    BY <1>1, <1>2, <2>1 DEF EndsWith
<1>6. Len(Append(t, Head(s))) = Len(t) + 1
      /\ \A i \in 1..Len(t) : Append(t, Head(s))[i] = t[i]
      /\ Append(t, Head(s))[Len(t) + 1] = Head(s)
  OBVIOUS
<1>7. EndsWith(Append(t, Head(s)), all, e - Len(Tail(s)))
  <2> DEFINE u == Append(t, Head(s))
             f == e - Len(Tail(s))
  <2>1. f \in Nat /\ f = e - Len(s) + 1 /\ Len(u) = Len(t) + 1 /\ Len(u) <= f
    BY <1>1, <1>4, <1>6 DEF EndsWith
  <2>2. ASSUME NEW i \in 1..Len(t)
        PROVE  u[i] = all[f - Len(u) + i]
    <3>1. t[i] = all[(e - Len(s)) - Len(t) + i]
      BY DEF EndsWith
    <3>2. (e - Len(s)) - Len(t) + i = f - Len(u) + i
      BY <1>1, <2>1
    <3> QED
      BY <1>6, <3>1, <3>2
  <2>3. u[Len(t) + 1] = all[f - Len(u) + (Len(t) + 1)]
    <3>1. f - Len(u) + (Len(t) + 1) = e - Len(s) + 1
      BY <1>1, <2>1
    <3> QED
      BY <1>3, <1>6, <3>1
  <2>4. \A i \in 1..Len(u) : i \in 1..Len(t) \/ i = Len(t) + 1
    BY <1>1, <2>1
  <2> HIDE DEF u, f
  <2>5. \A i \in 1..Len(u) : u[i] = all[f - Len(u) + i]
    BY <2>2, <2>3, <2>4
  <2> QED
    BY <2>1, <2>5 DEF EndsWith, u, f
<1>8. e - Len(Tail(s)) - Len(Append(t, Head(s))) = e - Len(s) - Len(t) /\ e - Len(Tail(s)) > 0
  BY <1>1, <1>4, <1>6
<1> QED
  BY <1>2, <1>3, <1>4, <1>5, <1>6, <1>7, <1>8

\* What is appended to the buffer, unless it is cut.
LEMMA AppendedTail ==
    ASSUME NEW S, buf \in Seq(S), NEW lines \in Seq(S), limit \in Nat,
           overflow \in BOOLEAN, Appended(lines)
    PROVE  /\ buf' \in Seq(S) /\ Len(buf') <= Len(buf) + Len(lines)
           /\ ~overflow' => Len(buf') = Len(buf) + Len(lines)
           /\ overflow' => limit > 0
           /\ overflow /\ limit > 0 => overflow'
           /\ EndsWith(buf', buf \o lines, Len(buf) + Len(lines))
<1> DEFINE all == buf \o lines
           over == limit > 0 /\ (overflow \/ Len(all) > limit)
           keep == IF TailKeep > limit THEN limit ELSE TailKeep
<1>1. all \in Seq(S) /\ Len(all) = Len(buf) + Len(lines) /\ Len(all) \in Nat
  OBVIOUS
<1>2. over \in BOOLEAN /\ (over => limit > 0) /\ (overflow /\ limit > 0 => over)
  OBVIOUS
<1>3. over => keep \in Nat \ {0}
  BY SessionAssumption
<1>4. overflow' = over
      /\ buf' = IF over /\ Len(all) > keep THEN SubSeq(all, Len(all) - keep + 1, Len(all)) ELSE all
  BY DEF Appended
<1>5. EndsWith(all, all, Len(all))
  BY <1>1, AllEndsWith
<1> SUFFICES /\ buf' \in Seq(S) /\ Len(buf') <= Len(all) /\ (~over => Len(buf') = Len(all))
             /\ EndsWith(buf', all, Len(all))
  BY <1>1, <1>2, <1>4
<1> HIDE DEF all, over, keep
<1>6. CASE over /\ Len(all) > keep
  <2>1. buf' = SubSeq(all, Len(all) - keep + 1, Len(all)) /\ keep \in Nat \ {0}
    BY <1>3, <1>4, <1>6
  <2>2. buf' \in Seq(S) /\ Len(buf') = keep
    BY <1>1, <1>6, <2>1
  <2>3. \A i \in 1..keep : buf'[i] = all[Len(all) - keep + i]
    BY <1>1, <1>6, <2>1
  <2> QED
    BY <1>1, <1>6, <2>1, <2>2, <2>3 DEF EndsWith
<1>7. CASE ~(over /\ Len(all) > keep)
  BY <1>1, <1>4, <1>5, <1>7
<1> QED
  BY <1>6, <1>7

\* What arrives goes from the wire to the buffer.
LEMMA SomeArrive ==
    ASSUME NEW S, NEW s \in Seq(S), NEW t \in Seq(S), NEW n \in 1..Len(s), NEW all, NEW e \in Nat,
           EndsWith(s, all, e), EndsWith(t, all, e - Len(s)), NEW u \in Seq(S),
           EndsWith(u, t \o SubSeq(s, 1, n), Len(t) + n)
    PROVE  /\ EndsWith(SubSeq(s, n + 1, Len(s)), all, e)
           /\ Len(SubSeq(s, n + 1, Len(s))) = Len(s) - n
           /\ Len(SubSeq(s, 1, n)) = n
           /\ EndsWith(u, all, e - (Len(s) - n))
<1>1. Len(s) \in Nat \ {0} /\ Len(t) \in Nat /\ Len(u) \in Nat /\ Len(s) <= e
      /\ Len(t) <= e - Len(s) /\ Len(u) <= Len(t) + n /\ n \in Nat \ {0} /\ n <= Len(s)
  BY DEF EndsWith
<1> DEFINE h == SubSeq(s, 1, n)
           r == SubSeq(s, n + 1, Len(s))
           v == t \o h
<1>2. h \in Seq(S) /\ Len(h) = n /\ \A i \in 1..n : h[i] = s[i]
  BY <1>1
<1>3. r \in Seq(S) /\ Len(r) = Len(s) - n /\ \A i \in 1..(Len(s) - n) : r[i] = s[n + i]
  BY <1>1
<1>4. EndsWith(r, all, e)
  <2>1. ASSUME NEW i \in 1..(Len(s) - n)
        PROVE  r[i] = all[e - (Len(s) - n) + i]
    <3>1. n + i \in 1..Len(s)
      BY <1>1
    <3>2. s[n + i] = all[e - Len(s) + (n + i)]
      BY <3>1 DEF EndsWith
    <3>3. e - Len(s) + (n + i) = e - (Len(s) - n) + i
      BY <1>1
    <3> QED
      BY <1>3, <3>2, <3>3
  <2> HIDE DEF r
  <2> QED
    BY <1>1, <1>3, <2>1 DEF EndsWith
<1>8. EndsWith(u, v, Len(t) + n)
  OBVIOUS
<1> HIDE DEF h
<1>5. /\ \A i \in 1..Len(t) : v[i] = t[i]
      /\ \A i \in 1..n : v[Len(t) + i] = h[i]
  BY <1>1, <1>2
<1> HIDE DEF v
<1>6. ASSUME NEW j \in 1..(Len(t) + n)
      PROVE  v[j] = all[e - Len(s) - Len(t) + j]
  <2>1. CASE j \in 1..Len(t)
    BY <1>5, <2>1 DEF EndsWith
  <2>2. CASE j \notin 1..Len(t)
    <3>1. j - Len(t) \in 1..n /\ j = Len(t) + (j - Len(t))
      BY <1>1, <2>2
    <3>2. v[j] = h[j - Len(t)] /\ h[j - Len(t)] = s[j - Len(t)]
      BY <1>2, <1>5, <3>1
    <3>3. j - Len(t) \in 1..Len(s)
      BY <1>1, <3>1
    <3>4. s[j - Len(t)] = all[e - Len(s) + (j - Len(t))]
      BY <3>3 DEF EndsWith
    <3>5. e - Len(s) + (j - Len(t)) = e - Len(s) - Len(t) + j
      BY <1>1
    <3> QED
      BY <3>2, <3>4, <3>5
  <2> QED
    BY <2>1, <2>2
<1>7. EndsWith(u, all, e - (Len(s) - n))
  <2>1. ASSUME NEW i \in 1..Len(u)
        PROVE  u[i] = all[e - (Len(s) - n) - Len(u) + i]
    <3>1. u[i] = v[Len(t) + n - Len(u) + i]
      BY <1>8 DEF EndsWith
    <3>2. Len(t) + n - Len(u) + i \in 1..(Len(t) + n)
      BY <1>1
    <3>3. v[Len(t) + n - Len(u) + i] = all[e - Len(s) - Len(t) + (Len(t) + n - Len(u) + i)]
      BY <1>6, <3>2
    <3>4. e - Len(s) - Len(t) + (Len(t) + n - Len(u) + i) = e - (Len(s) - n) - Len(u) + i
      BY <1>1
    <3> QED
      BY <3>1, <3>3, <3>4
  <2>2. Len(u) <= e - (Len(s) - n)
    BY <1>1
  <2> QED
    BY <2>1, <2>2 DEF EndsWith
<1> QED
  BY <1>2, <1>3, <1>4, <1>7 DEF h, r

\* What a device says for the command of the moment.
LEMMA SaidIs ==
    ASSUME IInv, Working
    PROVE  /\ Said \in Seq(STRING) /\ sent \in Nat
           /\ \A k \in DOMAIN Said : Said[k] # "prompt"
           /\ task.at # "banner" => CommandOf(task) \in Commands /\ Said = Reply[CommandOf(task)]
<1>1. task.at \in Ats \ {"done", "failed"} /\ sent \in Nat
  BY DEF IInv, CommandType, Doable, Working
<1>2. CASE task.at = "banner"
  BY <1>1, <1>2, SessionAssumption, LinesAssumption DEF Said
<1>3. CASE task.at # "banner"
  <2>1. CommandOf(task) \in Commands
    BY <1>1, <1>3, CommandIs DEF IInv, CommandType, Ats
  <2> QED
    BY <1>1, <1>3, <2>1, SessionAssumption, LinesAssumption DEF Said
<1> QED
  BY <1>2, <1>3

LEMMA LinesAre ==
    ASSUME IInv
    PROVE  /\ wire \in Seq(Spoken) /\ buf \in Seq(Spoken) /\ device.out \in Seq(Spoken)
           /\ device.in \in Seq(Input) /\ overflow \in BOOLEAN /\ limit \in Nat
           /\ device \in [in : Seq(Input), out : Seq(Spoken), atMore : BOOLEAN, pages : BOOLEAN, up : BOOLEAN]
           /\ Len(wire) \in Nat /\ Len(buf) \in Nat /\ Len(device.out) \in Nat
BY DEF IInv, DeviceType, ShellType

\* Steps that leave what was asked and what was answered alone.
LEMMA FlowStill ==
    ASSUME Flow, UNCHANGED <<wire, buf, overflow, limit, task, platform, sent, adrift>>,
           device'.in = device.in, device'.out = device.out, device'.atMore = device.atMore,
           device'.pages = device.pages,
           pc' = pc \/ (pc \in {"looking", "seen"} /\ pc' \in {"looking", "seen"})
    PROVE  Flow'
<1>1. UNCHANGED <<Said, Working>>
  BY DEF Said, CommandOf, Working
<1>2. UNCHANGED <<Silent, OnlyKeys, Asked>>
  BY DEF Silent, OnlyKeys, Asked, CommandOf
<1>3. \A all : Follows(all)' <=> Follows(all)
  BY DEF Follows, EndsWith
<1>4. Answering' <=> Answering
  BY <1>1, <1>2, <1>3 DEF Answering, CommandOf
<1> QED
  BY <1>1, <1>2, <1>4 DEF Flow

LEMMA EmitsFlow == ASSUME IInv, Flow, DeviceEmits PROVE Flow'
<1>1. /\ device.out # <<>>
      /\ wire' = Append(wire, Head(device.out))
      /\ device' = [device EXCEPT !.out = Tail(@), !.atMore = Head(device.out).text = "more"]
      /\ UNCHANGED <<buf, overflow, limit, pc, task, platform, sent, adrift>>
  BY DEF DeviceEmits, shell
<1>2. /\ device'.out = Tail(device.out) /\ device'.atMore = (Head(device.out).text = "more")
      /\ device'.in = device.in /\ device'.pages = device.pages
  BY <1>1, LinesAre
<1> SUFFICES ASSUME ~adrift, Working, Answering, pc \in {"looking", "seen"}
             PROVE  Answering'
  BY <1>1 DEF Flow, Working, Silent
<1>3. PICK pages \in BOOLEAN : Follows(Output(sent, Said, pages))
  BY DEF Answering
<1>9. PICK all : all = Output(sent, Said, pages)
  OBVIOUS
<1>4. Len(all) \in Nat
  BY <1>9, SaidIs, OutputSays
<1>5. Follows(all)
  BY <1>3, <1>9
<1>6. Follows(all)'
  <2> DEFINE o == device.out
  <2>1. /\ EndsWith(o, all, Len(all)) /\ EndsWith(wire, all, Len(all) - Len(o))
        /\ EndsWith(buf, all, Len(all) - Len(o) - Len(wire))
        /\ ~overflow => Len(buf) = Len(all) - Len(o) - Len(wire)
    BY <1>5 DEF Follows
  <2>2. /\ EndsWith(Tail(o), all, Len(all))
        /\ EndsWith(wire', all, Len(all) - Len(Tail(o)))
        /\ Head(o) = all[Len(all) - Len(Tail(o))] /\ Len(all) - Len(Tail(o)) > 0
        /\ Len(all) - Len(Tail(o)) - Len(wire') = Len(all) - Len(o) - Len(wire)
    BY <1>1, <1>4, <2>1, LinesAre, OneMoves
  <2> QED
    BY <1>1, <1>2, <2>1, <2>2 DEF Follows
<1>7. UNCHANGED <<Said, OnlyKeys, CommandOf(task)>>
  BY <1>1, <1>2 DEF Said, OnlyKeys, CommandOf
<1>10. all = Output(sent, Said, pages)'
  BY <1>1, <1>7, <1>9
<1>11. \E shown \in BOOLEAN : Follows(Output(sent, Said, shown))'
  BY <1>6, <1>10
<1> QED
  BY <1>1, <1>2, <1>7, <1>11 DEF Answering

\* Whatever is taken from the input while nobody waits for an answer is a key.
LEMMA TakesFlow == ASSUME IInv, Flow, DeviceTakes PROVE Flow'
<1> DEFINE input == Head(device.in)
           more == device.pages /\ input.cmd \notin Quiets
<1>1. /\ device.in # <<>> /\ (device.atMore \/ device.out = <<>>)
      /\ device' = IF device.atMore \/ input.cmd = NoCommand
                   THEN [device EXCEPT !.in = Tail(@), !.atMore = FALSE]
                   ELSE [device EXCEPT !.in = Tail(@), !.pages = more,
                            !.out = Output(input.n, Reply[input.cmd], more)]
      /\ UNCHANGED <<wire, buf, overflow, limit, pc, task, platform, sent, adrift>>
  BY DEF DeviceTakes, shell
<1>2. /\ device.in \in Seq(Input) /\ Len(device.in) \in Nat \ {0}
      /\ input = device.in[1] /\ 1 \in DOMAIN device.in
      /\ DOMAIN Tail(device.in) = 1..(Len(device.in) - 1)
      /\ \A i \in DOMAIN Tail(device.in) : Tail(device.in)[i] = device.in[i + 1]
      /\ \A i \in DOMAIN Tail(device.in) : i \in Nat /\ i + 1 \in DOMAIN device.in
      /\ DOMAIN device.in = 1..Len(device.in)
  BY <1>1, LinesAre
<1> HIDE DEF input, more
<1>3. ASSUME device.atMore \/ input.cmd = NoCommand
      PROVE  /\ device'.in = Tail(device.in) /\ device'.out = device.out
             /\ device'.pages = device.pages /\ device'.atMore = FALSE
  BY <1>1, <1>3, LinesAre
<1>4. ASSUME ~device.atMore, input.cmd # NoCommand
      PROVE  /\ device'.in = Tail(device.in) /\ device'.out = Output(input.n, Reply[input.cmd], more)
             /\ device'.pages = more /\ device'.atMore = FALSE /\ device.out = <<>>
  <2>1. device.atMore = FALSE
    BY <1>4, LinesAre
  <2> QED
    BY <1>1, <1>4, <2>1, LinesAre
<1>5. UNCHANGED <<Said, CommandOf(task), Working>>
  BY <1>1 DEF Said, CommandOf, Working
<1> SUFFICES ASSUME ~adrift, Working
             PROVE  IF pc \in {"looking", "seen"} THEN (Silent' /\ Asked') \/ Answering'
                    ELSE Silent' /\ OnlyKeys' /\ (pc # "idle" => ~overflow)
  BY <1>1, <1>5 DEF Flow
<1>6. ASSUME OnlyKeys
      PROVE  input.cmd = NoCommand /\ OnlyKeys'
  <2>1. input.cmd = NoCommand
    BY <1>2, <1>6 DEF OnlyKeys
  <2>2. device'.in = Tail(device.in)
    BY <1>3, <2>1
  <2> QED
    BY <1>2, <1>6, <2>1, <2>2 DEF OnlyKeys
<1>7. ASSUME Silent, OnlyKeys
      PROVE  Silent' /\ OnlyKeys'
  BY <1>1, <1>3, <1>6, <1>7 DEF Silent
<1>8. CASE Answering /\ pc \in {"looking", "seen"}
  <2>1. OnlyKeys /\ input.cmd = NoCommand /\ OnlyKeys'
    BY <1>6, <1>8 DEF Answering
  <2>2. device'.out = device.out /\ device'.pages = device.pages /\ device'.atMore = FALSE
    BY <1>3, <2>1
  <2>3. ASSUME NEW all, Follows(all)
        PROVE  Follows(all)'
    BY <1>1, <2>2, <2>3 DEF Follows, EndsWith
  <2>4. Answering'
    BY <1>1, <1>5, <1>8, <2>1, <2>2, <2>3 DEF Answering
  <2> QED
    BY <1>8, <2>4
<1>9. CASE Silent /\ Asked /\ pc \in {"looking", "seen"}
  <2>1. PICK k \in DOMAIN device.in :
          /\ device.in[k].n = sent /\ device.in[k].cmd = CommandOf(task)
          /\ \A i \in DOMAIN device.in : i # k => device.in[i].cmd = NoCommand
    BY <1>9 DEF Asked
  <2>2. CommandOf(task) \in Commands /\ CommandOf(task) # NoCommand /\ Said = Reply[CommandOf(task)]
        /\ task.at # "banner" /\ ~overflow
    BY <1>9, SaidIs, SessionAssumption DEF Asked
  <2>3. CASE k # 1
    <3>1. input.cmd = NoCommand
      BY <1>2, <2>1, <2>3
    <3>2. /\ device'.in = Tail(device.in) /\ device'.out = device.out /\ device'.atMore = FALSE
      BY <1>3, <3>1
    <3>3. Silent'
      BY <1>1, <1>9, <3>2 DEF Silent
    <3>4. k - 1 \in DOMAIN device'.in /\ (k - 1) + 1 = k
      BY <1>2, <2>1, <2>3, <3>2
    <3>5. device'.in[k - 1] = device.in[k]
          /\ \A i \in DOMAIN device'.in : i # k - 1 => device'.in[i].cmd = NoCommand
      BY <1>2, <2>1, <3>2, <3>4
    <3>6. Asked'
      BY <1>1, <1>5, <2>1, <2>2, <3>4, <3>5 DEF Asked
    <3> QED
      BY <1>9, <3>3, <3>6
  <2>4. CASE k = 1
    <3>1. input.cmd = CommandOf(task) /\ input.n = sent /\ ~device.atMore
      BY <1>2, <1>9, <2>1, <2>4 DEF Silent
    <3>2. /\ device'.in = Tail(device.in) /\ device'.out = Output(sent, Said, more)
          /\ device'.pages = more /\ device'.atMore = FALSE
      BY <1>4, <2>2, <3>1
    <3>3. OnlyKeys'
      <4>1. \A i \in DOMAIN Tail(device.in) : i + 1 # 1
        BY <1>2
      <4> QED
        BY <1>2, <2>1, <2>4, <3>2, <4>1 DEF OnlyKeys
    <3>4. more \in BOOLEAN /\ (CommandOf(task) \in Quiets => ~more)
      BY <3>1, LinesAre DEF more
    <3>12. PICK all, shown : shown = more /\ all = Output(sent, Said, shown)
      OBVIOUS
    <3>5. Len(all) \in Nat
      BY <3>4, <3>12, SaidIs, OutputSays
    <3>6. EndsWith(all, all, Len(all)) /\ EndsWith(<<>>, all, 0) /\ Len(<<>>) = 0
      BY <3>5, AllEndsWith, NothingEndsWith
    <3>7. device'.out = all /\ wire' = <<>> /\ buf' = <<>> /\ Len(all) - Len(all) = 0 /\ 0 - 0 = 0
      BY <1>1, <1>9, <3>2, <3>5, <3>12 DEF Silent
    <3>8. Follows(all)'
      BY <3>2, <3>6, <3>7 DEF Follows
    <3>10. all = Output(sent, Said, shown)' /\ shown \in BOOLEAN
      BY <1>1, <1>5, <3>4, <3>12
    <3>11. \E b \in BOOLEAN : Follows(Output(sent, Said, b))'
      BY <3>8, <3>10
    <3>9. Answering'
      BY <1>1, <1>5, <2>2, <3>2, <3>3, <3>4, <3>11 DEF Answering
    <3> QED
      BY <1>9, <3>9
  <2> QED
    BY <2>3, <2>4
<1>10. CASE pc \notin {"looking", "seen"}
  BY <1>7, <1>10 DEF Flow
<1> QED
  BY <1>8, <1>9, <1>10 DEF Flow

LEMMA ArrivesFlow == ASSUME IInv, Flow, NEW n \in 1..Len(wire), Arrives(n) PROVE Flow'
<1>1. /\ Appended(SubSeq(wire, 1, n))
      /\ wire' = SubSeq(wire, n + 1, Len(wire))
      /\ UNCHANGED <<device, limit, pc, task, platform, sent, adrift>>
  BY DEF Arrives
<1>2. n \in Nat \ {0} /\ n <= Len(wire) /\ wire # <<>>
  <2>1. wire = <<>> => Len(wire) = 0
    OBVIOUS
  <2> QED
    BY <2>1, LinesAre
<1> SUFFICES ASSUME ~adrift, Working, Answering, pc \in {"looking", "seen"}
             PROVE  Answering'
  BY <1>1, <1>2 DEF Flow, Working, Silent
<1>3. PICK pages \in BOOLEAN : Follows(Output(sent, Said, pages))
  BY DEF Answering
<1>14. PICK all : all = Output(sent, Said, pages)
  OBVIOUS
<1> DEFINE h == SubSeq(wire, 1, n)
<1>4. Len(all) \in Nat
  BY <1>14, SaidIs, OutputSays
<1>5. h \in Seq(Spoken)
  BY <1>2, LinesAre
<1>6. Follows(all)
  BY <1>3, <1>14
<1>15. PICK e : e = Len(all) - Len(device.out)
  OBVIOUS
<1>7. /\ EndsWith(wire, all, e) /\ EndsWith(buf, all, e - Len(wire))
      /\ ~overflow => Len(buf) = e - Len(wire)
      /\ EndsWith(device.out, all, Len(all)) /\ e \in Nat
  BY <1>4, <1>6, <1>15, LinesAre DEF Follows, EndsWith
<1>8. Len(h) = n
  BY <1>2, LinesAre
<1>9. /\ buf' \in Seq(Spoken) /\ (~overflow' => Len(buf') = Len(buf) + n)
      /\ overflow' => limit > 0
      /\ overflow /\ limit > 0 => overflow'
      /\ EndsWith(buf', buf \o h, Len(buf) + n)
  <2>1. h \in Seq(Spoken) /\ Len(h) = n /\ Appended(h)
    BY <1>1, <1>5, <1>8
  <2> HIDE DEF h
  <2>2. /\ buf' \in Seq(Spoken) /\ (~overflow' => Len(buf') = Len(buf) + Len(h))
        /\ overflow' => limit > 0
        /\ overflow /\ limit > 0 => overflow'
        /\ EndsWith(buf', buf \o h, Len(buf) + Len(h))
    BY <2>1, LinesAre, AppendedTail
  <2> QED
    BY <2>1, <2>2
<1>10. /\ EndsWith(wire', all, e) /\ Len(wire') = Len(wire) - n
       /\ EndsWith(buf', all, e - (Len(wire) - n))
  BY <1>1, <1>7, <1>9, LinesAre, SomeArrive
<1>11. ~overflow' => Len(buf') = e - Len(wire')
  <2> SUFFICES ASSUME ~overflow' PROVE Len(buf') = e - Len(wire')
    OBVIOUS
  <2>1. ~overflow
    <3>1. overflow => limit > 0
      BY DEF Answering
    <3> QED
      BY <1>9, <3>1, LinesAre
  <2>2. Len(buf') = Len(buf) + n /\ Len(buf) = e - Len(wire)
    BY <1>7, <1>9, <2>1
  <2>3. Len(wire') = Len(wire) - n /\ n \in Nat /\ e \in Nat /\ Len(wire) \in Nat /\ Len(buf) \in Nat
    BY <1>2, <1>7, <1>10, LinesAre
  <2> QED
    BY <2>2, <2>3
<1>12. Follows(all)'
  <2>1. EndsWith(buf', all, e - Len(wire'))
    BY <1>10
  <2> QED
    BY <1>1, <1>6, <1>7, <1>10, <1>11, <1>15, <2>1 DEF Follows
<1>13. UNCHANGED <<Said, OnlyKeys, CommandOf(task)>>
  BY <1>1 DEF Said, OnlyKeys, CommandOf
<1>16. all = Output(sent, Said, pages)'
  BY <1>1, <1>13, <1>14
<1>17. \E shown \in BOOLEAN : Follows(Output(sent, Said, shown))'
  BY <1>12, <1>16
<1> QED
  BY <1>1, <1>9, <1>13, <1>17 DEF Answering

LEMMA EmptySeq ==
    ASSUME NEW S, NEW s \in Seq(S), Len(s) = 0
    PROVE  s = <<>>
OBVIOUS

LEMMA Subtract ==
    ASSUME NEW m \in Nat, NEW o \in Nat, NEW w \in Nat
    PROVE  /\ m - o \in Int /\ m - o - w \in Int /\ m - o - w <= m
           /\ m - o - w = m => o = 0 /\ w = 0 /\ m - o = m
OBVIOUS

LEMMA TopOf ==
    ASSUME NEW m \in Int, NEW f \in Int, f >= 1, f <= m, f \notin 1..(m - 1)
    PROVE  f = m
OBVIOUS

\* A prompt in the buffer is the end of the answer, and nothing follows it.
LEMMA PromptIsLast ==
    ASSUME IInv, Flow, ~adrift, pc = "looking", EndsAt(buf, "prompt")
    PROVE  /\ wire = <<>> /\ device.out = <<>> /\ ~device.atMore /\ OnlyKeys
           /\ ~overflow => \E pages \in BOOLEAN : buf = Output(sent, Said, pages)
           /\ task.at # "banner" /\ CommandOf(task) \in Quiets => ~device.pages
<1>1. Working /\ Answering /\ buf # <<>>
  BY DEF IInv, CommandType, Working, Flow, EndsAt, Silent
<1>2. PICK pages \in BOOLEAN : Follows(Output(sent, Said, pages))
  BY <1>1 DEF Answering
<1>3. PICK all : all = Output(sent, Said, pages)
  OBVIOUS
<1>4. /\ Len(all) \in Nat \ {0} /\ all = [i \in 1..Len(all) |-> all[i]]
      /\ all[Len(all)].text = "prompt"
      /\ \A i \in 1..(Len(all) - 1) : all[i].text # "prompt"
  BY <1>1, <1>3, SaidIs, OutputSays
<1>5. PICK e, f : e = Len(all) - Len(device.out) /\ f = e - Len(wire)
  OBVIOUS
<1>6. /\ EndsWith(device.out, all, Len(all)) /\ EndsWith(wire, all, e) /\ EndsWith(buf, all, f)
      /\ ~overflow => Len(buf) = f
      /\ device.atMore => all[e].text = "more"
  BY <1>2, <1>3, <1>5 DEF Follows
<1>7. Len(buf) \in Nat \ {0} /\ Len(wire) \in Nat /\ Len(device.out) \in Nat
  BY <1>1, LinesAre
<1>8. e \in Int /\ f \in Int /\ f <= Len(all) /\ Len(buf) <= f
  <2>1. Len(all) \in Nat
    BY <1>4
  <2>2. e \in Int /\ f \in Int /\ f <= Len(all)
    BY <1>5, <1>7, <2>1, Subtract
  <2>3. Len(buf) <= f
    BY <1>6 DEF EndsWith
  <2> QED
    BY <2>2, <2>3
<1>9. buf[Len(buf)] = all[f]
  <2>1. buf[Len(buf)] = all[f - Len(buf) + Len(buf)]
    BY <1>6, <1>7 DEF EndsWith
  <2>2. f - Len(buf) + Len(buf) = f
    BY <1>7, <1>8
  <2> QED
    BY <2>1, <2>2
<1>10. f = Len(all)
  <2>1. all[f].text = "prompt"
    BY <1>9 DEF EndsAt
  <2>2. f \notin 1..(Len(all) - 1)
    BY <1>4, <2>1
  <2>3. f \in Int /\ f >= 1 /\ f <= Len(all) /\ Len(all) \in Int
    <3>1. PICK b \in Nat \ {0} : b = Len(buf)
      BY <1>7
    <3>2. b <= f /\ f \in Int
      BY <1>8, <3>1
    <3>3. f >= 1
      BY <3>2
    <3>4. Len(all) \in Int
      BY <1>4
    <3> QED
      BY <1>8, <3>3, <3>4
  <2> QED
    BY <2>2, <2>3, TopOf
<1>11. Len(wire) = 0 /\ Len(device.out) = 0 /\ e = Len(all)
  <2>1. PICK m \in Nat : m = Len(all)
    BY <1>4
  <2>2. PICK o \in Nat, w \in Nat : o = Len(device.out) /\ w = Len(wire)
    BY <1>7
  <2>3. e = m - o /\ m - o - w = m
    BY <1>5, <1>10, <2>1, <2>2
  <2>4. o = 0 /\ w = 0 /\ m - o = m
    BY <2>3, Subtract
  <2> QED
    BY <2>1, <2>2, <2>3, <2>4
<1>12. wire = <<>> /\ device.out = <<>>
  BY <1>11, LinesAre, EmptySeq
<1>13. ~device.atMore
  BY <1>4, <1>6, <1>11
<1>14. ASSUME ~overflow
       PROVE  buf = all
  <2>1. Len(buf) = Len(all)
    BY <1>6, <1>10, <1>14
  <2>2. \A i \in 1..Len(buf) : buf[i] = all[i]
    <3> SUFFICES ASSUME NEW i \in 1..Len(buf) PROVE buf[i] = all[i]
      OBVIOUS
    <3>1. buf[i] = all[f - Len(buf) + i]
      BY <1>6 DEF EndsWith
    <3>2. f - Len(buf) + i = i
      BY <1>4, <1>10, <2>1
    <3> QED
      BY <3>1, <3>2
  <2>3. buf = [i \in 1..Len(buf) |-> buf[i]]
    BY LinesAre
  <2> QED
    BY <1>4, <2>1, <2>2, <2>3
<1> QED
  BY <1>1, <1>3, <1>12, <1>13, <1>14 DEF Answering

LEMMA CompleteFlow == ASSUME IInv, Flow, Complete PROVE Flow'
<1>1. /\ pc = "looking" /\ EndsAt(buf, "prompt") /\ buf' = <<>> /\ pc' = "idle"
      /\ UNCHANGED <<device, wire, adrift>>
  BY DEF Complete, Ends
<1>2. ~adrift => Silent' /\ OnlyKeys'
  BY <1>1, PromptIsLast DEF Silent, OnlyKeys
<1> QED
  BY <1>1, <1>2 DEF Flow

LEMMA BeginFlow == ASSUME IInv, Flow, Begin \/ SetLimit PROVE Flow'
<1>1. /\ pc \in {"idle", "bounding"} /\ pc' \in {"bounding", "sending"}
      /\ UNCHANGED <<device, wire, buf, task, platform, sent, adrift>>
      /\ overflow' = FALSE \/ (pc = "bounding" /\ overflow' = overflow)
  BY DEF Begin, SetLimit
<1>2. UNCHANGED <<Silent, OnlyKeys, Working>>
  BY <1>1 DEF Silent, OnlyKeys, Working
<1> QED
  BY <1>1, <1>2 DEF Flow

LEMMA AppendIs ==
    ASSUME NEW S, NEW s \in Seq(S), NEW x \in S
    PROVE  /\ DOMAIN Append(s, x) = DOMAIN s \cup {Len(s) + 1} /\ Len(s) + 1 \notin DOMAIN s
           /\ \A i \in DOMAIN s : Append(s, x)[i] = s[i]
           /\ Append(s, x)[Len(s) + 1] = x
OBVIOUS

LEMMA SendFlow == ASSUME IInv, Flow, Send PROVE Flow'
<1> DEFINE m == [n |-> sent', cmd |-> CommandOf(task)]
<1>1. /\ pc = "sending" /\ pc' = "looking" /\ sent' = sent + 1
      /\ device' = [device EXCEPT !.in = Append(@, m)]
      /\ UNCHANGED <<wire, buf, overflow, limit, task, platform, adrift>>
  BY DEF Send, shell
<1> SUFFICES ASSUME ~adrift, Working PROVE Silent' /\ Asked'
  BY <1>1 DEF Flow, Working
<1>2. Silent /\ OnlyKeys /\ ~overflow
  BY <1>1 DEF Flow
<1>3. /\ device'.in = Append(device.in, m) /\ device'.out = device.out
      /\ device'.atMore = device.atMore
  BY <1>1, LinesAre
<1>4. task.at # "banner" /\ m \in Input
  <2>1. task.at # "banner"
    BY <1>1 DEF IInv, CommandType
  <2>2. CommandOf(task) \in Commands \cup {NoCommand} /\ sent' \in Nat
    BY <1>1, CommandIs DEF IInv, CommandType
  <2> QED
    BY <2>1, <2>2 DEF Input
<1>5. m.n = sent' /\ m.cmd = CommandOf(task) /\ CommandOf(task)' = CommandOf(task)
  BY <1>1 DEF CommandOf
<1>9. PICK x \in Input : x = m
  BY <1>4
<1> HIDE DEF m
<1>6. LET k == Len(device.in) + 1
      IN  /\ k \in DOMAIN device'.in /\ device'.in[k] = x
          /\ \A i \in DOMAIN device'.in : i # k => i \in DOMAIN device.in /\ device'.in[i] = device.in[i]
  BY <1>3, <1>9, LinesAre, AppendIs
<1>7. Asked'
  BY <1>1, <1>2, <1>4, <1>5, <1>6, <1>9 DEF Asked, OnlyKeys
<1>8. Silent'
  BY <1>1, <1>2, <1>3 DEF Silent
<1> QED
  BY <1>7, <1>8

LEMMA AcknowledgeFlow == ASSUME IInv, Flow, Acknowledge PROVE Flow'
<1>1. /\ pc = "seen" /\ device' = [device EXCEPT !.in = Append(@, Key)]
      /\ UNCHANGED <<wire, buf, overflow, limit, pc, task, platform, sent, adrift>>
  BY DEF Acknowledge, shell
<1>2. /\ device'.in = Append(device.in, Key) /\ device'.out = device.out
      /\ device'.atMore = device.atMore /\ device'.pages = device.pages
  BY <1>1, LinesAre
<1>3. Key \in Input /\ Key.cmd = NoCommand
  BY DEF Key, Input
<1>4. /\ DOMAIN device'.in = DOMAIN device.in \cup {Len(device.in) + 1}
      /\ \A i \in DOMAIN device.in : device'.in[i] = device.in[i]
      /\ device'.in[Len(device.in) + 1] = Key
      /\ Len(device.in) + 1 \notin DOMAIN device.in
  BY <1>2, <1>3, LinesAre, AppendIs
<1>5. UNCHANGED <<Said, CommandOf(task), Working>>
  BY <1>1 DEF Said, CommandOf, Working
<1>6. OnlyKeys => OnlyKeys'
  BY <1>3, <1>4 DEF OnlyKeys
<1>7. Silent => Silent'
  BY <1>1, <1>2 DEF Silent
<1>8. Asked => Asked'
  <2> SUFFICES ASSUME Asked PROVE Asked'
    OBVIOUS
  <2>1. PICK k \in DOMAIN device.in :
        /\ device.in[k].n = sent /\ device.in[k].cmd = CommandOf(task)
        /\ \A i \in DOMAIN device.in : i # k => device.in[i].cmd = NoCommand
    BY DEF Asked
  <2>2. k \in DOMAIN device'.in /\ device'.in[k] = device.in[k]
        /\ \A i \in DOMAIN device'.in : i # k => device'.in[i].cmd = NoCommand
    BY <1>3, <1>4, <2>1
  <2> QED
    BY <1>1, <1>5, <2>1, <2>2 DEF Asked
<1>9. Answering => Answering'
  <2>1. \A all : Follows(all) => Follows(all)'
    BY <1>1, <1>2 DEF Follows, EndsWith
  <2> QED
    BY <1>1, <1>2, <1>5, <1>6, <2>1 DEF Answering
<1> QED
  BY <1>1, <1>5, <1>7, <1>8, <1>9 DEF Flow

LEMMA EndedFlow == ASSUME IInv, Flow, NotBegun \/ SendFails \/ HungUp \/ GivesUp PROVE Flow'
<1>1. CASE NotBegun \/ SendFails
  <2>1. /\ pc \in {"idle", "sending"} /\ pc' = "idle"
        /\ UNCHANGED <<device, wire, buf, adrift>>
    BY <1>1 DEF NotBegun, SendFails, Ends, shell
  <2>2. CASE ~Working
    <3>1. pc = "idle" /\ NotBegun
      BY <1>1, <2>2 DEF SendFails, Working, IInv, CommandType
    <3> QED
      BY <2>2, <3>1 DEF NotBegun
  <2>3. CASE Working
    BY <2>1, <2>3 DEF Flow, Silent, OnlyKeys
  <2> QED
    BY <2>2, <2>3
<1>2. CASE HungUp \/ GivesUp
  BY <1>2 DEF HungUp, GivesUp, Flow
<1> QED
  BY <1>1, <1>2

LEMMA NextFlow == ASSUME IInv, Flow, [Next]_vars PROVE Flow'
<1>1. CASE DeviceEmits \/ DeviceTakes
  BY <1>1, EmitsFlow, TakesFlow
<1>2. CASE DeviceHangsUp
  <2>1. device' = [device EXCEPT !.up = FALSE]
    BY <1>2 DEF DeviceHangsUp
  <2>2. /\ device'.in = device.in /\ device'.out = device.out /\ device'.atMore = device.atMore
        /\ device'.pages = device.pages
    BY <2>1, LinesAre
  <2> QED
    BY <1>2, <2>2, FlowStill DEF DeviceHangsUp, shell
<1>3. ASSUME NEW n \in 1..Len(wire), Arrives(n) PROVE Flow'
  BY <1>3, ArrivesFlow
<1>4. ASSUME NEW r \in Readers, StreamEnds(r) \/ Tells(r) PROVE Flow'
  BY <1>4, FlowStill DEF StreamEnds, Tells, shell
<1>5. CASE Begin \/ SetLimit
  BY <1>5, BeginFlow
<1>6. CASE NotBegun \/ SendFails \/ HungUp \/ GivesUp
  BY <1>6, EndedFlow
<1>7. CASE Send \/ Complete \/ Acknowledge
  BY <1>7, SendFlow, CompleteFlow, AcknowledgeFlow
<1>8. CASE LookAgain \/ Woken
  <2>1. /\ pc \in {"looking", "seen"} /\ pc' \in {"looking", "seen"}
        /\ UNCHANGED <<device, wire, buf, overflow, limit, task, platform, sent, adrift>>
    BY <1>8 DEF LookAgain, Woken, Waiting, shell
  <2> QED
    BY <2>1, FlowStill
<1>9. CASE Close \/ Cancel \/ UNCHANGED vars
  BY <1>9, FlowStill DEF Close, Cancel, vars, shell
<1> QED
  BY <1>1, <1>2, <1>3, <1>4, <1>5, <1>6, <1>7, <1>8, <1>9 DEF Next, Device, Reading, Collecting

-----------------------------------------------------------------------------
(* What is made of the answers *)

\* What the fingerprint has found so far.
Probing ==
    /\ task.at \in {"banner", "disable", "paging", "version"} => platform = "none" /\ ~adrift
    /\ task.at = "banner" => sent = 0
    /\ task.at \in {"paging", "version"} => \A j \in 1..(task.i - 1) : Matching(j) = {}
    /\ task.at = "version" =>
        /\ Takes(Probes[task.i].paging)
        /\ Probes[task.i].paging \in Quiets => ~device.pages

TInv == Flow /\ Probing /\ FingerprintIsTrue /\ AnswersAreOwnUntilGivenUp

\* Nothing a device adds to its lines is taken for a refusal or a platform.
LEMMA AnswerIs ==
    ASSUME NEW n \in Nat, NEW c \in Commands, NEW pages \in BOOLEAN,
           NEW lines, lines = Output(n, Reply[c], pages)
    PROVE  /\ Refused(lines) <=> ~Takes(c)
           /\ \A i \in DOMAIN Probes :
                Classified(i, lines) = {Reply[c][k] : k \in DOMAIN Reply[c]} \cap Probes[i].names
<1>1. PICK said \in Seq(STRING) : said = Reply[c]
  BY SessionAssumption
<1>2. PICK m \in Nat \ {0} :
        /\ DOMAIN lines = 1..m /\ lines[m].text = "prompt"
        /\ \A i \in 1..(m - 1) :
              lines[i].text = "more" \/ \E k \in DOMAIN said : lines[i].text = said[k]
        /\ \A k \in DOMAIN said : \E i \in 1..m : lines[i].text = said[k]
  <2>1. lines = Output(n, said, pages)
    BY <1>1
  <2>2. PICK m \in Nat \ {0} : m = Len(lines)
    BY <2>1, OutputSays
  <2>3. /\ DOMAIN lines = 1..m /\ lines[m].text = "prompt"
        /\ \A i \in 1..(m - 1) :
              lines[i].text = "more" \/ \E k \in DOMAIN said : lines[i].text = said[k]
        /\ \A k \in DOMAIN said : \E i \in 1..m : lines[i].text = said[k]
    BY <2>1, <2>2, OutputSays
  <2> QED
    BY <2>3
<1>3. ASSUME NEW i \in DOMAIN lines
      PROVE  lines[i].text \in {"prompt", "more"} \/ \E k \in DOMAIN said : lines[i].text = said[k]
  <2>1. i \in 1..m
    BY <1>2
  <2>2. i = m \/ i \in 1..(m - 1)
    BY <2>1, TopOf
  <2> QED
    BY <1>2, <2>2
<1>4. \A k \in DOMAIN said : \E i \in DOMAIN lines : lines[i].text = said[k]
  BY <1>2
<1>5. c # NoCommand
  BY SessionAssumption
<1>6. Refused(lines) <=> \E k \in DOMAIN said : said[k] = "error"
  BY <1>3, <1>4 DEF Refused
<1>7. Refused(lines) <=> ~Takes(c)
  BY <1>1, <1>5, <1>6 DEF Takes
<1>8. ASSUME NEW i \in DOMAIN Probes
      PROVE  Classified(i, lines) = {said[k] : k \in DOMAIN said} \cap Probes[i].names
  <2>1. \A x \in Probes[i].names : x \notin {"prompt", "more"}
    BY LinesAssumption
  <2> QED
    BY <1>3, <1>4, <2>1 DEF Classified
<1> QED
  BY <1>1, <1>7, <1>8

\* Paging is turned off, never on.
LEMMA KeepsFingerprint ==
    ASSUME FingerprintIsTrue, platform' = platform, device'.pages => device.pages
    PROVE  FingerprintIsTrue'
BY DEF FingerprintIsTrue, Matching, Takes

\* Steps that end no command.
LEMMA KeepsAnswers ==
    ASSUME Probing, FingerprintIsTrue, AnswersAreOwnUntilGivenUp,
           UNCHANGED <<task, platform, last, adrift>>,
           sent' = sent \/ task.at # "banner", device'.pages => device.pages
    PROVE  Probing' /\ FingerprintIsTrue' /\ AnswersAreOwnUntilGivenUp'
<1>1. FingerprintIsTrue'
  BY KeepsFingerprint
<1>2. Probing'
  <2>1. /\ \A i : Matching(i)' = Matching(i)
        /\ \A c : Takes(c)' = Takes(c)
    BY DEF Matching, Takes
  <2>2. task.at = "banner" => sent' = sent
    OBVIOUS
  <2> QED
    BY <2>1, <2>2 DEF Probing
<1>3. AnswersAreOwnUntilGivenUp'
  BY DEF AnswersAreOwnUntilGivenUp, AnswersAreOwn
<1> QED
  BY <1>1, <1>2, <1>3

\* A command that fails ends the fingerprint, and the answers are of others.
LEMMA FailsAnswers ==
    ASSUME IInv, Probing, FingerprintIsTrue, NEW how, how # "ok", NEW lines, Working,
           Ends(how, lines), device' = device
    PROVE  Probing' /\ FingerprintIsTrue' /\ AnswersAreOwnUntilGivenUp'
<1>1. /\ last' = [n |-> sent, cmd |-> CommandOf(task), how |-> how, lines |-> lines]
      /\ task' = After(how, lines)
      /\ platform' = IF task.at \in {"paging", "version"} /\ task'.at \in {"step", "done"}
                     THEN Found(how, lines) ELSE platform
  BY DEF Ends
<1>2. task.at \in Ats
  BY DEF IInv, CommandType, Doable
<1>6. task.at \in {"banner", "disable", "paging", "version", "step"}
  BY <1>2 DEF Working, Ats
<1>3. AnswersAreOwnUntilGivenUp'
  BY <1>1 DEF AnswersAreOwnUntilGivenUp, AnswersAreOwn
<1>4. task.at \in {"banner", "disable", "paging", "version"} => task'.at = "failed"
  BY <1>1 DEF After, AfterProbe, Failed, At
<1>5. CASE task.at \in {"banner", "disable", "paging", "version"}
  <2>1. platform' = platform
    BY <1>1, <1>4, <1>5
  <2> QED
    BY <1>3, <1>4, <1>5, <2>1, KeepsFingerprint DEF Probing
<1>7. CASE task.at = "step"
  <2>1. task' = AfterStep(how)
    BY <1>1, <1>7 DEF After
  <2>2. task'.at \in {"step", "done", "failed"}
    BY <2>1 DEF AfterStep, Step, Failed, At
  <2>3. platform' = platform
    BY <1>1, <1>7
  <2> QED
    BY <1>3, <2>2, <2>3, KeepsFingerprint DEF Probing
<1> QED
  BY <1>3, <1>5, <1>6, <1>7

\* The next probe's turn, when the device is none of those before it.
LEMMA NextProbe ==
    ASSUME NEW i \in Nat \ {0}, \A j \in 1..(i - 1) : Matching(j) = {},
           task' = Probe(i), ~adrift',
           platform' = IF task'.at \in {"step", "done"} THEN "unknown" ELSE "none"
    PROVE  Probing' /\ FingerprintIsTrue'
<1>1. Len(Probes) \in Nat \ {0} /\ DOMAIN Probes = 1..Len(Probes)
  BY SessionAssumption, FirstProbe
<1>2. CASE i > Len(Probes)
  <2>1. task'.at \in {"step", "done"}
    BY <1>2 DEF Probe, Step, At
  <2>2. platform' = "unknown"
    BY <2>1
  <2>3. DOMAIN Probes \subseteq 1..(i - 1)
    BY <1>1, <1>2
  <2>4. \A j \in DOMAIN Probes : Matching(j) = {}
    BY <2>3
  <2>5. FingerprintIsTrue'
    BY <2>2, <2>4 DEF FingerprintIsTrue
  <2> QED
    BY <2>1, <2>5 DEF Probing
<1>3. CASE ~(i > Len(Probes))
  <2>1. task' = IF Probes[i].paging = NoCommand THEN At("version", i) ELSE At("paging", i)
    BY <1>3 DEF Probe
  <2>2. task'.at \in {"version", "paging"} /\ task'.i = i
        /\ (task'.at = "version" => Probes[i].paging = NoCommand)
    BY <2>1 DEF At
  <2>3. platform' = "none"
    BY <2>2
  <2>4. Takes(NoCommand) /\ NoCommand \notin Quiets
    BY SessionAssumption DEF Takes
  <2>5. Probing'
    BY <2>2, <2>3, <2>4 DEF Probing
  <2> QED
    BY <2>3, <2>5 DEF FingerprintIsTrue
<1> QED
  BY <1>2, <1>3

\* A probe is answered: the command that ended says what it was asked.
LEMMA ProbeAnswered ==
    ASSUME IInv, Probing, task.at \in {"paging", "version"}, NEW lines,
           NEW pages \in BOOLEAN, lines = Output(sent, Reply[CommandOf(task)], pages),
           CommandOf(task) \in Quiets => ~device.pages,
           Ends("ok", lines), device' = device, adrift' = adrift
    PROVE  Probing' /\ FingerprintIsTrue'
<1>1. PICK i : i = task.i
  OBVIOUS
<1>2. i \in DOMAIN Probes /\ i \in Nat \ {0} /\ sent \in Nat /\ CommandOf(task) \in Commands
      /\ ~adrift /\ platform = "none" /\ \A j \in 1..(i - 1) : Matching(j) = {}
  <2>1. i \in DOMAIN Probes /\ sent \in Nat
    BY <1>1 DEF IInv, CommandType, Doable
  <2>2. CommandOf(task) \in Commands
    BY CommandIs DEF IInv, CommandType, Doable
  <2>3. DOMAIN Probes = 1..Len(Probes) /\ Len(Probes) \in Nat
    BY SessionAssumption
  <2>4. i \in Nat \ {0}
    BY <2>1, <2>3
  <2> QED
    BY <1>1, <2>1, <2>2, <2>4 DEF Probing
<1>3. /\ task' = AfterProbe("ok", lines)
      /\ platform' = IF task'.at \in {"step", "done"} THEN Found("ok", lines) ELSE "none"
  BY <1>2 DEF Ends, After
<1>4. /\ Refused(lines) <=> ~Takes(CommandOf(task))
      /\ \A k \in DOMAIN Probes :
           Classified(k, lines) = {Reply[CommandOf(task)][x] : x \in DOMAIN Reply[CommandOf(task)]}
                                    \cap Probes[k].names
  BY <1>2, AnswerIs
<1>5. CASE task.at = "paging"
  <2>1. CommandOf(task) = Probes[i].paging /\ Found("ok", lines) = "unknown"
    BY <1>1, <1>5 DEF CommandOf, Found
  <2>2. CASE Takes(Probes[i].paging)
    <3>1. task' = At("version", i)
      BY <1>1, <1>3, <1>4, <1>5, <2>1, <2>2 DEF AfterProbe
    <3>2. task'.at = "version" /\ task'.i = i
      BY <3>1 DEF At
    <3>3. platform' = "none"
      BY <1>3, <3>2
    <3> QED
      BY <1>2, <2>1, <2>2, <3>2, <3>3 DEF Probing, FingerprintIsTrue
  <2>3. CASE ~Takes(Probes[i].paging)
    <3>1. task' = Probe(i + 1)
      BY <1>1, <1>3, <1>4, <1>5, <2>1, <2>3 DEF AfterProbe
    <3>2. Matching(i) = {}
      BY <2>3 DEF Matching
    <3>3. \A j \in 1..(i + 1 - 1) : Matching(j) = {}
      BY <1>2, <3>2
    <3>4. i + 1 \in Nat \ {0}
      BY <1>2
    <3> QED
      BY <1>2, <1>3, <2>1, <3>1, <3>3, <3>4, NextProbe
  <2> QED
    BY <2>2, <2>3
<1>6. CASE task.at = "version"
  <2>1. /\ CommandOf(task) = Probes[i].version /\ Takes(Probes[i].paging)
        /\ Probes[i].paging \in Quiets => ~device.pages
    BY <1>1, <1>6 DEF CommandOf, Probing
  <2>2. ~Refused(lines) /\ Classified(i, lines) # {} <=> Matching(i) # {}
    BY <1>2, <1>4, <2>1 DEF Matching
  <2>3. Classified(i, lines) = Matching(i) \/ Matching(i) = {}
    BY <1>2, <1>4, <2>1 DEF Matching
  <2>4. CASE Matching(i) # {}
    <3>1. PICK p : p = Found("ok", lines)
      OBVIOUS
    <3>2. p \in Matching(i)
      BY <1>1, <1>6, <2>2, <2>3, <2>4, <3>1 DEF Found
    <3>3. p # "unknown"
      BY <1>2, <3>2, LinesAssumption DEF Matching
    <3>4. task' = Step(p, 1)
      BY <1>3, <3>1, <3>3 DEF AfterProbe
    <3>5. task'.at \in {"step", "done"}
      BY <3>4 DEF Step, At
    <3>6. platform' = p
      BY <1>3, <3>1, <3>5
    <3>7. FingerprintIsTrue'
      BY <1>2, <2>1, <2>4, <3>2, <3>6 DEF FingerprintIsTrue
    <3> QED
      BY <3>5, <3>7 DEF Probing
  <2>5. CASE Matching(i) = {}
    <3>1. Found("ok", lines) = "unknown"
      BY <1>1, <2>2, <2>5 DEF Found
    <3>2. task' = Probe(i + 1)
      BY <1>1, <1>3, <1>6, <3>1 DEF AfterProbe
    <3>3. \A j \in 1..(i + 1 - 1) : Matching(j) = {}
      BY <1>2, <2>5
    <3>4. i + 1 \in Nat \ {0}
      BY <1>2
    <3> QED
      BY <1>2, <1>3, <3>1, <3>2, <3>3, <3>4, NextProbe
  <2> QED
    BY <2>4, <2>5
<1> QED
  BY <1>5, <1>6

\* What a command returns is what the device said to it.
LEMMA CompletesOwn ==
    ASSUME IInv, Flow, Probing, Complete
    PROVE  AnswersAreOwnUntilGivenUp'
<1>1. /\ pc = "looking" /\ EndsAt(buf, "prompt") /\ adrift' = adrift
      /\ last' = [n |-> sent, cmd |-> CommandOf(task), how |-> IF overflow THEN "toolarge" ELSE "ok",
                  lines |-> IF overflow THEN <<>> ELSE buf]
  BY DEF Complete, Ends
<1> SUFFICES ASSUME ~adrift, ~overflow, sent > 0
             PROVE  Whole(sent, CommandOf(task), buf)
  BY <1>1 DEF AnswersAreOwnUntilGivenUp, AnswersAreOwn
<1>2. \E pages \in BOOLEAN : buf = Output(sent, Said, pages)
  BY <1>1, PromptIsLast
<1>3. task.at # "banner"
  BY DEF Probing
<1> QED
  BY <1>2, <1>3 DEF Whole, Said

LEMMA CompletesTrue ==
    ASSUME IInv, Flow, Probing, FingerprintIsTrue, Complete
    PROVE  Probing' /\ FingerprintIsTrue'
<1>1. pc = "looking" /\ EndsAt(buf, "prompt") /\ device' = device /\ adrift' = adrift
  BY DEF Complete
<1>2. task.at \in {"banner", "disable", "paging", "version", "step"} /\ Working
  BY <1>1 DEF IInv, CommandType, Doable, Ats, Working
<1>3. CASE overflow
  <2>1. Ends("toolarge", <<>>)
    BY <1>3 DEF Complete
  <2>2. "toolarge" # "ok"
    OBVIOUS
  <2> QED
    BY <1>1, <1>2, <2>1, <2>2, FailsAnswers
<1>4. CASE ~overflow
  <2>1. Ends("ok", buf)
    BY <1>4 DEF Complete
  <2>2. /\ task' = After("ok", buf)
        /\ platform' = IF task.at \in {"paging", "version"} /\ task'.at \in {"step", "done"}
                       THEN Found("ok", buf) ELSE platform
    BY <2>1 DEF Ends
  <2>3. CASE task.at \in {"paging", "version"}
    <3>1. ~adrift /\ task.at # "banner"
      BY <2>3 DEF Probing
    <3>2. PICK pages \in BOOLEAN : buf = Output(sent, Said, pages)
      BY <1>1, <1>4, <3>1, PromptIsLast
    <3>3. buf = Output(sent, Reply[CommandOf(task)], pages)
      BY <3>1, <3>2 DEF Said
    <3>4. CommandOf(task) \in Quiets => ~device.pages
      BY <1>1, <3>1, PromptIsLast
    <3> QED
      BY <1>1, <2>1, <2>3, <3>3, <3>4, ProbeAnswered
  <2>4. CASE task.at \in {"banner", "disable"}
    <3>1. platform = "none" /\ platform' = "none" /\ ~adrift'
      BY <1>1, <2>2, <2>4 DEF Probing
    <3>2. task' = At("disable", 0) \/ task' = Probe(1)
      BY <2>2, <2>4 DEF After
    <3>3. CASE task' = At("disable", 0)
      BY <3>1, <3>3 DEF Probing, FingerprintIsTrue, At
    <3>4. CASE task' = Probe(1)
      <4>1. ~(1 > Len(Probes))
        BY FirstProbe, SessionAssumption
      <4>2. task'.at \notin {"step", "done"}
        BY <3>4, <4>1 DEF Probe, At
      <4>3. \A j \in 1..(1 - 1) : Matching(j) = {}
        OBVIOUS
      <4> QED
        BY <3>1, <3>4, <4>2, <4>3, NextProbe
    <3> QED
      BY <3>2, <3>3, <3>4
  <2>5. CASE task.at = "step"
    <3>1. task' = Step(platform, task.i + 1)
      BY <2>2, <2>5 DEF After, AfterStep
    <3>2. task'.at \in {"step", "done"} /\ platform' = platform
      BY <2>2, <2>5, <3>1 DEF Step, At
    <3>3. device'.pages => device.pages
      BY <1>1
    <3> QED
      BY <3>2, <3>3, KeepsFingerprint DEF Probing
  <2> QED
    BY <1>2, <2>3, <2>4, <2>5
<1> QED
  BY <1>3, <1>4

LEMMA NextAnswers ==
    ASSUME IInv, TInv, [Next]_vars
    PROVE  Probing' /\ FingerprintIsTrue' /\ AnswersAreOwnUntilGivenUp'
<1> USE DEF TInv
<1>1. ASSUME UNCHANGED <<device, task, platform, last, adrift>>,
             sent' = sent \/ task.at # "banner"
      PROVE  Probing' /\ FingerprintIsTrue' /\ AnswersAreOwnUntilGivenUp'
  BY <1>1, KeepsAnswers
<1>2. ASSUME UNCHANGED <<task, platform, last, adrift, sent>>, device'.pages => device.pages
      PROVE  Probing' /\ FingerprintIsTrue' /\ AnswersAreOwnUntilGivenUp'
  BY <1>2, KeepsAnswers
<1>3. CASE DeviceEmits \/ DeviceHangsUp
  <2>1. device'.pages = device.pages
    BY <1>3, LinesAre DEF DeviceEmits, DeviceHangsUp
  <2> QED
    BY <1>2, <1>3, <2>1 DEF DeviceEmits, DeviceHangsUp
<1>4. CASE DeviceTakes
  <2>1. \E b \in BOOLEAN : \E out, in :
          \/ device' = [device EXCEPT !.in = in, !.atMore = FALSE]
          \/ device' = [device EXCEPT !.in = in, !.pages = device.pages /\ b, !.out = out]
    BY <1>4 DEF DeviceTakes
  <2>2. device'.pages => device.pages
    BY <2>1, LinesAre
  <2> QED
    BY <1>2, <1>4, <2>2 DEF DeviceTakes
<1>5. ASSUME NEW n \in 1..Len(wire), Arrives(n)
      PROVE  Probing' /\ FingerprintIsTrue' /\ AnswersAreOwnUntilGivenUp'
  BY <1>1, <1>5 DEF Arrives
<1>6. ASSUME NEW r \in Readers, StreamEnds(r) \/ Tells(r)
      PROVE  Probing' /\ FingerprintIsTrue' /\ AnswersAreOwnUntilGivenUp'
  BY <1>1, <1>6 DEF StreamEnds, Tells
<1>7. CASE Begin \/ SetLimit \/ LookAgain \/ Woken \/ Close \/ Cancel \/ UNCHANGED vars
  BY <1>1, <1>7 DEF Begin, SetLimit, LookAgain, Woken, Close, Cancel, vars
<1>8. CASE Send
  <2>1. task.at # "banner"
    BY <1>8 DEF Send, IInv, CommandType
  <2>2. device'.pages = device.pages
    BY <1>8, LinesAre DEF Send
  <2> QED
    BY <1>8, <2>1, <2>2, KeepsAnswers DEF Send
<1>9. CASE Acknowledge
  <2>1. device'.pages = device.pages
    BY <1>9, LinesAre DEF Acknowledge
  <2> QED
    BY <1>2, <1>9, <2>1 DEF Acknowledge
<1>10. CASE Complete
  BY <1>10, CompletesOwn, CompletesTrue
<1>11. CASE NotBegun \/ SendFails \/ HungUp \/ GivesUp
  <2>1. Working /\ device' = device
    BY <1>11 DEF NotBegun, SendFails, HungUp, GivesUp, Waiting, IInv, CommandType, Working
  <2>2. \E how \in {"refused", "closed", "toolarge", "timeout", "cancelled"} : Ends(how, <<>>)
    BY <1>11 DEF NotBegun, SendFails, HungUp, GivesUp
  <2>3. PICK how \in {"refused", "closed", "toolarge", "timeout", "cancelled"} : Ends(how, <<>>)
    BY <2>2
  <2>4. how # "ok"
    OBVIOUS
  <2> QED
    BY <2>1, <2>3, <2>4, FailsAnswers
<1> QED
  BY <1>3, <1>4, <1>5, <1>6, <1>7, <1>8, <1>9, <1>10, <1>11 DEF Next, Device, Reading, Collecting

LEMMA InitTInv == Init => TInv
<1> SUFFICES ASSUME Init PROVE TInv
  OBVIOUS
<1>1. /\ task = At("banner", 0) /\ platform = "none" /\ ~adrift /\ sent = 0 /\ last.how = "none"
      /\ pc = "looking" /\ overflow = FALSE
      /\ device.in = <<>> /\ device.out = Output(0, Banner, FALSE) /\ device.atMore = FALSE
      /\ wire = <<>> /\ buf = <<>>
  BY DEF Init, Nothing
<1>2. task.at = "banner"
  BY <1>1 DEF At
<1>3. Probing /\ FingerprintIsTrue /\ AnswersAreOwnUntilGivenUp
  BY <1>1, <1>2 DEF Probing, FingerprintIsTrue, AnswersAreOwnUntilGivenUp, AnswersAreOwn
<1>4. PICK all : all = Output(0, Banner, FALSE)
  OBVIOUS
<1>5. Len(all) \in Nat
  BY <1>4, SessionAssumption, OutputSays
<1>6. EndsWith(all, all, Len(all)) /\ EndsWith(<<>>, all, 0)
  BY <1>5, AllEndsWith, NothingEndsWith
<1>7. Follows(all)
  <2>1. Len(all) - Len(all) = 0 /\ 0 - 0 = 0 /\ Len(<<>>) = 0
    BY <1>5
  <2> QED
    BY <1>1, <1>4, <1>6, <2>1 DEF Follows
<1>8. Said = Banner /\ FALSE \in BOOLEAN
  BY <1>2 DEF Said
<1>9. OnlyKeys
  BY <1>1 DEF OnlyKeys
<1>10. Answering
  BY <1>1, <1>2, <1>4, <1>7, <1>8, <1>9 DEF Answering
<1> QED
  BY <1>1, <1>3, <1>10 DEF TInv, Flow

\* What the crawler makes of a session is what the device said
\* (Session.RunWith, expect and readLoop; Fingerprint and classify): what a
\* command returns is its own output, all of it and nothing else, until one is
\* given up; and the platform is that of the first probe the device takes, with
\* its paging turned off.
THEOREM SessionTextIsTrue == Spec => []TextIsTrue
<1>1. Init => IInv /\ TInv
  BY InitIInv, InitTInv
<1>2. IInv /\ TInv /\ [Next]_vars => (IInv /\ TInv)'
  <2> SUFFICES ASSUME IInv, TInv, [Next]_vars PROVE IInv' /\ TInv'
    OBVIOUS
  <2>1. IInv'
    BY NextIInv
  <2>2. Flow'
    BY NextFlow DEF TInv
  <2>3. Probing' /\ FingerprintIsTrue' /\ AnswersAreOwnUntilGivenUp'
    BY NextAnswers
  <2> QED
    BY <2>1, <2>2, <2>3 DEF TInv
<1>3. IInv /\ TInv => TextIsTrue
  BY DEF TInv, TextIsTrue
<1> QED
  BY <1>1, <1>2, <1>3, PTL DEF Spec
=============================================================================
