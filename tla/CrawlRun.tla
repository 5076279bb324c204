------------------------------ MODULE CrawlRun ------------------------------
(***************************************************************************)
(* The crawl and the results table together: every step of Crawl with the  *)
(* events it sends (crawlrun.Emit), folded into a Run in the order they    *)
(* are sent, until crawl_open's goroutine finishes the run.                *)
(*                                                                         *)
(* A row is filed under the identity an event carries.  That is the claim  *)
(* key of a device for most events; module Crawl decides what is dialed,   *)
(* and the properties below ask what the table says about it.              *)
(***************************************************************************)
EXTENDS Crawl

VARIABLE run    \* the Run that Config.Emit feeds

R == INSTANCE RunRows WITH Keys <- Names, NoKey <- <<>>, Text <- STRING, MaxNotes <- 0

rvars == <<vars, run>>

\* A run that has handled these events, one after the other.
Handled(r, evs) ==
    LET upTo[n \in 0..Len(evs)] == IF n = 0 THEN r ELSE R!After(upTo[n - 1], evs[n])
    IN  upTo[Len(evs)]

\* The events sent so far are followed by these.
Emit(evs) == run' = Handled(run, evs)
When(b, evs) == IF b THEN evs ELSE <<>>

Ev(kind, id) == [kind |-> kind, id |-> id, depth |-> 0, via |-> <<>>, detail |-> ""]
Told(kind, id, detail) == [Ev(kind, id) EXCEPT !.detail = detail]

-----------------------------------------------------------------------------
(* The events of each step. *)

\* admit resolves before it claims, and says so under the string it was given
\* (resolveName, resolveViaDomains).
Resolving(reported) ==
    LET name == ResolveName(reported)
    IN  When(name # reported, <<Told("resolved", reported, "cgnat")>>)
        \o When(DialString(reported) # name, <<Told("resolved", name, "suffix")>>)

\* A batch is announced, device by device.
ParentOf(it) == IF it.parent = 0 THEN <<>> ELSE items[it.parent].identity

Queued(it) == [Ev("queued", it.identity) EXCEPT !.depth = it.depth, !.via = ParentOf(it)]

Announced ==
    <<[Ev("depth", <<>>) EXCEPT !.depth = items[lo].depth]>>
    \o [k \in 1..(hi - lo + 1) |-> Queued(items[lo + k - 1])]

\* recordCancelled: a failure each, for devices no batch has announced.
Abandoned == [k \in 1..(hi - lo + 1) |-> Told("failed", items[lo + k - 1].identity, "stopped")]

\* Mutant: the outcome is filed under the string that was dialed.
Outcome_OnTarget(it, d) ==
    IF d.status = "reached" THEN <<Ev("reached", it.target)>>
    ELSE <<Told("failed", it.target, d.status)>>

\* reportDone.
Outcome(it, d) ==
    IF d.status = "reached" THEN <<Ev("reached", it.identity)>>
    ELSE <<Told("failed", it.identity, d.status)>>

\* A worker with a slot either ends its device at once or starts a method.
Started(it) ==
    IF stopped THEN Outcome(it, Blank(it, "stopped"))
    ELSE IF Methods = <<>> THEN Outcome(it, Blank(it, "failed"))
    ELSE <<Told("phase", it.identity, Methods[1])>>

\* One method: a retry by address, the credential, the neighbor tables.
Tried(it, r, byAddr) ==
    When(byAddr, <<Told("retry-addr", it.identity, "addr"), Told("phase", it.identity, "addr")>>)
    \o When(r.end \in {"late", "ok"}, <<Told("auth-ok", it.identity, "ranked")>>)
    \o When(r.end = "auth", <<Ev("auth-reject", it.identity)>>)
    \o When(r.end = "ok", <<Ev("collect", it.identity)>>)

\* An earlier method reached the device, and this one did not.
Lost(i, r) ==
    When(jobs[i].dev.status = "reached" /\ r.end # "ok", <<Ev("collect-err", items[i].identity)>>)

ThenNext(i) ==
    <<Told("fallback", items[i].identity, "fallback"),
      Told("phase", items[i].identity, Methods[jobs[i].try + 1])>>

Done(i, r, byAddr) ==
    Tried(items[i], r, byAddr) \o Lost(i, r)
    \o Outcome(items[i], Better(jobs[i].dev, Found(items[i], r)))

\* A neighbor that is not dialed: an exclude verdict is filed under the claim
\* identity, a domain verdict under the string as reported.
NotDialed(id, why) ==
    [Told("not-dialed", id, why) EXCEPT !.depth = items[di].depth + 1, !.via = items[di].identity]

Passed ==
    When(SkipExcluded, <<NotDialed(Ident(NextTarget(ThisClaim)), "excluded")>>)
    \o When(SkipNotAllowed, <<NotDialed(NextTarget(ThisClaim), "not-allowed")>>)
    \o When(SkipClaimed, Resolving(NextTarget(ThisClaim)))

-----------------------------------------------------------------------------
RInit == Init /\ run = R!NewRun

Seed == (AdmitSeed \/ RefuseSeed) /\ Emit(Resolving(Seeds[di]))

Open == OpenBatch /\ Emit(Announced)

Abandon == AbandonBatch /\ Emit(Abandoned)

Start(i) == StartWorker(i) /\ Emit(Started(items[i]))

\* How the reply was come by.
Route(i, r, byAddr) ==
    LET m == Methods[jobs[i].try]
    IN  r \in (IF byAddr THEN ByAddr(items[i], m) ELSE Direct(items[i], m))

End(i, r) ==
    /\ Collect(i, r)
    /\ \E byAddr \in BOOLEAN : Route(i, r, byAddr) /\ Emit(Done(i, r, byAddr))

TryNext(i, r) ==
    /\ Fallback(i, r)
    /\ \E byAddr \in BOOLEAN :
          Route(i, r, byAddr) /\ Emit(Tried(items[i], r, byAddr) \o Lost(i, r) \o ThenNext(i))

Skip == SkipClaim /\ Emit(Passed)

Neighbor == AdmitNeighbor /\ Emit(Resolving(NextTarget(ThisClaim)))

\* What sends nothing.
Silent ==
    /\ NextBatch \/ FrontierEmpty \/ WaitAll \/ Register \/ Settle \/ NextDevice \/ Stop
    /\ UNCHANGED run

\* crawl_open: Run.Finish, once CrawlContext has returned.
Finish ==
    /\ pc = "done" /\ ~run.closed
    /\ \E order \in R!Orders(R!InFlight(run)) : run' = R!Ended(run, order)
    /\ UNCHANGED vars

Idle == run.closed /\ UNCHANGED rvars

RNext ==
    \/ Seed \/ Open \/ Abandon \/ Skip \/ Neighbor \/ Silent \/ Finish \/ Idle
    \/ \E i \in lo..hi : Start(i) \/ \E r \in Reports : End(i, r) \/ TryNext(i, r)

RSpec == RInit /\ [][RNext]_rvars

\* With the fairness of the crawl: every step of it sends its events.
RFairSpec == RSpec /\ WF_vars(Prompt)

-----------------------------------------------------------------------------
(* Properties. *)

RowOf(it) == R!RowOf(run, it.identity)

\* Some verdict has said the key is not dialed.
Verdicts == {run.notes[n].ev : n \in {n \in DOMAIN run.notes : run.notes[n].ev.kind = "not-dialed"}}
Judged(k) == \E ev \in Verdicts : ev.id = k

\* When the crawl is over the table has the outcome of every device that was
\* admitted, those a stop abandoned included, unless a verdict overwrote it:
\* reportDone and recordCancelled leave none for Finish to fail.
OutcomesReported ==
    pc = "done" => \A i \in DOMAIN items :
        RowOf(items[i]).state \in
            {IF jobs[i].dev.status = "reached" THEN "reached" ELSE "failed"}
            \cup (IF Judged(items[i].identity) THEN {"not-dialed"} ELSE {})

\* No neighbor is passed over in silence: a claim that an exclude pattern
\* matches or that lies outside the allowed domains leaves a decision naming
\* its reporter, and, unless its key was dialed, a row that says not dialed.
NoSilentSkip ==
    \A i \in DOMAIN items : Walked(i) /\ Propagates(i) =>
        \A c \in {c \in ClaimsOf(i) : Usable(c) /\ (c.excl \/ ~DialAllowed(NextTarget(c)))} :
            \E ev \in Verdicts :
                /\ ev.via = items[i].identity
                /\ ev.id \in {NextTarget(c), Ident(NextTarget(c))}
                /\ run.rows[ev.id].state # "not-dialed" =>
                      \E j \in DOMAIN items : items[j].identity = ev.id

\* A device that has ended stays as it ended, whichever worker's events come
\* after: only a verdict on a later claim may still overwrite it.
EndedStaysEnded ==
    [][\A k \in DOMAIN run.rows :
          run.rows[k].state \in {"reached", "failed"} =>
              run'.rows[k].state \in {run.rows[k].state, "not-dialed"}]_rvars

\* A device of an announced batch is shown at its depth and under the device
\* that reported it, unless a verdict named it too.
PlacedWhereFound ==
    \A i \in DOMAIN items :
        LET row == RowOf(items[i])
        IN  (i < lo \/ (i <= hi /\ pc \in {"collect", "claim", "admit"}))
            /\ ~Judged(items[i].identity)
            => row.depth = items[i].depth /\ row.via = ParentOf(items[i])

\* The table tells what the crawl did: every device its own outcome, where it
\* was found.
TableIsTrue == OutcomesReported /\ PlacedWhereFound

\* Exclusion and the allowed domains decide what is dialed on all the evidence
\* there is, and say so of every neighbor they pass over.
PolicyIsKept == JudgedOnAllEvidence /\ NoSilentSkip
=============================================================================
