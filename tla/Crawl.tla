------------------------------- MODULE Crawl --------------------------------
(***************************************************************************)
(* The breadth-first crawl of internal/crawler: CrawlContext and what it   *)
(* calls.                                                                  *)
(*                                                                         *)
(* The main goroutine admits the seeds, then repeats: open a depth batch,  *)
(* run one worker per device under a semaphore, wait for all of them,      *)
(* register what each device calls itself (claimAll), settle exclusion     *)
(* (markExcluded), and walk the neighbor tables admitting the next batch.  *)
(* ctx may be cancelled at any moment.                                     *)
(*                                                                         *)
(* items holds every device ever admitted, in admission order.  A batch is *)
(* the segment lo..hi of it and the list called next in the code is what   *)
(* lies beyond hi.  The events sent on the way are in module CrawlRun.     *)
(***************************************************************************)
EXTENDS Identity, FiniteSets

CONSTANTS Seeds,          \* sequence of names
          Methods,        \* collection methods, in the order they are tried
          Timed,          \* the methods whose every wait has a deadline
          MaxDepth,
          Concurrency,    \* workers that may hold a slot at once
          AllowDomains,   \* suffixes that may be dialed; {} allows all
          IPFallback,     \* ~DisableIPFallback
          Reports,        \* what a device can be found to be
          Replies(_, _)   \* Replies(m, n): how dialing n with method m can end

(***************************************************************************)
(* A reply of "net" is a reachability failure, "auth" any other failure to *)
(* connect, "late" a failure once connected, and "ok" a finished           *)
(* collection.  sys and ip are <<>> when unknown; excl says an exclude     *)
(* pattern matches the platform or a name of the device.  A neighbor claim *)
(* of kind "name" carries a usable name, "alias" a chassis MAC or a        *)
(* loopback name, and "artifact" parsing debris; its excl says an exclude  *)
(* pattern matches what the claim says about the neighbor.                 *)
(***************************************************************************)
Claim == [kind : {"name", "alias", "artifact"}, name : Names,
          addr : Names \cup {<<>>}, excl : BOOLEAN]

Reply == [end : {"net", "auth", "late", "ok"}, sys : Names \cup {<<>>},
          ip : Names \cup {<<>>}, excl : BOOLEAN, nbrs : Seq(Claim)]

ASSUME CrawlAssumption ==
    /\ Seeds \in Seq(Names)
    /\ MaxDepth \in Nat
    /\ Concurrency \in Nat \ {0}
    /\ AllowDomains \subseteq Labels
    /\ IPFallback \in BOOLEAN
    /\ Methods \in Seq(STRING)
    /\ Reports \subseteq Reply

VARIABLES pc,        \* where CrawlContext is
          items,     \* admitted devices, in order
          jobs,      \* per item: its worker's state and the device it keeps
          lo, hi,    \* the current batch
          di, ni,    \* loop cursors: device (or seed) and neighbor
          claimed,   \* Crawler.claimed
          excluded,  \* keys of Crawler.excluded
          devices,   \* Crawler.devices, as indices into items
          stopped    \* ctx is cancelled

vars == <<pc, items, jobs, lo, hi, di, ni, claimed, excluded, devices, stopped>>

-----------------------------------------------------------------------------
(* The records a crawl keeps. *)

Item == [target : Names, reported : Names, identity : Names,
         addr : Names \cup {<<>>}, depth : Nat, parent : Nat]

Device == [status : {"none", "reached", "failed", "stopped"}, host : Names,
           sys : Names \cup {<<>>}, ip : Names \cup {<<>>},
           excl : BOOLEAN, nbrs : Seq(Claim)]

Job == [st : {"queued", "busy", "done"}, try : Nat, dev : Device]

\* A device about which nothing is known but the string to dial.
Blank(it, status) == [status |-> status, host |-> it.target, sys |-> <<>>,
                      ip |-> <<>>, excl |-> FALSE, nbrs |-> <<>>]

\* The device a reply describes.  It is named for the string it was claimed
\* under, and for itself when that string is an address.
Found(it, r) ==
    [status |-> IF r.end = "ok" THEN "reached" ELSE "failed",
     host   |-> IF IsAddr(it.target) /\ r.sys # <<>> THEN r.sys ELSE it.target,
     sys |-> r.sys, ip |-> r.ip, excl |-> r.excl, nbrs |-> r.nbrs]

\* shouldRetryByAddr: one more attempt at the reported address, after a
\* reachability failure only.
RetryAddr(it, r) ==
    /\ IPFallback /\ r.end = "net"
    /\ it.addr # <<>> /\ it.addr # it.target /\ ~IsAddr(it.target)

\* collectSSH and collectSNMP: the replies collecting item it can end with, to
\* the first attempt or to the one by address.
Direct(it, m) == {r \in Replies(m, it.target) : ~RetryAddr(it, r)}

ByAddr(it, m) ==
    IF \E r \in Replies(m, it.target) : RetryAddr(it, r) THEN Replies(m, it.addr) ELSE {}

Collected(it, m) == Direct(it, m) \cup ByAddr(it, m)

\* The better of what an earlier method kept and what this one found.
Better(kept, d) ==
    IF \/ d.status = "reached" /\ d.nbrs # <<>>
       \/ kept.status = "none"
       \/ kept.status = "failed" /\ d.status = "reached"
    THEN d ELSE kept

\* nextTarget: what a neighbor claim asks to be crawled, if anything.
Usable(c) == c.kind = "name" \/ (c.kind = "alias" /\ c.addr # <<>>)
NextTarget(c) == IF c.kind = "name" THEN c.name ELSE c.addr

\* What the claim and exclusion sets are keyed on.
Ident(n) == StripSuffixes(n)

\* dialAllowed: under an allowed suffix as reported, or once completed with a
\* suffix under which it resolves.  A bare address never is.
UnderAllowed(n) == n[Len(n)] \in AllowDomains

DialAllowed(n) ==
    \/ AllowDomains = {}
    \/ /\ ~IsAddr(n)
       /\ \/ UnderAllowed(n)
          \/ \E d \in Completing(n) : UnderAllowed(Append(n, Domains[d]))

-----------------------------------------------------------------------------
(* The claim set. *)

\* claimedLocked: an exact claim, or one in the same first-label bucket of
\* claimIdx that names the same device.
Claimed(id) ==
    \/ id \in claimed
    \/ \E c \in claimed : ShortName(c) = ShortName(id) /\ SameDevice(c, id)

\* registerAliases: the identities a device answers to, stripped, less the
\* ones a more qualified form covers.
Aliases(d) ==
    MostQualified({StripSuffixes(n) : n \in {d.host, d.sys, d.ip} \ {<<>>}})

AfterRegistering_KeepsBare(d) == claimed \cup Aliases(d)

AfterRegistering_DropsBucket(d) ==
    {c \in claimed : \A id \in Aliases(d) :
        ~(Len(c) < Len(id) /\ ShortName(c) = ShortName(id))}
    \cup Aliases(d)

\* What remains claimed once each alias has superseded its bare forms.
AfterRegistering(d) ==
    {c \in claimed : \A id \in Aliases(d) : c \in Superseded(claimed, id)}
    \cup Aliases(d)

\* Crawler.admit: claim what will be dialed, and queue it.
Admissible(reported) == ~Claimed(Ident(DialString(reported)))

Admit(reported, addr, depth, parent) ==
    LET target == DialString(reported)
        it == [target |-> target, reported |-> reported,
               identity |-> Ident(target), addr |-> addr,
               depth |-> depth, parent |-> parent]
    IN  /\ Admissible(reported)
        /\ claimed' = claimed \cup {it.identity}
        /\ items' = Append(items, it)
        /\ jobs' = Append(jobs, [st |-> "queued", try |-> 1,
                                 dev |-> Blank(it, "none")])

-----------------------------------------------------------------------------
Init ==
    /\ pc = "seed"
    /\ items = <<>> /\ jobs = <<>>
    /\ lo = 1 /\ hi = 0
    /\ di = 1 /\ ni = 1
    /\ claimed = {} /\ excluded = {}
    /\ devices = <<>>
    /\ stopped = FALSE

(* Seeds are admitted unconditionally: neither the exclude patterns nor    *)
(* the allowed domains are asked.                                          *)
AdmitSeed ==
    /\ pc = "seed" /\ di <= Len(Seeds)
    /\ Admit(Seeds[di], <<>>, 0, 0)
    /\ di' = di + 1
    /\ UNCHANGED <<pc, lo, hi, ni, excluded, devices, stopped>>

RefuseSeed ==
    /\ pc = "seed" /\ di <= Len(Seeds)
    /\ ~Admissible(Seeds[di])
    /\ di' = di + 1
    /\ UNCHANGED <<pc, items, jobs, lo, hi, ni, claimed, excluded, devices, stopped>>

\* The rest of the list becomes the batch, and the loop is entered again.
NextBatch ==
    /\ \/ pc = "seed" /\ di > Len(Seeds)
       \/ pc = "admit" /\ di > hi
    /\ pc' = "batch"
    /\ lo' = hi + 1 /\ hi' = Len(items)
    /\ UNCHANGED <<items, jobs, di, ni, claimed, excluded, devices, stopped>>

-----------------------------------------------------------------------------
(* The top of the loop. *)

OpenBatch ==
    /\ pc = "batch" /\ lo <= hi /\ ~stopped
    /\ pc' = "collect"
    /\ UNCHANGED <<items, jobs, lo, hi, di, ni, claimed, excluded, devices, stopped>>

\* Mutant: what was still queued is dropped.
AbandonBatch_Drops ==
    /\ pc = "batch" /\ lo <= hi /\ stopped
    /\ pc' = "done"
    /\ UNCHANGED <<items, jobs, lo, hi, di, ni, claimed, excluded, devices, stopped>>

\* recordCancelled: every device of the batch is filed as not attempted.
AbandonBatch ==
    /\ pc = "batch" /\ lo <= hi /\ stopped
    /\ jobs' = [i \in DOMAIN jobs |->
                  IF i \in lo..hi
                  THEN [jobs[i] EXCEPT !.st = "done",
                                       !.dev = Blank(items[i], "stopped")]
                  ELSE jobs[i]]
    /\ devices' = devices \o [k \in 1..(hi - lo + 1) |-> lo + k - 1]
    /\ pc' = "done"
    /\ UNCHANGED <<items, lo, hi, di, ni, claimed, excluded, stopped>>

FrontierEmpty ==
    /\ pc = "batch" /\ lo > hi
    /\ pc' = "done"
    /\ UNCHANGED <<items, jobs, lo, hi, di, ni, claimed, excluded, devices, stopped>>

-----------------------------------------------------------------------------
(* The workers of a batch. *)

Busy == {i \in lo..hi : jobs[i].st = "busy"}

\* Mutant: ctx is looked at between batches only.
StartWorker_IgnoresStop(i) ==
    /\ pc = "collect" /\ jobs[i].st = "queued"
    /\ Cardinality(Busy) < Concurrency
    /\ jobs' = [jobs EXCEPT ![i] =
                  IF Methods = <<>>
                  THEN [@ EXCEPT !.st = "done", !.dev = Blank(items[i], "failed")]
                  ELSE [@ EXCEPT !.st = "busy"]]
    /\ UNCHANGED <<pc, items, lo, hi, di, ni, claimed, excluded, devices, stopped>>

\* A worker gets a slot and looks at ctx once; the device of a crawl that was
\* stopped, or that has no method to use, ends here.
StartWorker(i) ==
    /\ pc = "collect" /\ jobs[i].st = "queued"
    /\ Cardinality(Busy) < Concurrency
    /\ jobs' = [jobs EXCEPT ![i] =
                  IF stopped
                  THEN [@ EXCEPT !.st = "done", !.dev = Blank(items[i], "stopped")]
                  ELSE IF Methods = <<>>
                  THEN [@ EXCEPT !.st = "done", !.dev = Blank(items[i], "failed")]
                  ELSE [@ EXCEPT !.st = "busy"]]
    /\ UNCHANGED <<pc, items, lo, hi, di, ni, claimed, excluded, devices, stopped>>

\* crawlOne stops at the first method to find neighbors, at the last method,
\* and at the end of any method once ctx is cancelled.
LastMethod(i, d) ==
    \/ (d.status = "reached" /\ d.nbrs # <<>>)
    \/ jobs[i].try = Len(Methods)
    \/ stopped

\* One method of crawlOne ends with reply r, and the worker gives up its slot
\* (Collect) or goes on to the next method (Fallback).
Collect(i, r) ==
    /\ pc = "collect" /\ jobs[i].st = "busy"
    /\ r \in Collected(items[i], Methods[jobs[i].try])
    /\ LastMethod(i, Found(items[i], r))
    /\ jobs' = [jobs EXCEPT ![i].st = "done",
                            ![i].dev = Better(@, Found(items[i], r))]
    /\ UNCHANGED <<pc, items, lo, hi, di, ni, claimed, excluded, devices, stopped>>

Fallback(i, r) ==
    /\ pc = "collect" /\ jobs[i].st = "busy"
    /\ r \in Collected(items[i], Methods[jobs[i].try])
    /\ ~LastMethod(i, Found(items[i], r))
    /\ jobs' = [jobs EXCEPT ![i].try = @ + 1,
                            ![i].dev = Better(@, Found(items[i], r))]
    /\ UNCHANGED <<pc, items, lo, hi, di, ni, claimed, excluded, devices, stopped>>

\* wg.Wait: every worker of the batch is done.
WaitAll ==
    /\ pc = "collect"
    /\ \A i \in lo..hi : jobs[i].st = "done"
    /\ pc' = "claim" /\ di' = lo
    /\ UNCHANGED <<items, jobs, lo, hi, ni, claimed, excluded, devices, stopped>>

-----------------------------------------------------------------------------
(* Between batches. *)

\* claimAll, one device: claim every name it answers to.
Register ==
    /\ pc = "claim" /\ di <= hi
    /\ claimed' = AfterRegistering(jobs[di].dev)
    /\ di' = di + 1
    /\ UNCHANGED <<pc, items, jobs, lo, hi, ni, excluded, devices, stopped>>

\* Mutant: only the devices that propagate give evidence.
ExcludedBy_Propagating(I) ==
    {Ident(NextTarget(c)) : c \in
        UNION {{jobs[i].dev.nbrs[k] : k \in {k \in DOMAIN jobs[i].dev.nbrs :
                   Usable(jobs[i].dev.nbrs[k]) /\ jobs[i].dev.nbrs[k].excl}}
               : i \in {i \in I : jobs[i].dev.status = "reached" /\ ~jobs[i].dev.excl}}}

\* What the exclude patterns match among the claims of the devices in I.
ExcludedBy(I) ==
    {Ident(NextTarget(c)) : c \in
        UNION {{jobs[i].dev.nbrs[k] : k \in {k \in DOMAIN jobs[i].dev.nbrs :
                   Usable(jobs[i].dev.nbrs[k]) /\ jobs[i].dev.nbrs[k].excl}}
               : i \in I}}

\* The end of claimAll files the batch, and markExcluded settles exclusion
\* against every claim in it before any claim is acted on.
Settle ==
    /\ pc = "claim" /\ di > hi
    /\ devices' = devices \o [k \in 1..(hi - lo + 1) |-> lo + k - 1]
    /\ excluded' = excluded \cup ExcludedBy(lo..hi)
    /\ pc' = "admit" /\ di' = lo /\ ni' = 1
    /\ UNCHANGED <<items, jobs, lo, hi, claimed, stopped>>

\* A device whose neighbors are crawled.
Propagates(i) ==
    /\ jobs[i].dev.status = "reached"
    /\ ~jobs[i].dev.excl
    /\ items[i].depth < MaxDepth

\* The claim the admission pass is looking at.
Walking == pc = "admit" /\ di <= hi
ThisClaim == jobs[di].dev.nbrs[ni]
AtClaim == Walking /\ Propagates(di) /\ ni <= Len(jobs[di].dev.nbrs)

\* Mutant: the walk stays on the device.
NextDevice_Stays ==
    /\ Walking /\ (Propagates(di) => ni > Len(jobs[di].dev.nbrs))
    /\ ni' = 1
    /\ UNCHANGED <<pc, items, jobs, lo, hi, di, claimed, excluded, devices, stopped>>

NextDevice ==
    /\ Walking /\ (Propagates(di) => ni > Len(jobs[di].dev.nbrs))
    /\ di' = di + 1 /\ ni' = 1
    /\ UNCHANGED <<pc, items, jobs, lo, hi, claimed, excluded, devices, stopped>>

\* The claims that are passed over: unusable, excluded, not allowed, or of a
\* device some claim already covers.
SkipUnusable == AtClaim /\ ~Usable(ThisClaim)

SkipExcluded ==
    AtClaim /\ Usable(ThisClaim) /\ Ident(NextTarget(ThisClaim)) \in excluded

SkipNotAllowed ==
    /\ AtClaim /\ Usable(ThisClaim)
    /\ Ident(NextTarget(ThisClaim)) \notin excluded
    /\ ~DialAllowed(NextTarget(ThisClaim))

Dialable(c) ==
    Usable(c) /\ Ident(NextTarget(c)) \notin excluded /\ DialAllowed(NextTarget(c))

SkipClaimed == AtClaim /\ Dialable(ThisClaim) /\ ~Admissible(NextTarget(ThisClaim))

SkipClaim ==
    /\ SkipUnusable \/ SkipExcluded \/ SkipNotAllowed \/ SkipClaimed
    /\ ni' = ni + 1
    /\ UNCHANGED <<pc, items, jobs, lo, hi, di, claimed, excluded, devices, stopped>>

AdmitNeighbor ==
    /\ AtClaim /\ Dialable(ThisClaim)
    /\ Admit(NextTarget(ThisClaim), ThisClaim.addr, items[di].depth + 1, di)
    /\ ni' = ni + 1
    /\ UNCHANGED <<pc, lo, hi, di, excluded, devices, stopped>>

-----------------------------------------------------------------------------
(* ctx is cancelled from outside, while the crawl runs. *)
Stop ==
    /\ pc # "done" /\ ~stopped
    /\ stopped' = TRUE
    /\ UNCHANGED <<pc, items, jobs, lo, hi, di, ni, claimed, excluded, devices>>

Finished == pc = "done" /\ UNCHANGED vars

Worker(i) == StartWorker(i) \/ \E r \in Reports : Collect(i, r) \/ Fallback(i, r)

Main == \/ AdmitSeed \/ RefuseSeed \/ NextBatch
        \/ OpenBatch \/ AbandonBatch \/ FrontierEmpty
        \/ WaitAll \/ Register \/ Settle
        \/ NextDevice \/ SkipClaim \/ AdmitNeighbor

Step == Main \/ \E i \in lo..hi : Worker(i)

Next == Step \/ Stop \/ Finished

Spec == Init /\ [][Next]_vars

(* What the code sees to the end of.  The main goroutine and the workers   *)
(* are runnable goroutines, and every request of an SNMP collection has a  *)
(* timeout.  An SSH collection may never end: NewSession, RequestPty and   *)
(* Shell (netexec.Open) wait without a deadline, and so do the handshake   *)
(* with a bastion and the dial and handshake through one; ctx reaches none *)
(* of them.  Nobody has to press stop.                                     *)
Prompt ==
    \/ Main
    \/ \E i \in lo..hi :
          \/ StartWorker(i)
          \/ /\ jobs[i].st = "busy" /\ Methods[jobs[i].try] \in Timed
             /\ \E r \in Reports : Collect(i, r) \/ Fallback(i, r)

FairSpec == Spec /\ WF_vars(Prompt)

-----------------------------------------------------------------------------
(* Properties. *)

\* Every variable has its type, and the cursors stay inside the lists they
\* walk: hi never passes the admitted items, and jobs run parallel to items.
TypeOK ==
    /\ pc \in {"seed", "batch", "collect", "claim", "admit", "done"}
    /\ items \in Seq(Item) /\ jobs \in Seq(Job) /\ Len(jobs) = Len(items)
    /\ lo \in Nat \ {0} /\ hi \in Nat /\ lo <= hi + 1 /\ hi <= Len(items)
    /\ di \in Nat \ {0} /\ ni \in Nat \ {0}
    /\ pc \in {"claim", "admit"} => lo <= di
    /\ claimed \subseteq Names /\ excluded \subseteq Names
    /\ devices \in Seq(Nat)
    /\ stopped \in BOOLEAN

\* The device of item i has registered what it answers to.
Registered(i) ==
    \/ i < lo
    \/ i <= hi /\ (pc = "admit" \/ (pc = "claim" /\ i < di))

\* The claims of item i have been through the admission pass.
Walked(i) == i < lo \/ (pc = "admit" /\ i < di)

ClaimsOf(i) == {jobs[i].dev.nbrs[k] : k \in DOMAIN jobs[i].dev.nbrs}

\* What was once admitted, and every name a device has answered to, stays
\* refused for the rest of the crawl: superseding a bare claim by a qualified
\* one (registerAliases) never reopens the device it stood for.
StillClaimed ==
    \A i \in DOMAIN items :
        /\ Claimed(items[i].identity)
        /\ Registered(i) => \A a \in Aliases(jobs[i].dev) : Claimed(a)

\* No device is dialed a second time under a name it was admitted under, nor
\* under a less qualified form of one, nor under any form of a name it
\* answered to in an earlier batch (tryClaim with registerAliases).
OneVisit ==
    \A i, j \in DOMAIN items :
        /\ i < j => ~Within(items[j].identity, items[i].identity)
        /\ items[i].depth < items[j].depth =>
              \A a \in Aliases(jobs[i].dev) : ~Within(items[j].identity, a)

\* A name that a crawled device could have answered to is dialed only once
\* some device has answered with a longer name that tells the two apart: the
\* one reason a claim is ever withdrawn.
RevisitIsSibling ==
    \A i, j \in DOMAIN items :
        i < j /\ SameDevice(items[i].identity, items[j].identity) =>
            \E k \in DOMAIN items :
                /\ items[k].depth < items[j].depth
                /\ \E a \in Aliases(jobs[k].dev) :
                      /\ SameDevice(a, items[i].identity)
                      /\ ~SameDevice(a, items[j].identity)

\* What the claim set is for: what was admitted or has answered stays refused,
\* nothing is dialed twice, and only a longer name reopens a shorter one.
VisitsOnce == TypeOK /\ StillClaimed /\ OneVisit /\ RevisitIsSibling

\* What a claim of a device is refused or admitted under.
ClaimKey(c) == Ident(DialString(NextTarget(c)))

\* A device that answers to the name, or one still to be dialed under it.
AnswersFor(j, id) ==
    IF Registered(j) THEN \E a \in Aliases(jobs[j].dev) : SameDevice(a, id)
                     ELSE SameDevice(items[j].identity, id)

\* No neighbor is dropped without a device that accounts for it: each claim
\* the admission pass found dialable is covered by a device that answers to
\* that name, by one that was dialed under it, or by one that was queued under
\* a bare form of it in the same batch (tryClaim): the claim is not looked at
\* again if that one turns out to be a sibling.
NothingLost ==
    \A i \in DOMAIN items : Walked(i) /\ Propagates(i) =>
        \A c \in {c \in ClaimsOf(i) : Dialable(c)} :
            \E j \in DOMAIN items :
                \/ AnswersFor(j, ClaimKey(c))
                \/ items[j].identity = ClaimKey(c)
                \/ items[j].depth = items[i].depth + 1 /\ Within(items[j].identity, ClaimKey(c))

\* A neighbor is dialed only if no claim of its batch or an earlier one, by
\* any device, matched an exclude pattern under that target (markExcluded
\* runs over the whole batch before anything is admitted).
JudgedOnAllEvidence ==
    \A i, j \in DOMAIN items :
        items[j].parent # 0 /\ items[i].depth < items[j].depth =>
            \A c \in ClaimsOf(i) : Usable(c) /\ c.excl =>
                Ident(NextTarget(c)) # Ident(items[j].reported)

\* Every admitted device is returned exactly once, in admission order, and
\* only a stopped crawl leaves one unattempted (claimAll, recordCancelled).
AllReturned ==
    pc = "done" =>
        /\ devices = [i \in 1..Len(items) |-> i]
        /\ \A i \in DOMAIN jobs :
              /\ jobs[i].st = "done" /\ jobs[i].dev.status # "none"
              /\ jobs[i].dev.status = "stopped" => stopped

\* a is a bare form of b.
Bare(a, b) == a # b /\ Within(a, b)

\* A bare form of id stood for a device when i was walked: one that had
\* answered to it, or one queued under it beside what i asked for.
BareStood(i, id) ==
    \E k \in DOMAIN items :
        \/ /\ items[k].depth <= items[i].depth
           /\ \E a \in Aliases(jobs[k].dev) : Bare(a, id)
        \/ items[k].depth = items[i].depth + 1 /\ Bare(items[k].identity, id)

\* Depth is the number of hops: one more than the reporter's, and never more
\* than that of any other propagating device whose table names the target,
\* unless a bare form of the name stood in its way there.
DepthIsHops ==
    \A i, j \in DOMAIN items :
        /\ items[j].parent = i => items[j].depth = items[i].depth + 1
        /\ /\ Walked(i) /\ Propagates(i)
           /\ \E c \in ClaimsOf(i) : Dialable(c) /\ ClaimKey(c) = items[j].identity
           /\ ~BareStood(i, items[j].identity)
           => items[j].depth <= items[i].depth + 1

\* The crawl is walked level by level to its end: everyone is returned, once
\* and in order, at the depth that is the number of hops.
ReturnedByLevel == AllReturned /\ DepthIsHops

\* Once ctx is cancelled no further device is dialed and no further method is
\* tried, whatever is still queued.
NoDialAfterStop ==
    [][stopped => \A i \in DOMAIN jobs :
          /\ jobs'[i].st = "busy" => jobs[i].st = "busy"
          /\ jobs'[i].try = jobs[i].try]_vars

\* The devices of the batch that may keep their worker for ever.
Waiting == {i \in lo..hi : jobs[i].st = "busy" /\ Methods[jobs[i].try] \notin Timed}

\* The batch waits for such devices alone: they hold every slot, or all others
\* are done.
Held ==
    /\ pc = "collect" /\ Waiting # {}
    /\ \/ Cardinality(Waiting) = Concurrency
       \/ \A i \in (lo..hi) \ Waiting : jobs[i].st = "done"

\* The crawl ends, stopped or not, unless SSH collections that never return
\* hold it, and then it goes as far as it can without them: everyone else in
\* the batch is collected while a slot is free.  Nothing else keeps it: the
\* claim set lets no finite estate be walked in circles, and no worker waits
\* for a slot that is free.
EndsUnlessHeld == <>(pc = "done") \/ <>[]Held
=============================================================================
