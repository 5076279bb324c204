---------------------------- MODULE CrawlProofs -----------------------------
(***************************************************************************)
(* Proofs about Crawl and CrawlRun, for every estate and configuration:    *)
(* their types, and                                                        *)
(*  - the claim set: no device is visited twice under a name the crawl has *)
(*    dealt with (ClaimInv);                                               *)
(*  - what becomes of a neighbor: judged, counted, and found, by levels    *)
(*    (AllAccounted, and the least job a claim is refused for);            *)
(*  - a stop: nothing is dialed after it;                                  *)
(*  - the crawl with its table is the crawl: Emit is what becomes of a run *)
(*    when the events of a step are handled one after the other, so the    *)
(*    rows are followed event by event (TableInv).                         *)
(***************************************************************************)
EXTENDS CrawlRun, TLAPS, WellFoundedInduction

-----------------------------------------------------------------------------
(* Names. *)

\* A set of naturals has a least element.
LEMMA LeastNatural ==
    ASSUME NEW T \in SUBSET Nat, T # {}
    PROVE  \E x \in T : \A y \in T : x <= y
<1> DEFINE Less == OpToRel(<, Nat)
<1>1. IsWellFoundedOn(Less, Nat)
  BY NatLessThanWellFounded
<1>2. \A x, y \in Nat : y < x => <<y, x>> \in Less
  BY DEF OpToRel
<1> HIDE DEF Less
<1>3. PICK x \in T : \A y \in T : ~(<<y, x>> \in Less)
  BY <1>1, WFMin
<1>4. ASSUME NEW y \in T
      PROVE  x <= y
  <2>1. x \in Nat /\ y \in Nat
    OBVIOUS
  <2>2. ~(y < x)
    BY <1>2, <1>3, <2>1
  <2> QED
    BY <2>1, <2>2
<1> QED
  BY <1>4

\* Stripping a suffix leaves a name (normalize.StripSuffixes).
LEMMA StripSuffixesType ==
    ASSUME NEW n \in Names
    PROVE  StripSuffixes(n) \in Names
<1>1. CASE Len(n) > 1
  <2>1. Len(n) - 1 \in 1..Len(n)
    BY <1>1 DEF Names
  <2>2. SubSeq(n, 1, Len(n) - 1) \in Seq(Labels)
    BY <2>1 DEF Names
  <2>3. Len(SubSeq(n, 1, Len(n) - 1)) = Len(n) - 1
    BY <2>1 DEF Names
  <2>4. SubSeq(n, 1, Len(n) - 1) # <<>>
    <3>1. Len(SubSeq(n, 1, Len(n) - 1)) # 0
      BY <1>1, <2>3 DEF Names
    <3>2. Len(<<>>) = 0
      OBVIOUS
    <3> QED
      BY <3>1, <3>2
  <2> QED
    BY <2>2, <2>4 DEF StripSuffixes, Names
<1>2. CASE ~(Len(n) > 1)
  BY <1>2 DEF StripSuffixes
<1> QED
  BY <1>1, <1>2

\* What is dialed for a name is a name (Crawler.admit).
LEMMA DialStringType ==
    ASSUME NEW n \in Names
    PROVE  DialString(n) \in Names
<1> DEFINE m == ResolveName(n)
<1>1. m \in Names
  BY IdentityAssumption DEF ResolveName
<1>2. CASE Completing(m) = {} \/ IsAddr(m) \/ m \in Resolvable
  BY <1>1, <1>2 DEF DialString, ResolveViaDomains
<1>3. CASE ~(Completing(m) = {} \/ IsAddr(m) \/ m \in Resolvable)
  <2> DEFINE d == CHOOSE d \in Completing(m) : \A e \in Completing(m) : d <= e
  <2>1. Completing(m) \subseteq DOMAIN Domains
    BY DEF Completing
  <2>2. Completing(m) \in SUBSET Nat /\ Completing(m) # {}
    BY <1>3, <2>1, IdentityAssumption
  <2>3. \E e \in Completing(m) : \A f \in Completing(m) : e <= f
    BY <2>2, LeastNatural
  <2>4. d \in Completing(m)
    BY <2>3
  <2>5. Append(m, Domains[d]) \in Names
    BY <1>1, <2>1, <2>4, IdentityAssumption DEF Names
  <2> QED
    BY <1>3, <2>5 DEF DialString, ResolveViaDomains
<1> QED
  BY <1>2, <1>3

\* SameDevice is symmetric, and Within is reflexive and transitive on names.
LEMMA SameDeviceSymmetric ==
    ASSUME NEW a \in Names, NEW b \in Names, SameDevice(a, b)
    PROVE  SameDevice(b, a)
BY DEF SameDevice

LEMMA WithinReflexive ==
    ASSUME NEW a \in Names
    PROVE  Within(a, a)
BY DEF Within, SameDevice, Names

LEMMA WithinTransitive ==
    ASSUME NEW a \in Names, NEW b \in Names, NEW c \in Names,
           Within(a, b), Within(b, c)
    PROVE  Within(a, c)
<1>1. CASE a = b \/ b = c
  BY <1>1
<1>2. CASE a # b /\ b # c
  <2>1. /\ ~IsAddr(a) /\ ~IsAddr(b) /\ ~IsAddr(c)
        /\ a \in Seq(Labels) /\ b \in Seq(Labels) /\ c \in Seq(Labels)
        /\ Len(a) <= Len(b) /\ Len(b) <= Len(c)
    BY <1>2 DEF Within, SameDevice, Names
  <2>2. \A k \in 1..Len(a) : a[k] = b[k]
    BY <1>2, <2>1 DEF Within, SameDevice, LabelPrefix
  <2>3. \A k \in 1..Len(b) : b[k] = c[k]
    BY <1>2, <2>1 DEF Within, SameDevice, LabelPrefix
  <2>4. LabelPrefix(a, c)
    BY <2>1, <2>2, <2>3 DEF LabelPrefix
  <2> QED
    BY <2>1, <2>4 DEF Within, SameDevice, Names
<1> QED
  BY <1>1, <1>2

\* Two names of one device share their first label, so looking only at one
\* bucket of claimIdx misses no claim.
LEMMA SameBucket ==
    ASSUME NEW a \in Names, NEW b \in Names, SameDevice(a, b)
    PROVE  ShortName(a) = ShortName(b)
<1>1. 1 \in 1..Len(a) /\ 1 \in 1..Len(b)
  BY DEF Names
<1> QED
  BY <1>1 DEF SameDevice, ShortName, LabelPrefix

\* A name nothing claims is the name of no claimed device.
LEMMA NotClaimed ==
    ASSUME claimed \subseteq Names, NEW id \in Names, ~Claimed(id)
    PROVE  \A c \in claimed : ~SameDevice(c, id)
BY SameBucket DEF Claimed

-----------------------------------------------------------------------------
(* Types. *)

LEMMA BlankType ==
    ASSUME NEW it \in Item, NEW st \in {"none", "failed", "stopped"}
    PROVE  Blank(it, st) \in Device
BY DEF Blank, Item, Device

LEMMA FoundType ==
    ASSUME NEW it \in Item, NEW r \in Reports
    PROVE  Found(it, r) \in Device
<1>1. r \in Reply
  BY CrawlAssumption
<1> QED
  BY <1>1 DEF Found, Item, Device, Reply

\* Admitting a device keeps the types (Crawler.admit).
LEMMA AdmitType ==
    ASSUME TypeOK, NEW n \in Names, NEW a \in Names \cup {<<>>},
           NEW d \in Nat, NEW p \in Nat, Admit(n, a, d, p)
    PROVE  /\ items' \in Seq(Item) /\ jobs' \in Seq(Job)
           /\ Len(items') = Len(items) + 1 /\ Len(jobs') = Len(items')
           /\ claimed' \subseteq Names
<1> DEFINE target == DialString(n)
           it == [target |-> target, reported |-> n, identity |-> Ident(target),
                  addr |-> a, depth |-> d, parent |-> p]
<1>1. it \in Item
  BY DialStringType, StripSuffixesType DEF Item, Ident
<1>2. Blank(it, "none") \in Device
  BY <1>1, BlankType
<1>3. [st |-> "queued", try |-> 1, dev |-> Blank(it, "none")] \in Job
  BY <1>2 DEF Job
<1>4. /\ items' = Append(items, it)
      /\ jobs' = Append(jobs, [st |-> "queued", try |-> 1, dev |-> Blank(it, "none")])
      /\ claimed' = claimed \cup {it.identity}
  BY DEF Admit
<1>5. it.identity \in Names
  BY <1>1 DEF Item
<1> HIDE DEF it, target
<1> QED
  BY <1>1, <1>3, <1>4, <1>5 DEF TypeOK

\* The names a device registers are names.
LEMMA AliasesType ==
    ASSUME NEW d \in Device
    PROVE  Aliases(d) \subseteq Names
BY StripSuffixesType DEF Aliases, MostQualified, Device

LEMMA ItemJobType ==
    ASSUME TypeOK, NEW i \in DOMAIN items
    PROVE  items[i] \in Item /\ jobs[i] \in Job /\ i \in DOMAIN jobs /\ i \in Nat
BY DEF TypeOK

\* The claim the admission pass is at has its type.
LEMMA ThisClaimType ==
    ASSUME TypeOK, AtClaim
    PROVE  ThisClaim \in Claim /\ di \in DOMAIN items /\ di \in lo..hi
<1>1. di \in DOMAIN items /\ di \in lo..hi
  BY DEF TypeOK, AtClaim, Walking
<1>2. jobs[di].dev.nbrs \in Seq(Claim)
  BY <1>1, ItemJobType DEF Job, Device
<1>3. ni \in 1..Len(jobs[di].dev.nbrs)
  BY <1>2 DEF TypeOK, AtClaim
<1> QED
  BY <1>1, <1>2, <1>3 DEF ThisClaim

LEMMA NextTargetType ==
    ASSUME NEW c \in Claim, Usable(c)
    PROVE  NextTarget(c) \in Names
BY DEF Claim, Usable, NextTarget

\* A worker's step changes one job of the batch, to another of its type.
LEMMA WorkerType ==
    ASSUME TypeOK, NEW i \in lo..hi, Worker(i)
    PROVE  /\ jobs' \in Seq(Job) /\ Len(jobs') = Len(items)
           /\ \A k \in DOMAIN jobs : k # i => jobs'[k] = jobs[k]
           /\ pc = "collect"
           /\ UNCHANGED <<pc, items, lo, hi, di, ni, claimed, excluded, devices, stopped>>
<1>1. i \in DOMAIN items /\ i \in DOMAIN jobs
  BY DEF TypeOK
<1>2. items[i] \in Item /\ jobs[i] \in Job
  BY <1>1, ItemJobType
<1>3. CASE StartWorker(i)
  <2>1. Blank(items[i], "stopped") \in Device /\ Blank(items[i], "failed") \in Device
    BY <1>2, BlankType
  <2>2. PICK j \in Job : jobs' = [jobs EXCEPT ![i] = j]
    BY <1>2, <1>3, <2>1 DEF StartWorker, Job
  <2>3. /\ pc = "collect"
        /\ UNCHANGED <<pc, items, lo, hi, di, ni, claimed, excluded, devices, stopped>>
    BY <1>3 DEF StartWorker
  <2> QED
    BY <1>1, <2>2, <2>3 DEF TypeOK
<1>4. ASSUME NEW r \in Reports, Collect(i, r) \/ Fallback(i, r)
      PROVE  \E j \in Job : jobs' = [jobs EXCEPT ![i] = j]
  <2>1. Better(jobs[i].dev, Found(items[i], r)) \in Device
    BY <1>2, FoundType DEF Better, Job
  <2>2. CASE Collect(i, r)
    <3> DEFINE j == [jobs[i] EXCEPT !.st = "done",
                                    !.dev = Better(jobs[i].dev, Found(items[i], r))]
    <3>1. j \in Job
      BY <1>2, <2>1 DEF Job
    <3>2. jobs' = [jobs EXCEPT ![i] = j]
      BY <1>1, <1>2, <2>2 DEF Collect, Job, TypeOK
    <3> QED
      BY <3>1, <3>2
  <2>3. CASE Fallback(i, r)
    <3> DEFINE j == [jobs[i] EXCEPT !.try = jobs[i].try + 1,
                                    !.dev = Better(jobs[i].dev, Found(items[i], r))]
    <3>1. j \in Job
      <4>1. jobs[i].try + 1 \in Nat
        BY <1>2 DEF Job
      <4> QED
        BY <1>2, <2>1, <4>1 DEF Job
    <3>2. jobs' = [jobs EXCEPT ![i] = j]
      BY <1>1, <1>2, <2>3 DEF Fallback, Job, TypeOK
    <3> QED
      BY <3>1, <3>2
  <2> QED
    BY <1>4, <2>2, <2>3
<1>5. CASE \E r \in Reports : Collect(i, r) \/ Fallback(i, r)
  <2>1. PICK j \in Job : jobs' = [jobs EXCEPT ![i] = j]
    BY <1>4, <1>5
  <2> QED
    BY <1>1, <1>5, <2>1 DEF TypeOK, Collect, Fallback
<1> QED
  BY <1>3, <1>5 DEF Worker

LEMMA EmptyIsSeq ==
    ASSUME NEW S
    PROVE  <<>> \in Seq(S) /\ Len(<<>>) = 0
OBVIOUS

LEMMA SeqOfFunction ==
    ASSUME NEW S, NEW n \in Nat, NEW f \in [1..n -> S]
    PROVE  f \in Seq(S) /\ Len(f) = n
OBVIOUS

\* Filing the batch appends to the list of returned devices.
LEMMA FiledType ==
    ASSUME TypeOK
    PROVE  devices \o [k \in 1..(hi - lo + 1) |-> lo + k - 1] \in Seq(Nat)
<1>1. hi - lo + 1 \in Nat
  BY DEF TypeOK
<1>2. [k \in 1..(hi - lo + 1) |-> lo + k - 1] \in [1..(hi - lo + 1) -> Nat]
  BY DEF TypeOK
<1>3. [k \in 1..(hi - lo + 1) |-> lo + k - 1] \in Seq(Nat)
  BY <1>1, <1>2, SeqOfFunction
<1> QED
  BY <1>3 DEF TypeOK

LEMMA InitType == Init => TypeOK
<1>1. <<>> \in Seq(Item) /\ <<>> \in Seq(Job) /\ <<>> \in Seq(Nat) /\ Len(<<>>) = 0
  BY EmptyIsSeq
<1> SUFFICES ASSUME Init
             PROVE  TypeOK
  OBVIOUS
<1>2. items \in Seq(Item) /\ jobs \in Seq(Job) /\ devices \in Seq(Nat)
  BY <1>1 DEF Init
<1>3. Len(items) = 0 /\ Len(jobs) = 0
  BY <1>1 DEF Init
<1>4. pc = "seed" /\ lo = 1 /\ hi = 0 /\ di = 1 /\ ni = 1
      /\ claimed = {} /\ excluded = {} /\ stopped = FALSE
  BY DEF Init
<1>5. /\ pc \in {"seed", "batch", "collect", "claim", "admit", "done"}
      /\ ~(pc \in {"claim", "admit"}) /\ stopped \in BOOLEAN
      /\ claimed \subseteq Names /\ excluded \subseteq Names
  BY <1>4
<1>6. /\ lo \in Nat \ {0} /\ hi \in Nat /\ lo <= hi + 1 /\ hi <= Len(items)
      /\ Len(jobs) = Len(items) /\ di \in Nat \ {0} /\ ni \in Nat \ {0}
  BY <1>3, <1>4
<1> QED
  BY <1>2, <1>5, <1>6 DEF TypeOK

LEMMA TypeStep == TypeOK /\ [Next]_vars => TypeOK'
<1> SUFFICES ASSUME TypeOK, [Next]_vars
             PROVE  TypeOK'
  OBVIOUS
<1>1. CASE AdmitSeed
  <2>1. Seeds[di] \in Names
    BY <1>1, CrawlAssumption DEF AdmitSeed, TypeOK
  <2>2. Admit(Seeds[di], <<>>, 0, 0)
    BY <1>1 DEF AdmitSeed
  <2>3. /\ items' \in Seq(Item) /\ jobs' \in Seq(Job)
        /\ Len(items') = Len(items) + 1 /\ Len(jobs') = Len(items')
        /\ claimed' \subseteq Names
    BY <2>1, <2>2, AdmitType
  <2> QED
    BY <1>1, <2>3 DEF AdmitSeed, TypeOK
<1>2. CASE RefuseSeed
  BY <1>2 DEF RefuseSeed, TypeOK
<1>3. CASE NextBatch
  BY <1>3 DEF NextBatch, TypeOK
<1>4. CASE OpenBatch \/ FrontierEmpty
  BY <1>4 DEF OpenBatch, FrontierEmpty, TypeOK
<1>5. CASE AbandonBatch
  <2>1. \A i \in DOMAIN jobs : [jobs[i] EXCEPT !.st = "done",
                                  !.dev = Blank(items[i], "stopped")] \in Job
    <3> SUFFICES ASSUME NEW i \in DOMAIN jobs
                 PROVE  [jobs[i] EXCEPT !.st = "done",
                                  !.dev = Blank(items[i], "stopped")] \in Job
      OBVIOUS
    <3>1. items[i] \in Item /\ jobs[i] \in Job
      BY DEF TypeOK
    <3>2. Blank(items[i], "stopped") \in Device
      BY <3>1, BlankType
    <3> QED
      BY <3>1, <3>2 DEF Job
  <2>2. jobs' \in Seq(Job) /\ Len(jobs') = Len(jobs)
    <3>1. DOMAIN jobs = 1..Len(jobs) /\ \A i \in DOMAIN jobs : jobs[i] \in Job
      BY DEF TypeOK
    <3>2. jobs' = [i \in DOMAIN jobs |->
                     IF i \in lo..hi
                     THEN [jobs[i] EXCEPT !.st = "done", !.dev = Blank(items[i], "stopped")]
                     ELSE jobs[i]]
      BY <1>5 DEF AbandonBatch
    <3>3. jobs' \in [1..Len(jobs) -> Job]
      <4> DEFINE f(i) == IF i \in lo..hi
                         THEN [jobs[i] EXCEPT !.st = "done", !.dev = Blank(items[i], "stopped")]
                         ELSE jobs[i]
      <4>1. \A i \in 1..Len(jobs) : f(i) \in Job
        BY <2>1, <3>1
      <4>2. jobs' = [i \in 1..Len(jobs) |-> f(i)]
        BY <3>1, <3>2
      <4> HIDE DEF f
      <4> QED
        BY <4>1, <4>2
    <3>4. Len(jobs) \in Nat
      BY DEF TypeOK
    <3> HIDE DEF Job
    <3> QED
      BY <3>3, <3>4, SeqOfFunction
  <2>3. devices' \in Seq(Nat)
    BY <1>5, FiledType DEF AbandonBatch
  <2> QED
    BY <1>5, <2>2, <2>3 DEF AbandonBatch, TypeOK
<1>6. CASE WaitAll
  BY <1>6 DEF WaitAll, TypeOK
<1>7. CASE Register
  <2>1. di \in DOMAIN items
    BY <1>7 DEF Register, TypeOK
  <2>2. jobs[di].dev \in Device
    BY <2>1, ItemJobType DEF Job
  <2>3. claimed' \subseteq Names
    BY <1>7, <2>2, AliasesType DEF Register, AfterRegistering, TypeOK
  <2> QED
    BY <1>7, <2>3 DEF Register, TypeOK
<1>8. CASE Settle
  <2>1. ExcludedBy(lo..hi) \subseteq Names
    <3> SUFFICES ASSUME NEW i \in lo..hi, NEW k \in DOMAIN jobs[i].dev.nbrs,
                        Usable(jobs[i].dev.nbrs[k])
                 PROVE  Ident(NextTarget(jobs[i].dev.nbrs[k])) \in Names
      BY DEF ExcludedBy
    <3>1. i \in DOMAIN items
      BY DEF TypeOK
    <3>2. jobs[i].dev.nbrs[k] \in Claim
      BY <3>1, ItemJobType DEF Job, Device
    <3> QED
      BY <3>2, NextTargetType, StripSuffixesType DEF Ident
  <2>2. devices' \in Seq(Nat)
    BY <1>8, FiledType DEF Settle
  <2> QED
    BY <1>8, <2>1, <2>2 DEF Settle, TypeOK
<1>9. CASE NextDevice \/ SkipClaim
  BY <1>9 DEF NextDevice, SkipClaim, Walking, TypeOK
<1>10. CASE AdmitNeighbor
  <2>1. /\ ThisClaim \in Claim /\ di \in DOMAIN items /\ Usable(ThisClaim)
        /\ Admit(NextTarget(ThisClaim), ThisClaim.addr, items[di].depth + 1, di)
    BY <1>10, ThisClaimType DEF AdmitNeighbor, Dialable
  <2>2. /\ NextTarget(ThisClaim) \in Names /\ ThisClaim.addr \in Names \cup {<<>>}
        /\ items[di].depth + 1 \in Nat /\ di \in Nat
    BY <2>1, NextTargetType, ItemJobType DEF Claim, Item
  <2>3. /\ items' \in Seq(Item) /\ jobs' \in Seq(Job)
        /\ Len(items') = Len(items) + 1 /\ Len(jobs') = Len(items')
        /\ claimed' \subseteq Names
    BY <2>1, <2>2, AdmitType
  <2> QED
    BY <1>10, <2>3 DEF AdmitNeighbor, TypeOK
<1>11. ASSUME NEW i \in lo..hi, Worker(i)
       PROVE  TypeOK'
  BY <1>11, WorkerType DEF TypeOK
<1>12. CASE Stop \/ Finished \/ UNCHANGED vars
  BY <1>12 DEF Stop, Finished, vars, TypeOK
<1> QED
  BY <1>1, <1>2, <1>3, <1>4, <1>5, <1>6, <1>7, <1>8, <1>9, <1>10, <1>11, <1>12
     DEF Next, Step, Main

\* Type correctness of the crawl, for every estate and configuration.
THEOREM CrawlTypeOK == Spec => []TypeOK
BY InitType, TypeStep, PTL DEF Spec
-----------------------------------------------------------------------------
(* The claim set.  Properties OneVisit and RevisitIsSibling speak of the    *)
(* items alone; what makes them inductive is what the claims still say      *)
(* about the items, and in which batch each item is.                        *)

\* Between the admission passes the batch is the end of items, and a batch
\* that is at work is not empty.
BatchShape ==
    /\ pc # "admit" /\ pc # "seed" => hi = Len(items)
    /\ pc = "seed" => lo = 1 /\ hi = 0
    /\ pc \in {"collect", "claim", "admit"} => lo <= hi

\* The batch is the deepest of what has been opened, and what it admits is
\* one hop further.
Levels ==
    /\ pc = "seed" => \A j \in DOMAIN items : items[j].depth = 0
    /\ \A i \in lo..hi : \A j \in DOMAIN items :
          IF j <= hi THEN items[j].depth <= items[i].depth
                     ELSE items[j].depth = items[i].depth + 1

Covered(x) == \E c \in claimed : Within(x, c)

\* What was admitted is claimed still, or a registered device claims a more
\* qualified form; and so is what a registered device answers to.
Covering ==
    /\ \A i \in DOMAIN items :
          \/ items[i].identity \in claimed
          \/ \E k \in DOMAIN items : Registered(k) /\
                \E a \in Aliases(jobs[k].dev) \cap claimed : Within(items[i].identity, a)
    /\ \A i \in DOMAIN items : Registered(i) =>
          \A a \in Aliases(jobs[i].dev) : Covered(a)

ClaimInv ==
    TypeOK /\ BatchShape /\ Levels /\ Covering /\ OneVisit /\ RevisitIsSibling

\* A device with a deeper one beside it has registered.
LEMMA EarlierRegistered ==
    ASSUME TypeOK, BatchShape, Levels,
           NEW i \in DOMAIN items, NEW j \in DOMAIN items,
           items[i].depth < items[j].depth
    PROVE  Registered(i)
<1>1. /\ i \in 1..Len(items) /\ j \in 1..Len(items)
      /\ items[i].depth \in Nat /\ items[j].depth \in Nat
      /\ lo \in Nat /\ hi \in Nat /\ hi <= Len(items) /\ Len(items) \in Nat
  BY ItemJobType DEF TypeOK, Item
<1>2. CASE pc = "seed"
  BY <1>1, <1>2 DEF Levels
<1>3. CASE pc = "admit"
  <2>1. lo \in lo..hi /\ lo <= hi
    BY <1>1, <1>3 DEF BatchShape
  <2>2. CASE i <= hi
    BY <1>1, <1>3, <2>2 DEF Registered
  <2>3. CASE i > hi
    <3>1. lo \in DOMAIN items
      BY <2>1 DEF TypeOK
    <3>2. items[lo].depth \in Nat
      BY <3>1, ItemJobType DEF Item
    <3>3. items[i].depth = items[lo].depth + 1
      BY <1>1, <2>1, <2>3 DEF Levels
    <3>4. items[j].depth <= items[lo].depth \/ items[j].depth = items[lo].depth + 1
      BY <1>1, <2>1 DEF Levels
    <3> QED
      BY <1>1, <3>2, <3>3, <3>4
  <2> QED
    BY <1>1, <2>2, <2>3
<1>4. CASE pc # "seed" /\ pc # "admit"
  <2>1. hi = Len(items)
    BY <1>4 DEF BatchShape
  <2>2. ~(i \in lo..hi)
    BY <1>1, <2>1 DEF Levels
  <2> QED
    BY <1>1, <2>1, <2>2 DEF Registered
<1> QED
  BY <1>2, <1>3, <1>4

LEMMA RegisteredAliases ==
    ASSUME TypeOK, NEW i \in DOMAIN items
    PROVE  Aliases(jobs[i].dev) \subseteq Names /\ items[i].identity \in Names
BY ItemJobType, AliasesType DEF Job, Item

\* A step that admits and registers nothing keeps what the claims say.
LEMMA NothingRegistered ==
    ASSUME ClaimInv, items' = items, claimed' = claimed,
           \A i \in DOMAIN items : Registered(i)' <=> Registered(i),
           \A i \in DOMAIN items : Registered(i) => jobs'[i] = jobs[i]
    PROVE  Covering' /\ OneVisit' /\ RevisitIsSibling'
<1>1. \A i, j \in DOMAIN items :
          items[i].depth < items[j].depth => jobs'[i] = jobs[i]
  BY EarlierRegistered DEF ClaimInv
<1>2. OneVisit'
  BY <1>1 DEF ClaimInv, OneVisit
<1>3. RevisitIsSibling'
  BY <1>1 DEF ClaimInv, RevisitIsSibling
<1>4. Covering'
  <2>1. \A i \in DOMAIN items : Registered(i) =>
            Aliases(jobs'[i].dev) = Aliases(jobs[i].dev)
    OBVIOUS
  <2>2. ASSUME NEW i \in DOMAIN items, ~(items[i].identity \in claimed)
        PROVE  \E k \in DOMAIN items : Registered(k)' /\
                  \E a \in Aliases(jobs'[k].dev) \cap claimed :
                      Within(items[i].identity, a)
    <3>1. PICK k \in DOMAIN items : Registered(k) /\
                \E a \in Aliases(jobs[k].dev) \cap claimed : Within(items[i].identity, a)
      BY <2>2 DEF ClaimInv, Covering
    <3>2. Registered(k)' /\ Aliases(jobs'[k].dev) = Aliases(jobs[k].dev)
      BY <2>1, <3>1
    <3> QED
      BY <3>1, <3>2
  <2>3. ASSUME NEW i \in DOMAIN items, Registered(i)', NEW a \in Aliases(jobs'[i].dev)
        PROVE  \E c \in claimed : Within(a, c)
    BY <2>1, <2>3 DEF ClaimInv, Covering, Covered
  <2> QED
    BY <2>2, <2>3 DEF Covering, Covered
<1> QED
  BY <1>2, <1>3, <1>4

\* Registering a device withdraws a claim only for a more qualified one.
LEMMA StillCovered ==
    ASSUME claimed \subseteq Names, NEW d \in Device,
           claimed' = AfterRegistering(d), NEW x \in Names, Covered(x)
    PROVE  Covered(x)'
<1>1. PICK c \in claimed : Within(x, c)
  BY DEF Covered
<1>2. CASE c \in claimed'
  BY <1>1, <1>2 DEF Covered
<1>3. CASE ~(c \in claimed')
  <2>1. PICK id \in Aliases(d) : ~(c \in Superseded(claimed, id))
    BY <1>3 DEF AfterRegistering
  <2>2. id \in Names /\ id \in claimed'
    BY AliasesType DEF AfterRegistering
  <2>3. Len(c) < Len(id) /\ SameDevice(c, id)
    BY <2>1 DEF Superseded
  <2>4. Within(c, id)
    BY <2>2, <2>3 DEF Within, Names
  <2>5. Within(x, id)
    BY <1>1, <2>2, <2>4, WithinTransitive
  <2> QED
    BY <2>2, <2>5 DEF Covered
<1> QED
  BY <1>2, <1>3

\* Registering the next device of the batch keeps what the claims say.
LEMMA RegisterCovers ==
    ASSUME ClaimInv, Register
    PROVE  Covering' /\ OneVisit' /\ RevisitIsSibling'
<1> DEFINE d == jobs[di].dev
<1>1. /\ TypeOK /\ Covering /\ items' = items /\ jobs' = jobs
      /\ claimed' = AfterRegistering(d)
      /\ di \in DOMAIN items
  BY DEF ClaimInv, Register, TypeOK
<1>2. d \in Device /\ Aliases(d) \subseteq Names
  BY <1>1, ItemJobType, AliasesType DEF Job
<1>3. \A i \in DOMAIN items : Registered(i)' <=> Registered(i) \/ i = di
  BY DEF ClaimInv, TypeOK, Register, Registered
<1> HIDE DEF d
<1>4. OneVisit' /\ RevisitIsSibling'
  BY <1>1 DEF ClaimInv, OneVisit, RevisitIsSibling
<1>5. ASSUME NEW i \in DOMAIN items
      PROVE  \/ items[i].identity \in claimed'
             \/ \E k \in DOMAIN items : Registered(k)' /\
                   \E a \in Aliases(jobs[k].dev) \cap claimed' :
                       Within(items[i].identity, a)
  <2>1. PICK c \in claimed :
            /\ Within(items[i].identity, c)
            /\ \/ c = items[i].identity
               \/ \E k \in DOMAIN items : Registered(k) /\ c \in Aliases(jobs[k].dev)
    BY <1>1, RegisteredAliases, WithinReflexive DEF Covering
  <2>2. CASE c \in claimed'
    BY <1>3, <2>1, <2>2
  <2>3. CASE ~(c \in claimed')
    <3>1. PICK id \in Aliases(d) : ~(c \in Superseded(claimed, id))
      BY <1>1, <2>3 DEF AfterRegistering
    <3>2. id \in Names /\ id \in claimed' /\ c \in Names /\ items[i].identity \in Names
      BY <1>1, <1>2, RegisteredAliases DEF AfterRegistering, TypeOK
    <3>3. Within(c, id)
      BY <3>1, <3>2 DEF Superseded, Within, Names
    <3>4. Within(items[i].identity, id)
      BY <2>1, <3>2, <3>3, WithinTransitive
    <3> QED
      BY <1>1, <1>3, <3>2, <3>4 DEF d
  <2> QED
    BY <2>2, <2>3
<1>6. ASSUME NEW i \in DOMAIN items, Registered(i)', NEW a \in Aliases(jobs[i].dev)
      PROVE  Covered(a)'
  <2>1. a \in Names
    BY <1>1, RegisteredAliases
  <2>2. CASE i = di
    <3>1. a \in claimed'
      BY <1>1, <2>2 DEF AfterRegistering, d
    <3> QED
      BY <2>1, <3>1, WithinReflexive DEF Covered
  <2>3. CASE i # di
    <3>1. Covered(a)
      BY <1>1, <1>3, <1>6, <2>3 DEF Covering
    <3> QED
      BY <1>1, <1>2, <2>1, <3>1, StillCovered DEF TypeOK
  <2> QED
    BY <2>2, <2>3
<1>7. Covering'
  BY <1>1, <1>5, <1>6 DEF Covering
<1> QED
  BY <1>4, <1>7

\* Admitting a device at the deepest level keeps what the claims say: what
\* nothing claims is no form of anything that is covered.
LEMMA AdmitCovers ==
    ASSUME ClaimInv, NEW n \in Names, NEW a \in Names \cup {<<>>},
           NEW dep \in Nat, NEW p \in Nat, Admit(n, a, dep, p),
           \A i \in DOMAIN items : items[i].depth <= dep,
           \A i \in DOMAIN items : items[i].depth < dep => Registered(i),
           \A i \in DOMAIN items : Registered(i) => items[i].depth < dep,
           \A i \in DOMAIN items' : Registered(i)' <=> i \in DOMAIN items /\ Registered(i)
    PROVE  Covering' /\ OneVisit' /\ RevisitIsSibling'
<1> DEFINE target == DialString(n)
           id == Ident(target)
           m == Len(items) + 1
           it == [target |-> target, reported |-> n, identity |-> id,
                  addr |-> a, depth |-> dep, parent |-> p]
<1>1. /\ TypeOK /\ Covering /\ OneVisit /\ RevisitIsSibling
      /\ items' = Append(items, it)
      /\ jobs' = Append(jobs, [st |-> "queued", try |-> 1, dev |-> Blank(it, "none")])
      /\ claimed' = claimed \cup {id}
      /\ ~Claimed(id)
  BY DEF ClaimInv, Admit, Admissible
<1>2. id \in Names
  BY DialStringType, StripSuffixesType DEF Ident
<1>3. \A c \in claimed : c \in Names /\ ~SameDevice(c, id) /\ ~SameDevice(id, c)
  BY <1>1, <1>2, NotClaimed, SameDeviceSymmetric DEF TypeOK
<1> HIDE DEF target, id
<1>4. /\ DOMAIN items' = DOMAIN items \cup {m}
      /\ m \notin DOMAIN items
      /\ \A i \in DOMAIN items : items'[i] = items[i] /\ jobs'[i] = jobs[i] /\ i < m
      /\ items'[m] = it
  BY <1>1 DEF TypeOK
<1>5. it.identity = id /\ it.depth = dep
  OBVIOUS
<1> HIDE DEF it, m
<1>6. ASSUME NEW i \in DOMAIN items
      PROVE  ~SameDevice(items[i].identity, id) \/
             \E k \in DOMAIN items :
                /\ Registered(k)
                /\ \E b \in Aliases(jobs[k].dev) :
                      SameDevice(b, items[i].identity) /\ ~SameDevice(b, id)
  <2>1. CASE items[i].identity \in claimed
    BY <1>3, <2>1
  <2>2. CASE ~(items[i].identity \in claimed)
    <3>1. PICK k \in DOMAIN items : Registered(k) /\
              \E b \in Aliases(jobs[k].dev) \cap claimed : Within(items[i].identity, b)
      BY <1>1, <2>2 DEF Covering
    <3>2. PICK b \in Aliases(jobs[k].dev) \cap claimed : Within(items[i].identity, b)
      BY <3>1
    <3>3. SameDevice(b, items[i].identity)
      BY <1>1, <1>3, <3>2, RegisteredAliases, SameDeviceSymmetric DEF Within
    <3> QED
      BY <1>3, <3>1, <3>2, <3>3
  <2> QED
    BY <2>1, <2>2
<1>7. ASSUME NEW i \in DOMAIN items
      PROVE  ~Within(id, items[i].identity)
  <2>1. PICK c \in claimed : Within(items[i].identity, c)
    BY <1>1, RegisteredAliases, WithinReflexive DEF Covering
  <2>2. Within(id, items[i].identity) => Within(id, c)
    BY <1>1, <1>2, <1>3, <2>1, RegisteredAliases, WithinTransitive
  <2> QED
    BY <1>3, <2>2 DEF Within
<1>8. ASSUME NEW i \in DOMAIN items, items[i].depth < dep,
             NEW b \in Aliases(jobs[i].dev)
      PROVE  ~Within(id, b)
  <2>1. PICK c \in claimed : Within(b, c)
    BY <1>1, <1>8 DEF Covering, Covered
  <2>2. Within(id, b) => Within(id, c)
    BY <1>1, <1>2, <1>3, <2>1, RegisteredAliases, WithinTransitive
  <2> QED
    BY <1>3, <2>2 DEF Within
<1>9. \A i \in DOMAIN items : items[i].depth \in Nat
  BY <1>1, ItemJobType DEF Item
<1>10. OneVisit'
  <2> SUFFICES ASSUME NEW i \in DOMAIN items', NEW j \in DOMAIN items'
               PROVE  /\ i < j => ~Within(items'[j].identity, items'[i].identity)
                      /\ items'[i].depth < items'[j].depth =>
                            \A b \in Aliases(jobs'[i].dev) :
                                ~Within(items'[j].identity, b)
    BY DEF OneVisit
  <2>1. CASE i \in DOMAIN items /\ j \in DOMAIN items
    BY <1>1, <1>4, <2>1 DEF OneVisit
  <2>2. CASE i \in DOMAIN items /\ j = m
    BY <1>4, <1>5, <1>7, <1>8, <2>2
  <2>3. CASE i = m /\ j \in DOMAIN items
    <3>1. ~(i < j) /\ ~(items'[i].depth < items'[j].depth)
      <4>1. j < i /\ items[j].depth <= dep /\ items[j].depth \in Nat
        BY <1>4, <1>9, <2>3
      <4>2. i \in Nat /\ j \in Nat
        BY <1>1, <2>3 DEF m, TypeOK
      <4> QED
        BY <1>4, <1>5, <2>3, <4>1, <4>2
    <3> QED
      BY <3>1
  <2>4. CASE i = m /\ j = m
    <3>1. m \in Nat
      BY <1>1 DEF m, TypeOK
    <3> QED
      BY <1>4, <1>5, <2>4, <3>1
  <2> QED
    BY <1>4, <2>1, <2>2, <2>3, <2>4
<1>11. RevisitIsSibling'
  <2> SUFFICES ASSUME NEW i \in DOMAIN items', NEW j \in DOMAIN items', i < j,
                      SameDevice(items'[i].identity, items'[j].identity)
               PROVE  \E k \in DOMAIN items' :
                          /\ items'[k].depth < items'[j].depth
                          /\ \E b \in Aliases(jobs'[k].dev) :
                                /\ SameDevice(b, items'[i].identity)
                                /\ ~SameDevice(b, items'[j].identity)
    BY DEF RevisitIsSibling
  <2>1. CASE i \in DOMAIN items /\ j \in DOMAIN items
    <3>1. PICK k \in DOMAIN items :
              /\ items[k].depth < items[j].depth
              /\ \E b \in Aliases(jobs[k].dev) :
                    /\ SameDevice(b, items[i].identity)
                    /\ ~SameDevice(b, items[j].identity)
      BY <1>1, <1>4, <2>1 DEF RevisitIsSibling
    <3> QED
      BY <1>4, <2>1, <3>1
  <2>2. CASE i \in DOMAIN items /\ j = m
    <3>1. PICK k \in DOMAIN items :
              /\ Registered(k)
              /\ \E b \in Aliases(jobs[k].dev) :
                    SameDevice(b, items[i].identity) /\ ~SameDevice(b, id)
      BY <1>4, <1>5, <1>6, <2>2
    <3>2. items[k].depth < dep
      BY <3>1
    <3> QED
      BY <1>4, <1>5, <2>2, <3>1, <3>2
  <2>3. CASE i = m
    <3>1. m \in Nat /\ j \in Nat /\ j <= m
      BY <1>1, <1>4 DEF m, TypeOK
    <3> QED
      BY <2>3, <3>1
  <2> QED
    BY <1>4, <2>1, <2>2, <2>3
<1>12. Covering'
  <2>1. ASSUME NEW i \in DOMAIN items'
        PROVE  \/ items'[i].identity \in claimed'
               \/ \E k \in DOMAIN items' : Registered(k)' /\
                     \E b \in Aliases(jobs'[k].dev) \cap claimed' :
                         Within(items'[i].identity, b)
    <3>1. CASE i = m
      BY <1>1, <1>4, <1>5, <3>1
    <3>2. CASE i \in DOMAIN items /\ items[i].identity \in claimed
      BY <1>1, <1>4, <3>2
    <3>3. CASE i \in DOMAIN items /\ ~(items[i].identity \in claimed)
      <4>1. PICK k \in DOMAIN items : Registered(k) /\
                \E b \in Aliases(jobs[k].dev) \cap claimed : Within(items[i].identity, b)
        BY <1>1, <3>3 DEF Covering
      <4> QED
        BY <1>1, <1>4, <3>3, <4>1
    <3> QED
      BY <1>4, <3>1, <3>2, <3>3
  <2>2. ASSUME NEW i \in DOMAIN items', Registered(i)', NEW b \in Aliases(jobs'[i].dev)
        PROVE  Covered(b)'
    <3>1. i \in DOMAIN items /\ Registered(i) /\ b \in Aliases(jobs[i].dev)
      BY <1>4, <2>2
    <3> QED
      BY <1>1, <3>1 DEF Covering, Covered
  <2> QED
    BY <2>1, <2>2 DEF Covering
<1> QED
  BY <1>10, <1>11, <1>12

LEMMA ClaimInvInit == Init => ClaimInv
<1> SUFFICES ASSUME Init
             PROVE  ClaimInv
  OBVIOUS
<1>1. TypeOK
  BY InitType
<1>2. DOMAIN items = {} /\ lo = 1 /\ hi = 0 /\ pc = "seed"
  BY DEF Init
<1>3. lo..hi = {}
  BY <1>2
<1> QED
  BY <1>1, <1>2, <1>3
     DEF ClaimInv, BatchShape, Levels, Covering, OneVisit, RevisitIsSibling

\* Every step but an admission leaves the devices where they are, and the
\* batches as they were drawn.
LEMMA ShapeKept ==
    ASSUME ClaimInv, TypeOK', items' = items, lo' = lo, hi' = hi,
           \/ pc' = pc
           \/ pc = "batch" /\ pc' = "collect" /\ lo <= hi
           \/ pc = "batch" /\ pc' = "done"
           \/ pc = "collect" /\ pc' = "claim"
           \/ pc = "claim" /\ pc' = "admit"
    PROVE  BatchShape' /\ Levels'
<1>1. BatchShape'
  BY DEF ClaimInv, BatchShape
<1>2. Levels'
  BY DEF ClaimInv, Levels
<1> QED
  BY <1>1, <1>2

LEMMA ClaimInvStep == ClaimInv /\ [Next]_vars => ClaimInv'
<1> SUFFICES ASSUME ClaimInv, [Next]_vars
             PROVE  ClaimInv'
  OBVIOUS
<1>1. TypeOK /\ TypeOK' /\ BatchShape /\ Levels
  BY TypeStep DEF ClaimInv
<1> DEFINE Kept == BatchShape' /\ Levels' /\ Covering' /\ OneVisit' /\ RevisitIsSibling'
<1>2. CASE AdmitSeed
  <2>1. /\ pc = "seed" /\ pc' = "seed" /\ di \in DOMAIN Seeds
        /\ Admit(Seeds[di], <<>>, 0, 0)
        /\ lo = 1 /\ hi = 0 /\ lo' = 1 /\ hi' = 0
    BY <1>1, <1>2, CrawlAssumption DEF AdmitSeed, BatchShape, TypeOK
  <2>2. Seeds[di] \in Names
    BY <2>1, CrawlAssumption
  <2>3. \A i \in DOMAIN items : items[i].depth = 0
    BY <1>1, <2>1 DEF Levels
  <2>4. /\ \A i \in DOMAIN items : ~Registered(i)
        /\ \A i \in DOMAIN items' : ~Registered(i)'
    BY <1>1, <2>1 DEF Registered, TypeOK
  <2>5. Covering' /\ OneVisit' /\ RevisitIsSibling'
    <3>1. /\ \A i \in DOMAIN items : items[i].depth <= 0
          /\ \A i \in DOMAIN items : items[i].depth < 0 => Registered(i)
      BY <2>3
    <3> QED
      BY <2>1, <2>2, <2>4, <3>1, AdmitCovers
  <2>6. BatchShape'
    BY <2>1 DEF BatchShape
  <2>7. Levels'
    <3>1. \A j \in DOMAIN items' : items'[j].depth = 0
      BY <1>1, <2>1, <2>3 DEF Admit, TypeOK
    <3>2. lo'..hi' = {}
      BY <2>1
    <3> QED
      BY <3>1, <3>2 DEF Levels
  <2> QED
    BY <1>1, <2>5, <2>6, <2>7 DEF ClaimInv
<1>3. CASE AdmitNeighbor
  <2>1. /\ ThisClaim \in Claim /\ di \in lo..hi /\ di \in DOMAIN items
        /\ Usable(ThisClaim)
        /\ Admit(NextTarget(ThisClaim), ThisClaim.addr, items[di].depth + 1, di)
        /\ pc = "admit" /\ pc' = "admit" /\ lo' = lo /\ hi' = hi /\ di' = di
    BY <1>1, <1>3, ThisClaimType DEF AdmitNeighbor, Dialable, AtClaim, Walking
  <2> DEFINE dep == items[di].depth + 1
  <2>2. /\ NextTarget(ThisClaim) \in Names /\ ThisClaim.addr \in Names \cup {<<>>}
        /\ dep \in Nat /\ di \in Nat /\ items[di].depth \in Nat
    BY <1>1, <2>1, NextTargetType, ItemJobType DEF Claim, Item
  <2>3. \A j \in DOMAIN items : items[j].depth \in Nat /\
            IF j <= hi THEN items[j].depth <= items[di].depth
                       ELSE items[j].depth = dep
    BY <1>1, <2>1, ItemJobType DEF Levels, Item
  <2>4. /\ \A i \in DOMAIN items : Registered(i) <=> i <= hi
        /\ \A i \in DOMAIN items' : Registered(i)' <=> i <= hi
    BY <1>1, <2>1 DEF Registered, TypeOK
  <2>5. /\ DOMAIN items' = DOMAIN items \cup {Len(items) + 1}
        /\ \A i \in DOMAIN items : items'[i] = items[i]
        /\ items'[Len(items) + 1].depth = dep
        /\ hi < Len(items) + 1
    <3>1. PICK it : items' = Append(items, it) /\ it.depth = dep
      BY <2>1 DEF Admit
    <3> HIDE DEF dep
    <3> QED
      BY <1>1, <3>1 DEF TypeOK
  <2>6. Covering' /\ OneVisit' /\ RevisitIsSibling'
    <3>1. /\ \A i \in DOMAIN items : items[i].depth <= dep
          /\ \A i \in DOMAIN items : items[i].depth < dep => Registered(i)
          /\ \A i \in DOMAIN items : Registered(i) => items[i].depth < dep
      BY <2>2, <2>3, <2>4
    <3>2. \A i \in DOMAIN items' :
              Registered(i)' <=> i \in DOMAIN items /\ Registered(i)
      BY <1>1, <2>4, <2>5 DEF TypeOK
    <3> HIDE DEF dep
    <3> QED
      BY <2>1, <2>2, <3>1, <3>2, AdmitCovers DEF dep
  <2>7. BatchShape'
    BY <1>1, <2>1 DEF BatchShape
  <2>8. Levels'
    <3>1. ASSUME NEW i \in lo..hi, NEW j \in DOMAIN items'
          PROVE  IF j <= hi THEN items'[j].depth <= items'[i].depth
                            ELSE items'[j].depth = items'[i].depth + 1
      <4>1. /\ i \in DOMAIN items /\ i <= hi /\ i \in Nat /\ hi \in Nat
            /\ lo \in Nat /\ di \in Nat /\ di <= hi
        BY <1>1, <2>1 DEF TypeOK
      <4>2. items[i].depth = items[di].depth
        <5>1. items[di].depth <= items[i].depth
          BY <1>1, <2>1, <4>1 DEF Levels
        <5>2. items[i].depth <= items[di].depth
          BY <2>3, <4>1
        <5> QED
          BY <2>2, <2>3, <4>1, <5>1, <5>2
      <4>3. items'[i].depth = items[di].depth
        BY <2>5, <4>1, <4>2
      <4>4. CASE j \in DOMAIN items
        BY <2>3, <2>5, <4>3, <4>4
      <4>5. CASE j = Len(items) + 1
        <5>1. ~(j <= hi)
          BY <1>1, <2>5, <4>1, <4>5 DEF TypeOK
        <5> QED
          BY <2>5, <4>3, <4>5, <5>1
      <4> QED
        BY <2>5, <4>4, <4>5
    <3> QED
      BY <2>1, <3>1 DEF Levels
  <2> QED
    BY <1>1, <2>6, <2>7, <2>8 DEF ClaimInv
<1>4. CASE Register
  <2>1. Covering' /\ OneVisit' /\ RevisitIsSibling'
    BY <1>4, RegisterCovers
  <2>2. BatchShape' /\ Levels'
    BY <1>1, <1>4, ShapeKept DEF Register
  <2> QED
    BY <1>1, <2>1, <2>2 DEF ClaimInv
<1>5. CASE NextBatch
  <2>1. /\ items' = items /\ jobs' = jobs /\ claimed' = claimed
        /\ pc' = "batch" /\ lo' = hi + 1 /\ hi' = Len(items)
        /\ \/ pc = "seed"
           \/ pc = "admit" /\ di > hi
    BY <1>5 DEF NextBatch
  <2>2. \A i \in DOMAIN items : Registered(i)' <=> Registered(i)
    BY <1>1, <2>1 DEF Registered, BatchShape, TypeOK
  <2>3. Covering' /\ OneVisit' /\ RevisitIsSibling'
    BY <2>1, <2>2, NothingRegistered
  <2>4. BatchShape'
    BY <2>1 DEF BatchShape
  <2>5. Levels'
    <3>1. ASSUME NEW i \in (hi + 1)..Len(items), NEW j \in DOMAIN items
          PROVE  items[j].depth <= items[i].depth /\ j <= Len(items)
      <4>0. i \in DOMAIN items /\ i > hi /\ j <= Len(items)
        BY <1>1 DEF TypeOK
      <4>1. /\ i \in DOMAIN items /\ i > hi /\ j <= Len(items)
            /\ items[i].depth \in Nat /\ items[j].depth \in Nat
        BY <1>1, <4>0, ItemJobType DEF Item
      <4>2. CASE pc = "seed"
        BY <1>1, <4>1, <4>2 DEF Levels
      <4>3. CASE pc = "admit"
        <5>1. lo \in lo..hi /\ lo \in DOMAIN items
          BY <1>1, <4>3 DEF BatchShape, TypeOK
        <5>2. items[lo].depth \in Nat
          BY <1>1, <5>1, ItemJobType DEF Item
        <5>3. items[i].depth = items[lo].depth + 1
          BY <1>1, <4>1, <5>1 DEF Levels, TypeOK
        <5>4. items[j].depth <= items[lo].depth \/ items[j].depth = items[lo].depth + 1
          BY <1>1, <5>1 DEF Levels
        <5> QED
          BY <4>1, <5>2, <5>3, <5>4
      <4> QED
        BY <2>1, <4>2, <4>3
    <3> QED
      BY <2>1, <3>1 DEF Levels
  <2> QED
    BY <1>1, <2>3, <2>4, <2>5 DEF ClaimInv
<1>6. ASSUME items' = items, claimed' = claimed, lo' = lo, hi' = hi,
             \A i \in DOMAIN items : i < lo => jobs'[i] = jobs[i],
             \A i \in DOMAIN items : Registered(i)' <=> Registered(i),
             jobs' = jobs \/ (pc \in {"batch", "collect"}),
             \/ pc' = pc
             \/ pc = "batch" /\ pc' = "collect" /\ lo <= hi
             \/ pc = "batch" /\ pc' = "done"
             \/ pc = "collect" /\ pc' = "claim"
             \/ pc = "claim" /\ pc' = "admit"
      PROVE  ClaimInv'
  <2>1. \A i \in DOMAIN items : Registered(i) => jobs'[i] = jobs[i]
    BY <1>1, <1>6 DEF Registered
  <2>2. Covering' /\ OneVisit' /\ RevisitIsSibling'
    BY <1>6, <2>1, NothingRegistered
  <2>3. BatchShape' /\ Levels'
    BY <1>1, <1>6, ShapeKept
  <2> QED
    BY <1>1, <2>2, <2>3 DEF ClaimInv
<1>7. CASE RefuseSeed \/ NextDevice \/ SkipClaim \/ Stop \/ Finished \/ UNCHANGED vars
  <2>1. /\ items' = items /\ claimed' = claimed /\ jobs' = jobs
        /\ lo' = lo /\ hi' = hi /\ pc' = pc
    BY <1>7 DEF RefuseSeed, NextDevice, SkipClaim, Stop, Finished, vars
  <2>2. \A i \in DOMAIN items : Registered(i)' <=> Registered(i)
    BY <1>7, <2>1
       DEF RefuseSeed, NextDevice, SkipClaim, Stop, Finished, vars, Registered, Walking,
           AtClaim, SkipUnusable, SkipExcluded, SkipNotAllowed, SkipClaimed
  <2> QED
    BY <1>6, <2>1, <2>2
<1>8. CASE OpenBatch \/ FrontierEmpty \/ WaitAll
  <2>1. /\ items' = items /\ claimed' = claimed /\ jobs' = jobs
        /\ lo' = lo /\ hi' = hi
        /\ \/ pc = "batch" /\ pc' = "collect" /\ lo <= hi
           \/ pc = "batch" /\ pc' = "done"
           \/ pc = "collect" /\ pc' = "claim" /\ di' = lo
    BY <1>8 DEF OpenBatch, FrontierEmpty, WaitAll
  <2>2. \A i \in DOMAIN items : Registered(i)' <=> Registered(i)
    BY <1>1, <2>1 DEF Registered, TypeOK
  <2> QED
    BY <1>6, <2>1, <2>2
<1>9. CASE Settle
  <2>1. /\ items' = items /\ claimed' = claimed /\ jobs' = jobs
        /\ lo' = lo /\ hi' = hi
        /\ pc = "claim" /\ pc' = "admit" /\ di > hi
    BY <1>9 DEF Settle
  <2>2. \A i \in DOMAIN items : Registered(i)' <=> Registered(i)
    BY <1>1, <2>1 DEF Registered, TypeOK
  <2> QED
    BY <1>6, <2>1, <2>2
<1>10. CASE AbandonBatch
  <2>1. /\ items' = items /\ claimed' = claimed /\ lo' = lo /\ hi' = hi
        /\ pc = "batch" /\ pc' = "done"
    BY <1>10 DEF AbandonBatch
  <2>2. \A i \in DOMAIN items : i < lo => jobs'[i] = jobs[i]
    <3>1. DOMAIN jobs = DOMAIN items /\ lo \in Nat /\ DOMAIN items \subseteq Nat
      BY <1>1 DEF TypeOK
    <3>2. \A i \in DOMAIN items : i < lo => ~(i \in lo..hi)
      BY <3>1
    <3> QED
      BY <1>10, <3>1, <3>2 DEF AbandonBatch
  <2>3. \A i \in DOMAIN items : Registered(i)' <=> Registered(i)
    BY <2>1 DEF Registered
  <2> QED
    BY <1>6, <2>1, <2>2, <2>3
<1>11. ASSUME NEW w \in lo..hi, Worker(w)
       PROVE  ClaimInv'
  <2>1. /\ items' = items /\ claimed' = claimed /\ lo' = lo /\ hi' = hi
        /\ pc = "collect" /\ pc' = pc /\ di' = di
        /\ \A k \in DOMAIN jobs : k # w => jobs'[k] = jobs[k]
    BY <1>1, <1>11, WorkerType
  <2>2. \A i \in DOMAIN items : i < lo => jobs'[i] = jobs[i]
    BY <1>1, <2>1 DEF TypeOK
  <2>3. \A i \in DOMAIN items : Registered(i)' <=> Registered(i)
    BY <2>1 DEF Registered
  <2> QED
    BY <1>6, <2>1, <2>2, <2>3
<1> QED
  BY <1>2, <1>3, <1>4, <1>5, <1>7, <1>8, <1>9, <1>10, <1>11 DEF Next, Step, Main

\* The inductive invariant of the claim set holds of every crawl.
THEOREM CrawlClaimInv == Spec => []ClaimInv
BY ClaimInvInit, ClaimInvStep, PTL DEF Spec

\* A device the crawl has dealt with stays dealt with.
THEOREM CrawlStillClaimed == Spec => []StillClaimed
<1>1. ClaimInv => StillClaimed
  <2> SUFFICES ASSUME ClaimInv
               PROVE  StillClaimed
    OBVIOUS
  <2>1. TypeOK /\ Covering
    BY DEF ClaimInv
  <2>2. ASSUME NEW x \in Names, NEW c \in claimed, Within(x, c)
        PROVE  Claimed(x)
    <3>1. c \in Names /\ SameDevice(c, x)
      BY <2>1, <2>2, SameDeviceSymmetric DEF TypeOK, Within
    <3> QED
      BY <3>1, SameBucket DEF Claimed
  <2>3. ASSUME NEW i \in DOMAIN items
        PROVE  Claimed(items[i].identity)
    BY <2>1, <2>2, RegisteredAliases, WithinReflexive DEF Covering
  <2>4. ASSUME NEW i \in DOMAIN items, Registered(i), NEW a \in Aliases(jobs[i].dev)
        PROVE  Claimed(a)
    BY <2>1, <2>2, <2>4, RegisteredAliases DEF Covering, Covered
  <2> QED
    BY <2>3, <2>4 DEF StillClaimed
<1> QED
  BY <1>1, CrawlClaimInv, PTL

\* No device is dialed twice under a name the crawl has dealt with.
THEOREM CrawlOneVisit == Spec => []OneVisit
<1>1. ClaimInv => OneVisit
  BY DEF ClaimInv
<1> QED
  BY <1>1, CrawlClaimInv, PTL

\* A name a crawled device could have answered to is dialed only when a longer
\* name, heard from a device of an earlier batch, tells the two apart.
THEOREM CrawlRevisitIsSibling == Spec => []RevisitIsSibling
<1>1. ClaimInv => RevisitIsSibling
  BY DEF ClaimInv
<1> QED
  BY <1>1, CrawlClaimInv, PTL

\* What the crawl does with claims, together: devices and queue agree, a name
\* dealt with stays claimed, and no device is dialed twice but a sibling told
\* apart (admit, registerAliases).
THEOREM CrawlVisitsOnce == Spec => []VisitsOnce
<1>1. TypeOK /\ StillClaimed /\ OneVisit /\ RevisitIsSibling => VisitsOnce
  BY DEF VisitsOnce
<1> QED
  BY <1>1, CrawlTypeOK, CrawlStillClaimed, CrawlOneVisit, CrawlRevisitIsSibling, PTL

-----------------------------------------------------------------------------
(* Every neighbor accounted for.                                           *)

\* The cursor of a walk over the batch ends just behind it.
Cursor == pc \in {"claim", "admit"} => di <= hi + 1

\* Where items come from: a device is dialed for the identity it is claimed
\* under, is named for what was dialed unless that is an address, and is one
\* hop from the device that reported it, which was admitted before it.
Provenance ==
    \A j \in DOMAIN items :
        /\ items[j].identity = Ident(items[j].target)
        /\ jobs[j].dev.host = items[j].target \/ IsAddr(items[j].target)
        /\ items[j].parent < j
        /\ items[j].parent # 0 => items[j].depth = items[items[j].parent].depth + 1
        /\ \A i \in DOMAIN items : i <= j => items[i].depth <= items[j].depth

\* Whom a claim stands for: a device still to register, one dialed at an
\* address, or one that answers to the name.
StandsFor(c, k) ==
    \/ c = items[k].identity /\ (~Registered(k) \/ IsAddr(c))
    \/ Registered(k) /\ c \in Aliases(jobs[k].dev)

EveryClaimStands == \A c \in claimed : \E k \in DOMAIN items : StandsFor(c, k)

\* What is left of the reason for which i's claim of id was not dropped.
AccountsFor(k, i, id) ==
    \/ items[k].identity = id /\ items[k].depth <= items[i].depth + 1
    \/ SameDevice(items[k].identity, id) /\ items[k].depth = items[i].depth + 1
    \/ /\ Registered(k) /\ items[k].depth <= items[i].depth
       /\ \E a \in Aliases(jobs[k].dev) : SameDevice(a, id)

Accounted(i, id) == \E k \in DOMAIN items : AccountsFor(k, i, id)

\* The claims that have been looked at.
Seen(i, n) == Walked(i) \/ (pc = "admit" /\ i = di /\ i <= hi /\ n < ni)

AllAccounted ==
    \A i \in DOMAIN items : \A n \in DOMAIN jobs[i].dev.nbrs :
        Seen(i, n) /\ Propagates(i) /\ Dialable(jobs[i].dev.nbrs[n]) =>
            Accounted(i, ClaimKey(jobs[i].dev.nbrs[n]))

\* A device whose evidence has been settled.
Settled(i) == i < lo \/ (pc = "admit" /\ i <= hi)

EvidenceKept ==
    \A i \in DOMAIN items : Settled(i) =>
        \A c \in ClaimsOf(i) : Usable(c) /\ c.excl => Ident(NextTarget(c)) \in excluded

\* How far the list of returned devices goes, and what the workers have kept.
FiledTo == IF pc = "done" THEN Len(items) ELSE IF pc = "admit" THEN hi ELSE lo - 1

Filed ==
    /\ devices = [i \in 1..FiledTo |-> i]
    /\ \A i \in DOMAIN jobs :
          /\ jobs[i].st = "done" => jobs[i].dev.status # "none"
          /\ jobs[i].dev.status = "stopped" => stopped
          /\ i <= FiledTo \/ (pc = "claim" /\ i <= hi) => jobs[i].st = "done"

Account ==
    /\ Cursor /\ Provenance /\ EveryClaimStands /\ AllAccounted /\ EvidenceKept
    /\ JudgedOnAllEvidence /\ Filed

-----------------------------------------------------------------------------
(* What a step may do to devices that are there already.                   *)

\* What an admission adds.
Added(m, n, d, p) ==
    /\ m = Len(items) + 1 /\ m = Len(items') /\ DOMAIN jobs' = DOMAIN items'
    /\ DOMAIN items' = DOMAIN items \cup {m}
    /\ m \in Nat /\ m \notin DOMAIN items /\ \A i \in DOMAIN items : i < m
    /\ \A i \in DOMAIN items : items'[i] = items[i] /\ jobs'[i] = jobs[i]
    /\ items'[m].target = DialString(n) /\ items'[m].reported = n
    /\ items'[m].identity = Ident(DialString(n))
    /\ items'[m].depth = d /\ items'[m].parent = p
    /\ jobs'[m].st = "queued" /\ jobs'[m].dev = Blank(items'[m], "none")
    /\ claimed' = claimed \cup {Ident(DialString(n))}

LEMMA AdmitItem ==
    ASSUME TypeOK, NEW n, NEW a, NEW d, NEW p, Admit(n, a, d, p)
    PROVE  Added(Len(items) + 1, n, d, p)
<1> DEFINE it == [target |-> DialString(n), reported |-> n, identity |-> Ident(DialString(n)),
                  addr |-> a, depth |-> d, parent |-> p]
           job == [st |-> "queued", try |-> 1, dev |-> Blank(it, "none")]
           m == Len(items) + 1
<1>1. /\ items' = Append(items, it) /\ jobs' = Append(jobs, job)
      /\ claimed' = claimed \cup {Ident(DialString(n))}
  BY DEF Admit
<1>2. /\ it.target = DialString(n) /\ it.reported = n
      /\ it.identity = Ident(DialString(n)) /\ it.depth = d /\ it.parent = p
      /\ job.st = "queued" /\ job.dev = Blank(it, "none")
  OBVIOUS
<1> HIDE DEF it, job
<1>3. /\ DOMAIN items' = DOMAIN items \cup {m} /\ DOMAIN jobs' = DOMAIN items'
      /\ m \in Nat /\ m = Len(items') /\ m \notin DOMAIN items /\ \A i \in DOMAIN items : i < m
      /\ \A i \in DOMAIN items : items'[i] = items[i] /\ jobs'[i] = jobs[i]
      /\ items'[m] = it /\ jobs'[m] = job
  BY <1>1 DEF TypeOK
<1> QED
  BY <1>1, <1>2, <1>3 DEF Added

LEMMA AdmitKeeps ==
    ASSUME TypeOK, NEW n, NEW a, NEW d, NEW p, Admit(n, a, d, p)
    PROVE  \A i \in DOMAIN items :
              i \in DOMAIN items' /\ items'[i] = items[i] /\ jobs'[i] = jobs[i]
<1> DEFINE it == [target |-> DialString(n), reported |-> n, identity |-> Ident(DialString(n)),
                  addr |-> a, depth |-> d, parent |-> p]
           job == [st |-> "queued", try |-> 1, dev |-> Blank(it, "none")]
<1>1. items' = Append(items, it) /\ jobs' = Append(jobs, job)
  BY DEF Admit
<1> HIDE DEF it, job
<1> QED
  BY <1>1 DEF TypeOK

\* What a worker makes of its job.
LEMMA WorkerJob ==
    ASSUME TypeOK, NEW w \in lo..hi, Worker(w)
    PROVE  LET old == jobs[w]
               new == jobs'[w]
           IN  /\ new.dev.host = old.dev.host \/ new.dev.host = items[w].target
                   \/ IsAddr(items[w].target)
               /\ new.st \in {"busy", "done"} /\ old.st # "done"
               /\ new.st = "done" =>
                     \/ new.dev.status \in {"stopped", "failed", "reached"}
                     \/ new.dev.status = old.dev.status /\ old.dev.status # "none"
               /\ new.dev.status = "stopped" => stopped \/ old.dev.status = "stopped"
               /\ stopped => new.try = old.try /\ (new.st = "busy" => old.st = "busy")
<1> DEFINE old == jobs[w]
           new == jobs'[w]
<1>1. w \in DOMAIN items /\ w \in DOMAIN jobs
  BY DEF TypeOK
<1>2. items[w] \in Item /\ jobs[w] \in Job
  BY <1>1, ItemJobType
<1>3. CASE StartWorker(w)
  <2>1. /\ old.st = "queued"
        /\ new = IF stopped
                 THEN [old EXCEPT !.st = "done", !.dev = Blank(items[w], "stopped")]
                 ELSE IF Methods = <<>>
                 THEN [old EXCEPT !.st = "done", !.dev = Blank(items[w], "failed")]
                 ELSE [old EXCEPT !.st = "busy"]
    BY <1>1, <1>3 DEF StartWorker
  <2>2. CASE stopped
    <3>1. new.st = "done" /\ new.dev = Blank(items[w], "stopped") /\ new.try = old.try
      BY <1>2, <2>1, <2>2 DEF Job
    <3>2. new.dev.status = "stopped" /\ new.dev.host = items[w].target
      BY <3>1 DEF Blank
    <3> HIDE DEF old, new
    <3> QED
      BY <2>1, <2>2, <3>1, <3>2 DEF old, new
  <2>3. CASE ~stopped /\ Methods = <<>>
    <3>1. new.st = "done" /\ new.dev = Blank(items[w], "failed")
      BY <1>2, <2>1, <2>3 DEF Job
    <3>2. new.dev.status = "failed" /\ new.dev.host = items[w].target
      BY <3>1 DEF Blank
    <3> HIDE DEF old, new
    <3> QED
      BY <2>1, <2>3, <3>1, <3>2 DEF old, new
  <2>4. CASE ~stopped /\ Methods # <<>>
    <3>1. new.st = "busy" /\ new.dev = old.dev
      BY <1>2, <2>1, <2>4 DEF Job
    <3> QED
      BY <2>1, <2>4, <3>1
  <2> QED
    BY <2>2, <2>3, <2>4
<1>4. ASSUME NEW r \in Reports, Collect(w, r) \/ Fallback(w, r)
      PROVE  /\ old.st = "busy" /\ new.dev = Better(old.dev, Found(items[w], r))
             /\ \/ new.st = "done" /\ new.try = old.try
                \/ new.st = "busy" /\ ~stopped
  <2>1. CASE Collect(w, r)
    BY <1>1, <1>2, <2>1 DEF Collect, Job
  <2>2. CASE Fallback(w, r)
    BY <1>1, <1>2, <2>2 DEF Fallback, LastMethod, Job
  <2> QED
    BY <1>4, <2>1, <2>2
<1>5. ASSUME NEW r \in Reports
      PROVE  /\ Found(items[w], r).status \in {"failed", "reached"}
             /\ Found(items[w], r).host = items[w].target \/ IsAddr(items[w].target)
  BY DEF Found
<1>6. CASE \E r \in Reports : Collect(w, r) \/ Fallback(w, r)
  <2>1. PICK r \in Reports :
          /\ old.st = "busy" /\ new.dev = Better(old.dev, Found(items[w], r))
          /\ \/ new.st = "done" /\ new.try = old.try
             \/ new.st = "busy" /\ ~stopped
    BY <1>4, <1>6
  <2>2. \/ new.dev = Found(items[w], r)
        \/ new.dev = old.dev /\ old.dev.status # "none"
    BY <2>1 DEF Better
  <2> HIDE DEF old, new
  <2>3. CASE new.dev = Found(items[w], r)
    BY <1>5, <2>1, <2>3 DEF old, new
  <2>4. CASE new.dev = old.dev /\ old.dev.status # "none"
    BY <2>1, <2>4 DEF old, new
  <2> QED
    BY <2>2, <2>3, <2>4
<1> QED
  BY <1>3, <1>6 DEF Worker

LEMMA AdmittedSeed ==
    ASSUME TypeOK, BatchShape, AdmitSeed
    PROVE  /\ Seeds[di] \in Names /\ Admit(Seeds[di], <<>>, 0, 0)
           /\ pc = "seed" /\ pc' = "seed" /\ lo = 1 /\ hi = 0 /\ lo' = lo /\ hi' = hi
           /\ UNCHANGED <<excluded, devices, stopped>>
BY CrawlAssumption DEF AdmitSeed, BatchShape, TypeOK

LEMMA AdmittedNeighbor ==
    ASSUME TypeOK, AdmitNeighbor
    PROVE  /\ ThisClaim \in Claim /\ di \in lo..hi /\ di \in DOMAIN items /\ di \in Nat
           /\ Dialable(ThisClaim) /\ Usable(ThisClaim)
           /\ NextTarget(ThisClaim) \in Names /\ ThisClaim.addr \in Names \cup {<<>>}
           /\ items[di].depth + 1 \in Nat
           /\ Admit(NextTarget(ThisClaim), ThisClaim.addr, items[di].depth + 1, di)
           /\ pc = "admit" /\ pc' = "admit" /\ lo' = lo /\ hi' = hi /\ di' = di
           /\ ni' = ni + 1
           /\ UNCHANGED <<excluded, devices, stopped>>
<1>1. /\ ThisClaim \in Claim /\ di \in lo..hi /\ di \in DOMAIN items /\ Usable(ThisClaim)
  BY ThisClaimType DEF AdmitNeighbor, Dialable
<1> QED
  BY <1>1, NextTargetType, ItemJobType
     DEF AdmitNeighbor, Claim, Item, AtClaim, Walking

\* Items stay as they were admitted, a device that has registered stays as it
\* was found, and evidence is settled once for each batch.
LEMMA History ==
    ASSUME ClaimInv, TypeOK', [Next]_vars, NEW i \in DOMAIN items
    PROVE  /\ i \in DOMAIN items' /\ items'[i] = items[i]
           /\ Registered(i) => Registered(i)' /\ jobs'[i] = jobs[i]
           /\ Registered(i)' => Registered(i) \/ (Register /\ i = di)
           /\ Settled(i)' => Settled(i) \/ (Settle /\ i \in lo..hi)
           /\ \/ jobs'[i].dev.host = jobs[i].dev.host
              \/ jobs'[i].dev.host = items[i].target \/ IsAddr(items[i].target)
           /\ excluded \subseteq excluded'
<1>1. /\ TypeOK /\ BatchShape /\ i \in Nat /\ lo \in Nat /\ hi \in Nat /\ di \in Nat
      /\ lo <= hi + 1 /\ i >= 1 /\ i <= Len(items) /\ DOMAIN items = DOMAIN jobs
  BY DEF ClaimInv, TypeOK
<1> DEFINE Goal == /\ i \in DOMAIN items' /\ items'[i] = items[i]
                   /\ Registered(i) => Registered(i)' /\ jobs'[i] = jobs[i]
                   /\ Registered(i)' => Registered(i) \/ (Register /\ i = di)
                   /\ Settled(i)' => Settled(i) \/ (Settle /\ i \in lo..hi)
                   /\ \/ jobs'[i].dev.host = jobs[i].dev.host
                      \/ jobs'[i].dev.host = items[i].target \/ IsAddr(items[i].target)
                   /\ excluded \subseteq excluded'
<1>2. CASE AdmitSeed
  <2>0. Seeds[di] \in Names /\ Admit(Seeds[di], <<>>, 0, 0)
    BY <1>1, <1>2, AdmittedSeed
  <2>1. i \in DOMAIN items' /\ items'[i] = items[i] /\ jobs'[i] = jobs[i]
    BY <1>1, <2>0, AdmitKeeps
  <2>2. /\ Registered(i)' <=> Registered(i)
        /\ Settled(i)' <=> Settled(i)
    BY <1>1, <1>2, AdmittedSeed DEF Registered, Settled
  <2> QED
    BY <1>1, <1>2, <2>1, <2>2, AdmittedSeed
<1>3. CASE AdmitNeighbor
  <2>0. /\ NextTarget(ThisClaim) \in Names /\ ThisClaim.addr \in Names \cup {<<>>}
        /\ items[di].depth + 1 \in Nat /\ di \in Nat
        /\ Admit(NextTarget(ThisClaim), ThisClaim.addr, items[di].depth + 1, di)
    BY <1>1, <1>3, AdmittedNeighbor
  <2>1. i \in DOMAIN items' /\ items'[i] = items[i] /\ jobs'[i] = jobs[i]
    <3> DEFINE dep == items[di].depth + 1
    <3>1. dep \in Nat /\ Admit(NextTarget(ThisClaim), ThisClaim.addr, dep, di)
      BY <2>0
    <3> HIDE DEF dep
    <3> QED
      BY <1>1, <2>0, <3>1, AdmitKeeps
  <2>2. /\ Registered(i)' <=> Registered(i)
        /\ Settled(i)' <=> Settled(i)
    BY <1>1, <1>3, AdmittedNeighbor DEF Registered, Settled
  <2> QED
    BY <1>1, <1>3, <2>1, <2>2, AdmittedNeighbor
<1>4. CASE RefuseSeed \/ NextDevice \/ SkipClaim \/ Stop \/ Finished \/ UNCHANGED vars
  <2>1. /\ items' = items /\ jobs' = jobs /\ lo' = lo /\ hi' = hi /\ pc' = pc
        /\ excluded' = excluded /\ (pc = "claim" => di' = di)
    BY <1>4 DEF RefuseSeed, NextDevice, SkipClaim, Stop, Finished, vars, Walking,
                AtClaim, SkipUnusable, SkipExcluded, SkipNotAllowed, SkipClaimed
  <2> QED
    BY <2>1 DEF Registered, Settled
<1>5. CASE NextBatch \/ OpenBatch \/ FrontierEmpty \/ WaitAll
  <2>1. /\ items' = items /\ jobs' = jobs /\ excluded' = excluded
        /\ \/ pc = "seed" /\ pc' = "batch" /\ lo' = hi + 1 /\ hi' = Len(items)
           \/ pc = "admit" /\ di > hi /\ pc' = "batch" /\ lo' = hi + 1 /\ hi' = Len(items)
           \/ pc = "batch" /\ pc' \in {"collect", "done"} /\ lo' = lo /\ hi' = hi
           \/ pc = "collect" /\ pc' = "claim" /\ di' = lo /\ lo' = lo /\ hi' = hi
    BY <1>5 DEF NextBatch, OpenBatch, FrontierEmpty, WaitAll
  <2>2. /\ Registered(i)' <=> Registered(i)
        /\ Settled(i)' <=> Settled(i)
    BY <1>1, <2>1 DEF Registered, Settled, BatchShape
  <2> QED
    BY <2>1, <2>2
<1>6. CASE AbandonBatch
  <2>1. /\ items' = items /\ lo' = lo /\ hi' = hi /\ pc = "batch" /\ pc' = "done"
        /\ excluded' = excluded
        /\ jobs'[i] = IF i \in lo..hi
                      THEN [jobs[i] EXCEPT !.st = "done", !.dev = Blank(items[i], "stopped")]
                      ELSE jobs[i]
    BY <1>1, <1>6 DEF AbandonBatch
  <2>2. CASE i < lo
    BY <1>1, <2>1, <2>2 DEF Registered, Settled
  <2>3. CASE ~(i < lo)
    <3>1. ~Registered(i) /\ ~Registered(i)' /\ ~Settled(i)'
      BY <1>1, <2>1, <2>3 DEF Registered, Settled
    <3>2. jobs[i] \in Job
      BY <1>1, ItemJobType
    <3>3. \/ jobs'[i].dev = jobs[i].dev
          \/ jobs'[i].dev = Blank(items[i], "stopped")
      BY <2>1, <3>2 DEF Job
    <3>4. jobs'[i].dev.host = jobs[i].dev.host \/ jobs'[i].dev.host = items[i].target
      BY <3>3 DEF Blank
    <3> QED
      BY <2>1, <3>1, <3>4
  <2> QED
    BY <2>2, <2>3
<1>7. CASE Register
  <2>1. /\ items' = items /\ jobs' = jobs /\ lo' = lo /\ hi' = hi /\ pc = "claim"
        /\ pc' = pc /\ excluded' = excluded /\ di' = di + 1
    BY <1>7 DEF Register
  <2>2. /\ Registered(i) => Registered(i)'
        /\ Registered(i)' => Registered(i) \/ i = di
        /\ Settled(i)' <=> Settled(i)
    BY <1>1, <2>1 DEF Registered, Settled
  <2> QED
    BY <1>7, <2>1, <2>2
<1>8. CASE Settle
  <2>1. /\ items' = items /\ jobs' = jobs /\ lo' = lo /\ hi' = hi /\ pc = "claim"
        /\ pc' = "admit" /\ di > hi /\ excluded \subseteq excluded'
    BY <1>8 DEF Settle
  <2>2. /\ Registered(i)' <=> Registered(i)
        /\ Settled(i)' => Settled(i) \/ i \in lo..hi
    BY <1>1, <2>1 DEF Registered, Settled
  <2> QED
    BY <1>8, <2>1, <2>2
<1>9. ASSUME NEW w \in lo..hi, Worker(w)
      PROVE  Goal
  <2>1. /\ items' = items /\ lo' = lo /\ hi' = hi /\ pc = "collect" /\ pc' = pc
        /\ di' = di /\ excluded' = excluded
        /\ \A k \in DOMAIN jobs : k # w => jobs'[k] = jobs[k]
    BY <1>1, <1>9, WorkerType
  <2>2. /\ Registered(i)' <=> Registered(i)
        /\ Settled(i)' <=> Settled(i)
        /\ Registered(i) => i # w
    BY <1>1, <2>1 DEF Registered, Settled
  <2>3. \/ jobs'[i].dev.host = jobs[i].dev.host
        \/ jobs'[i].dev.host = items[i].target \/ IsAddr(items[i].target)
    BY <1>1, <1>9, <2>1, WorkerJob
  <2> QED
    BY <1>1, <2>1, <2>2, <2>3
<1> QED
  BY <1>2, <1>3, <1>4, <1>5, <1>6, <1>7, <1>8, <1>9 DEF Next, Step, Main

\* Both kinds of admission, as what they add.
Adds(m) ==
    \/ Added(m, Seeds[di], 0, 0) /\ pc = "seed"
    \/ /\ Added(m, NextTarget(ThisClaim), items[di].depth + 1, di)
       /\ pc = "admit" /\ AtClaim /\ Dialable(ThisClaim) /\ ni' = ni + 1
       /\ di \in lo..hi /\ di \in DOMAIN items

LEMMA Admission ==
    ASSUME ClaimInv, AdmitSeed \/ AdmitNeighbor
    PROVE  /\ Adds(Len(items) + 1)
           /\ UNCHANGED <<pc, lo, hi, excluded, devices, stopped>>
           /\ pc = "admit" => di' = di
<1>1. TypeOK /\ BatchShape
  BY DEF ClaimInv
<1>2. CASE AdmitSeed
  BY <1>1, <1>2, AdmittedSeed, AdmitItem DEF Adds
<1>3. CASE AdmitNeighbor
  BY <1>1, <1>3, AdmittedNeighbor, AdmitItem DEF Adds, AdmitNeighbor
<1> QED
  BY <1>2, <1>3

\* Which steps register, and which admit.
LEMMA RegisteredStep ==
    ASSUME ClaimInv, TypeOK', [Next]_vars, ~Register, NEW i \in DOMAIN items
    PROVE  Registered(i)' <=> Registered(i)
BY History

LEMMA ClaimedStep ==
    ASSUME ClaimInv, [Next]_vars, ~Register, ~AdmitSeed, ~AdmitNeighbor
    PROVE  items' = items /\ claimed' = claimed
<1>1. ASSUME NEW w \in lo..hi, Worker(w)
      PROVE  items' = items /\ claimed' = claimed
  BY <1>1, WorkerType DEF ClaimInv
<1> QED
  BY <1>1 DEF Next, Step, Main, RefuseSeed, NextBatch, OpenBatch, AbandonBatch, FrontierEmpty,
              WaitAll, Settle, NextDevice, SkipClaim, Stop, Finished, vars

-----------------------------------------------------------------------------
(* Preservation, part by part.                                             *)

LEMMA ProvenanceStep ==
    ASSUME ClaimInv, TypeOK', [Next]_vars, Provenance
    PROVE  Provenance'
<1>1. TypeOK /\ \A i \in DOMAIN items : i \in Nat /\ items[i].depth \in Nat /\ items[i].parent \in Nat
  BY ItemJobType DEF ClaimInv, Item
<1>2. ASSUME NEW j \in DOMAIN items
      PROVE  /\ j \in DOMAIN items' /\ items'[j] = items[j]
             /\ items'[j].identity = Ident(items'[j].target)
             /\ jobs'[j].dev.host = items'[j].target \/ IsAddr(items'[j].target)
             /\ items'[j].parent < j
             /\ items'[j].parent # 0 =>
                   /\ items[j].parent \in DOMAIN items
                   /\ items'[j].depth = items'[items'[j].parent].depth + 1
             /\ \A i \in DOMAIN items : i <= j => items'[i].depth <= items'[j].depth
  <2>1. /\ items[j].identity = Ident(items[j].target)
        /\ jobs[j].dev.host = items[j].target \/ IsAddr(items[j].target)
        /\ items[j].parent < j
        /\ items[j].parent # 0 => items[j].depth = items[items[j].parent].depth + 1
        /\ \A i \in DOMAIN items : i <= j => items[i].depth <= items[j].depth
    BY DEF Provenance
  <2>2. items[j].parent # 0 => items[j].parent \in DOMAIN items
    BY <1>1, <2>1 DEF TypeOK
  <2> QED
    BY <2>1, <2>2, History
<1>3. CASE ~AdmitSeed /\ ~AdmitNeighbor
  <2>1. items' = items
    BY <1>3, ClaimedStep DEF Register
  <2> QED
    BY <1>2, <2>1 DEF Provenance
<1>4. CASE AdmitSeed \/ AdmitNeighbor
  <2>0. PICK m \in Nat : m = Len(items) + 1
    BY <1>1 DEF TypeOK
  <2>1. /\ Adds(m) /\ UNCHANGED <<pc, lo, hi>>
    BY <1>4, <2>0, Admission
  <2>2. /\ DOMAIN items' = DOMAIN items \cup {m} /\ m \notin DOMAIN items
        /\ \A i \in DOMAIN items : i < m
        /\ items'[m].identity = Ident(items'[m].target)
        /\ jobs'[m].dev.host = items'[m].target
    BY <2>1 DEF Adds, Added, Blank
  <2>3. /\ items'[m].parent < m
        /\ items'[m].parent # 0 => items'[m].depth = items'[items'[m].parent].depth + 1
        /\ \A i \in DOMAIN items : items[i].depth <= items'[m].depth
    <3>1. CASE Added(m, Seeds[di], 0, 0) /\ pc = "seed"
      <4>1. items'[m].parent = 0 /\ items'[m].depth = 0 /\ m \in Nat /\ 1 \in Nat
        BY <3>1 DEF Added
      <4>2. \A i \in DOMAIN items : items[i].depth = 0
        BY <3>1 DEF ClaimInv, Levels
      <4>3. 0 < m
        BY <1>1, <3>1 DEF Added, TypeOK
      <4> QED
        BY <4>1, <4>2, <4>3
    <3>2. CASE ~(Added(m, Seeds[di], 0, 0) /\ pc = "seed")
      <4>1. /\ Added(m, NextTarget(ThisClaim), items[di].depth + 1, di)
            /\ di \in lo..hi /\ di \in DOMAIN items
        BY <2>1, <3>2 DEF Adds
      <4>2. items'[m].parent = di /\ items'[m].depth = items[di].depth + 1
            /\ di < m /\ items'[di] = items[di]
        BY <4>1 DEF Added
      <4>3. \A i \in DOMAIN items :
                items[i].depth <= items[di].depth \/ items[i].depth = items[di].depth + 1
        BY <1>1, <4>1 DEF ClaimInv, Levels
      <4>4. \A i \in DOMAIN items : items[i].depth <= items[di].depth + 1
        BY <1>1, <4>1, <4>3
      <4> QED
        BY <4>2, <4>4
    <3> QED
      BY <3>1, <3>2
  <2>4. items'[m].depth \in Nat
    <3>1. items'[m] \in Item
      BY <2>2 DEF TypeOK
    <3> QED
      BY <3>1 DEF Item
  <2>5. ASSUME NEW i \in DOMAIN items', NEW j \in DOMAIN items', i <= j
        PROVE  items'[i].depth <= items'[j].depth
    <3>1. CASE j \in DOMAIN items
      <4>1. i \in DOMAIN items
        BY <1>1, <2>2, <2>4, <2>5, <3>1
      <4> QED
        BY <1>2, <2>5, <3>1, <4>1
    <3>2. CASE j = m
      BY <1>2, <2>2, <2>3, <2>4, <3>2
    <3> QED
      BY <2>2, <3>1, <3>2
  <2> QED
    BY <1>2, <2>2, <2>3, <2>5 DEF Provenance
<1> QED
  BY <1>3, <1>4

\* A name of a device dialed by name is a form of what it answers to.
LEMMA AnswersToIdentity ==
    ASSUME TypeOK, Provenance, NEW k \in DOMAIN items, ~IsAddr(items[k].identity)
    PROVE  \E a \in Aliases(jobs[k].dev) : Within(items[k].identity, a)
<1> DEFINE d == jobs[k].dev
           x == items[k].identity
           ids == {StripSuffixes(n) : n \in {d.host, d.sys, d.ip} \ {<<>>}}
           longer == {b \in ids : Within(x, b)}
<1>1. /\ items[k] \in Item /\ d \in Device /\ x \in Names /\ items[k].target \in Names
  BY ItemJobType DEF Item, Job
<1>2. ids \subseteq Names
  BY <1>1, StripSuffixesType DEF Device
<1>3. x \in longer
  <2>1. ~IsAddr(items[k].target)
    BY <1>1 DEF Provenance, Ident, StripSuffixes, IsAddr
  <2>2. x = StripSuffixes(d.host) /\ d.host # <<>>
    BY <1>1, <2>1 DEF Provenance, Ident, Device, Names
  <2> QED
    BY <1>1, <2>2, WithinReflexive
<1> HIDE DEF ids, d, x
<1>4. PICK a \in longer : \A b \in longer : ~(Len(b) > Len(a))
  <2>1. \A b \in longer : Len(b) \in Nat
    BY <1>2 DEF Names
  <2> DEFINE l1 == StripSuffixes(d.host)
             l2 == StripSuffixes(d.sys)
             l3 == StripSuffixes(d.ip)
  <2>2. longer \subseteq {l1, l2, l3}
    BY DEF ids
  <2> HIDE DEF longer, l1, l2, l3
  <2> QED
    BY <1>3, <2>1, <2>2
<1>5. a \in MostQualified(ids)
  <2>1. ASSUME NEW b \in ids, Len(b) > Len(a), SameDevice(a, b)
        PROVE  FALSE
    <3>1. Within(a, b) /\ a \in Names /\ b \in Names /\ Within(x, a)
      BY <1>2, <2>1 DEF Within, Names
    <3>2. Within(x, b)
      BY <1>1, <3>1, WithinTransitive DEF x
    <3> QED
      BY <1>4, <2>1, <3>2
  <2> QED
    BY <2>1 DEF MostQualified
<1> QED
  BY <1>5 DEF Aliases, ids, d, x

LEMMA SameLength ==
    ASSUME NEW a \in Names, NEW b \in Names, Within(a, b), ~(Len(a) < Len(b))
    PROVE  a = b
<1>1. a \in Seq(Labels) /\ b \in Seq(Labels) /\ Len(a) = Len(b)
  BY DEF Within, Names
<1>2. CASE a # b
  <2>1. \A n \in 1..Len(a) : a[n] = b[n]
    BY <1>1, <1>2 DEF Within, SameDevice, LabelPrefix
  <2> QED
    BY <1>1, <2>1
<1> QED
  BY <1>2

LEMMA StandsStep ==
    ASSUME ClaimInv, TypeOK', [Next]_vars, Provenance, EveryClaimStands
    PROVE  EveryClaimStands'
<1>1. TypeOK
  BY DEF ClaimInv
<1>2. ASSUME ~Register, NEW c, NEW k \in DOMAIN items, StandsFor(c, k)
      PROVE  k \in DOMAIN items' /\ StandsFor(c, k)'
  BY <1>2, History DEF StandsFor
<1>3. CASE ~Register /\ ~AdmitSeed /\ ~AdmitNeighbor
  BY <1>2, <1>3, ClaimedStep DEF EveryClaimStands
<1>4. CASE AdmitSeed \/ AdmitNeighbor
  <2>0. PICK m \in Nat : m = Len(items) + 1
    BY <1>1 DEF TypeOK
  <2>1. ~Register
    BY <1>4 DEF AdmitSeed, AdmitNeighbor, AtClaim, Walking, Register
  <2>2. /\ Adds(m) /\ UNCHANGED <<pc, lo, hi>>
    BY <1>4, <2>0, Admission
  <2>3. /\ m \in DOMAIN items' /\ claimed' = claimed \cup {items'[m].identity}
    BY <2>2 DEF Adds, Added
  <2>4. ~Registered(m)'
    <3>1. pc \in {"seed", "admit"} /\ pc' = pc /\ lo' = lo /\ hi' = hi
      BY <2>2 DEF Adds
    <3>2. m > hi /\ lo <= hi + 1 /\ hi \in Nat /\ lo \in Nat
      BY <1>1, <2>0 DEF TypeOK
    <3> QED
      BY <3>1, <3>2 DEF Registered
  <2>5. StandsFor(items[m].identity, m)'
    BY <2>4 DEF StandsFor
  <2> QED
    BY <1>2, <2>1, <2>3, <2>5 DEF EveryClaimStands
<1>5. CASE Register
  <2>0. PICK e \in Nat : e = di
    BY <1>1 DEF TypeOK
  <2>1. /\ items' = items /\ jobs' = jobs /\ e \in DOMAIN items
        /\ claimed' = AfterRegistering(jobs[e].dev)
        /\ Registered(e)'
    BY <1>1, <1>5, <2>0 DEF Register, TypeOK, Registered
  <2>2. ASSUME NEW c \in claimed', c \in Aliases(jobs[e].dev)
        PROVE  StandsFor(c, e)'
    BY <2>1, <2>2 DEF StandsFor
  <2>3. ASSUME NEW c \in claimed', c \notin Aliases(jobs[e].dev)
        PROVE  \E k \in DOMAIN items : StandsFor(c, k)'
    <3>1. c \in claimed /\ \A id \in Aliases(jobs[e].dev) : c \in Superseded(claimed, id)
      BY <2>1, <2>3 DEF AfterRegistering
    <3>2. PICK k \in DOMAIN items : StandsFor(c, k)
      BY <3>1 DEF EveryClaimStands
    <3>3. CASE Registered(k) /\ c \in Aliases(jobs[k].dev)
      BY <2>1, <3>2, <3>3, History DEF StandsFor
    <3>4. CASE c = items[k].identity /\ IsAddr(c)
      BY <2>1, <3>4 DEF StandsFor
    <3>5. CASE c = items[k].identity /\ ~Registered(k) /\ ~IsAddr(c)
      <4>1. CASE k = e
        <5>1. PICK a \in Aliases(jobs[e].dev) : Within(c, a)
          BY <1>1, <3>5, <4>1, AnswersToIdentity
        <5>2. c \in Names /\ a \in Names
          BY <1>1, <3>1, <4>1, <5>1, RegisteredAliases DEF TypeOK
        <5>3. ~(Len(c) < Len(a))
          BY <3>1, <5>1 DEF Superseded, Within
        <5> QED
          BY <2>3, <5>1, <5>2, <5>3, SameLength
      <4>2. CASE k # e
        <5>1. ~Registered(k)'
          BY <2>0, <3>5, <4>2, History
        <5> QED
          BY <2>1, <3>5, <5>1 DEF StandsFor
      <4> QED
        BY <4>1, <4>2
    <3> QED
      BY <3>2, <3>3, <3>4, <3>5 DEF StandsFor
  <2> QED
    BY <2>1, <2>2, <2>3 DEF EveryClaimStands
<1> QED
  BY <1>3, <1>4, <1>5

LEMMA CursorStep ==
    ASSUME ClaimInv, [Next]_vars, Cursor
    PROVE  Cursor'
<1>1. TypeOK
  BY DEF ClaimInv
<1>2. ASSUME NEW w \in lo..hi, Worker(w)
      PROVE  Cursor'
  BY <1>1, <1>2, WorkerType DEF Cursor
<1>3. CASE AdmitSeed \/ AdmitNeighbor
  BY <1>3 DEF AdmitSeed, AdmitNeighbor, Cursor
<1>4. CASE UNCHANGED <<pc, hi, di>>
  BY <1>4 DEF Cursor
<1>5. CASE \/ RefuseSeed \/ NextBatch \/ OpenBatch \/ AbandonBatch \/ FrontierEmpty
           \/ WaitAll \/ Register \/ Settle \/ NextDevice
  <2>1. lo \in Nat /\ hi \in Nat /\ di \in Nat /\ lo <= hi + 1
    BY <1>1 DEF TypeOK
  <2>2. \/ pc' \notin {"claim", "admit"}
        \/ di' = lo /\ hi' = hi
        \/ di' = di + 1 /\ di <= hi /\ hi' = hi
    BY <1>5 DEF RefuseSeed, NextBatch, OpenBatch, AbandonBatch, FrontierEmpty, WaitAll,
                Register, Settle, NextDevice, Walking
  <2> QED
    BY <2>1, <2>2 DEF Cursor
<1>6. CASE SkipClaim \/ Stop \/ Finished \/ UNCHANGED vars
  BY <1>4, <1>6 DEF SkipClaim, Stop, Finished, vars
<1> QED
  BY <1>2, <1>3, <1>5, <1>6 DEF Next, Step, Main

\* What accounted for a claim goes on to.
LEMMA AccountsKept ==
    ASSUME ClaimInv, TypeOK', [Next]_vars, NEW i \in DOMAIN items, NEW id,
           Accounted(i, id)
    PROVE  Accounted(i, id)'
<1>1. PICK k \in DOMAIN items : AccountsFor(k, i, id)
  BY DEF Accounted
<1>2. /\ k \in DOMAIN items' /\ items'[k] = items[k] /\ items'[i] = items[i]
      /\ Registered(k) => Registered(k)' /\ jobs'[k] = jobs[k]
  BY History
<1>3. AccountsFor(k, i, id)'
  BY <1>1, <1>2 DEF AccountsFor
<1> QED
  BY <1>2, <1>3 DEF Accounted

\* The walk looks at one claim more in a step, and at no other device's.
LEMMA SeenStep ==
    ASSUME ClaimInv, Cursor, [Next]_vars, NEW i \in DOMAIN items, NEW n \in Nat, n >= 1, Seen(i, n)'
    PROVE  /\ Registered(i)
           /\ \/ Seen(i, n)
              \/ (SkipClaim \/ AdmitNeighbor) /\ i = di /\ n = ni
              \/ NextDevice /\ i = di
<1>1. /\ TypeOK /\ BatchShape /\ i \in Nat /\ lo \in Nat /\ hi \in Nat /\ di \in Nat /\ ni \in Nat
      /\ i >= 1 /\ lo <= hi + 1 /\ di >= 1
  BY DEF ClaimInv, TypeOK
<1>2. CASE AdmitNeighbor \/ SkipClaim
  <2>1. pc = "admit" /\ pc' = pc /\ lo' = lo /\ hi' = hi /\ di' = di /\ ni' = ni + 1 /\ di <= hi
    BY <1>2 DEF AdmitNeighbor, SkipClaim, AtClaim, Walking,
                SkipUnusable, SkipExcluded, SkipNotAllowed, SkipClaimed
  <2> QED
    BY <1>1, <1>2, <2>1 DEF Seen, Walked, Registered
<1>3. CASE NextDevice
  <2>1. pc = "admit" /\ pc' = pc /\ lo' = lo /\ hi' = hi /\ di' = di + 1 /\ ni' = 1 /\ di <= hi
    BY <1>3 DEF NextDevice, Walking
  <2> QED
    BY <1>1, <1>3, <2>1 DEF Seen, Walked, Registered
<1>4. CASE NextBatch
  BY <1>1, <1>4 DEF NextBatch, Seen, Walked, Registered, BatchShape
<1>5. CASE Settle
  BY <1>1, <1>5 DEF Settle, Seen, Walked, Registered
<1>6. ASSUME lo' = lo, pc' # "admit"
      PROVE  Registered(i) /\ Seen(i, n)
  BY <1>6 DEF Seen, Walked, Registered
<1>7. CASE \/ AdmitSeed \/ RefuseSeed \/ OpenBatch \/ AbandonBatch \/ FrontierEmpty
           \/ WaitAll \/ Register
  BY <1>6, <1>7 DEF AdmitSeed, RefuseSeed, OpenBatch, AbandonBatch, FrontierEmpty, WaitAll, Register
<1>8. ASSUME NEW w \in lo..hi, Worker(w)
      PROVE  Registered(i) /\ Seen(i, n)
  BY <1>1, <1>6, <1>8, WorkerType
<1>9. CASE Stop \/ Finished \/ UNCHANGED vars
  <2>1. pc' = pc /\ lo' = lo /\ hi' = hi /\ di' = di /\ ni' = ni
    BY <1>9 DEF Stop, Finished, vars
  <2> QED
    BY <1>1, <2>1 DEF Seen, Walked, Registered, Cursor
<1> QED
  BY <1>2, <1>3, <1>4, <1>5, <1>7, <1>8, <1>9 DEF Next, Step, Main

\* A claim that is refused is accounted for by whom the refusing one stands for.
LEMMA RefusedIsAccounted ==
    ASSUME ClaimInv, EveryClaimStands, AtClaim, NEW id \in Names, Claimed(id)
    PROVE  Accounted(di, id)
<1>1. /\ TypeOK /\ Levels /\ di \in lo..hi /\ di \in DOMAIN items /\ pc = "admit"
  BY ThisClaimType DEF ClaimInv, AtClaim, Walking
<1>2. PICK c \in claimed : SameDevice(c, id)
  BY WithinReflexive DEF Claimed, Within
<1>3. PICK k \in DOMAIN items : StandsFor(c, k)
  BY DEF EveryClaimStands
<1>4. /\ k \in Nat /\ hi \in Nat /\ items[k].depth \in Nat /\ items[di].depth \in Nat
      /\ IF k <= hi THEN items[k].depth <= items[di].depth
                    ELSE items[k].depth = items[di].depth + 1
  <2>1. items[k].depth \in Nat /\ items[di].depth \in Nat
    BY <1>1, ItemJobType DEF Item
  <2> QED
    BY <1>1, <2>1 DEF Levels, TypeOK
<1>5. Registered(k) <=> k <= hi
  BY <1>1, <1>4 DEF Registered, TypeOK
<1>6. CASE c = items[k].identity /\ ~Registered(k)
  BY <1>2, <1>4, <1>5, <1>6 DEF Accounted, AccountsFor
<1>7. CASE c = items[k].identity /\ IsAddr(c)
  <2>1. c = id
    BY <1>2, <1>7 DEF SameDevice
  <2>2. items[k].depth <= items[di].depth + 1
    BY <1>4
  <2> QED
    BY <1>7, <2>1, <2>2 DEF Accounted, AccountsFor
<1>8. CASE Registered(k) /\ c \in Aliases(jobs[k].dev)
  BY <1>2, <1>4, <1>5, <1>8 DEF Accounted, AccountsFor
<1> QED
  BY <1>3, <1>6, <1>7, <1>8 DEF StandsFor

LEMMA AccountedStep ==
    ASSUME ClaimInv, Cursor, TypeOK', [Next]_vars, EveryClaimStands, AllAccounted
    PROVE  AllAccounted'
<1>1. TypeOK
  BY DEF ClaimInv
<1>2. ASSUME NEW i \in DOMAIN items, NEW n \in DOMAIN jobs'[i].dev.nbrs, Seen(i, n)',
             Propagates(i)', Dialable(jobs[i].dev.nbrs[n])'
      PROVE  Accounted(i, ClaimKey(jobs[i].dev.nbrs[n]))'
  <2> DEFINE c == jobs[i].dev.nbrs[n]
  <2>1. n \in Nat /\ n >= 1
    <3>1. i \in DOMAIN items'
      BY History
    <3>2. jobs'[i] \in Job
      BY <3>1 DEF TypeOK
    <3>3. jobs'[i].dev.nbrs \in Seq(Claim)
      BY <3>2 DEF Job, Device
    <3> QED
      BY <3>3
  <2>2. /\ Registered(i)
        /\ \/ Seen(i, n)
           \/ (SkipClaim \/ AdmitNeighbor) /\ i = di /\ n = ni
           \/ NextDevice /\ i = di
    BY <1>2, <2>1, SeenStep
  <2>3. jobs'[i] = jobs[i] /\ items'[i] = items[i] /\ excluded \subseteq excluded'
    BY <2>2, History
  <2>4. Propagates(i) /\ Dialable(c) /\ n \in DOMAIN jobs[i].dev.nbrs
    BY <1>2, <2>3 DEF Propagates, Dialable
  <2>5. PICK id : id = ClaimKey(c)
    OBVIOUS
  <2>6. Accounted(i, id)' => Accounted(i, ClaimKey(jobs[i].dev.nbrs[n]))'
    BY <2>3, <2>5
  <2>7. CASE Seen(i, n)
    BY <2>4, <2>5, <2>6, <2>7, AccountsKept DEF AllAccounted
  <2>8. CASE SkipClaim /\ i = di /\ n = ni
    <3>1. AtClaim /\ c = ThisClaim /\ SkipClaimed
      BY <2>4, <2>8 DEF SkipClaim, SkipUnusable, SkipExcluded, SkipNotAllowed, SkipClaimed,
                        Dialable, ThisClaim
    <3>2. id \in Names /\ Claimed(id)
      <4>1. c \in Claim /\ Usable(c)
        BY <1>1, <2>4, <3>1, ThisClaimType DEF Dialable
      <4> QED
        BY <2>5, <3>1, <4>1, NextTargetType, DialStringType, StripSuffixesType
           DEF SkipClaimed, Admissible, ClaimKey, Ident
    <3> QED
      BY <2>6, <2>8, <3>1, <3>2, RefusedIsAccounted, AccountsKept
  <2>9. CASE AdmitNeighbor /\ i = di /\ n = ni
    <3>0. PICK m \in Nat : m = Len(items) + 1
      BY <1>1 DEF TypeOK
    <3>1. Adds(m) /\ pc = "admit"
      BY <2>9, <3>0, Admission DEF AdmitNeighbor, AtClaim, Walking
    <3>2. /\ m \in DOMAIN items' /\ items'[m].identity = id
          /\ items'[m].depth = items'[i].depth + 1
      BY <2>3, <2>5, <2>9, <3>1 DEF Adds, Added, ThisClaim, ClaimKey
    <3>3. items'[m].depth \in Nat
      <4>1. items'[m] \in Item
        BY <3>2 DEF TypeOK
      <4> QED
        BY <4>1 DEF Item
    <3>4. AccountsFor(m, i, id)'
      BY <3>2, <3>3 DEF AccountsFor
    <3> QED
      BY <2>6, <3>2, <3>4 DEF Accounted
  <2>10. CASE NextDevice /\ i = di
    <3>1. Seen(i, n)
      <4>1. n < ni
        <5>1. jobs[i].dev.nbrs \in Seq(Claim)
          <6>1. jobs[i] \in Job
            BY <1>1, ItemJobType
          <6> QED
            BY <6>1 DEF Job, Device
        <5>2. ni > Len(jobs[i].dev.nbrs) /\ ni \in Nat
          BY <1>1, <2>4, <2>10 DEF NextDevice, TypeOK
        <5> QED
          BY <2>4, <5>1, <5>2
      <4> QED
        BY <2>10, <4>1 DEF NextDevice, Walking, Seen
    <3> QED
      BY <2>7, <3>1
  <2> QED
    BY <2>2, <2>7, <2>8, <2>9, <2>10
<1>3. ASSUME NEW m \in DOMAIN items', m \notin DOMAIN items
      PROVE  DOMAIN jobs'[m].dev.nbrs = {}
  <2>1. AdmitSeed \/ AdmitNeighbor
    BY <1>3, ClaimedStep DEF Register
  <2>2. jobs'[m].dev = Blank(items'[m], "none")
    BY <1>3, <2>1, Admission DEF Adds, Added
  <2> QED
    BY <2>2 DEF Blank
<1> QED
  BY <1>2, <1>3 DEF AllAccounted

LEMMA EvidenceStep ==
    ASSUME ClaimInv, TypeOK', [Next]_vars, EvidenceKept
    PROVE  EvidenceKept'
<1>1. TypeOK
  BY DEF ClaimInv
<1>2. ASSUME NEW i \in DOMAIN items, Settled(i)', NEW n \in DOMAIN jobs'[i].dev.nbrs,
             Usable(jobs'[i].dev.nbrs[n]), jobs'[i].dev.nbrs[n].excl
      PROVE  Ident(NextTarget(jobs'[i].dev.nbrs[n])) \in excluded'
  <2>1. Settled(i) \/ (Settle /\ i \in lo..hi)
    BY <1>2, History
  <2>2. CASE Settled(i)
    <3>1. jobs'[i] = jobs[i] /\ excluded \subseteq excluded'
      BY <2>2, History DEF Settled, Registered
    <3> QED
      BY <1>2, <2>2, <3>1 DEF EvidenceKept, ClaimsOf
  <2>3. CASE Settle /\ i \in lo..hi
    <3>1. jobs' = jobs /\ excluded' = excluded \cup ExcludedBy(lo..hi)
      BY <2>3 DEF Settle
    <3>2. Ident(NextTarget(jobs[i].dev.nbrs[n])) \in ExcludedBy(lo..hi)
      BY <1>2, <2>3, <3>1 DEF ExcludedBy
    <3> QED
      BY <3>1, <3>2
  <2> QED
    BY <2>1, <2>2, <2>3
<1>3. ASSUME NEW m \in DOMAIN items', m \notin DOMAIN items
      PROVE  ~Settled(m)'
  <2>1. AdmitSeed \/ AdmitNeighbor
    BY <1>3, ClaimedStep DEF Register
  <2>2. m = Len(items) + 1 /\ lo' = lo /\ hi' = hi
    BY <1>3, <2>1, Admission DEF Adds, Added
  <2>3. ~(m < lo) /\ ~(m <= hi)
    BY <1>1, <2>2 DEF TypeOK
  <2> QED
    BY <2>2, <2>3 DEF Settled
<1> QED
  BY <1>2, <1>3 DEF EvidenceKept, ClaimsOf

LEMMA JudgedStep ==
    ASSUME ClaimInv, TypeOK', [Next]_vars, EvidenceKept, JudgedOnAllEvidence
    PROVE  JudgedOnAllEvidence'
<1>1. TypeOK /\ BatchShape /\ Levels
  BY DEF ClaimInv
<1>2. ASSUME NEW i \in DOMAIN items, NEW j \in DOMAIN items, items'[j].parent # 0,
             items'[i].depth < items'[j].depth,
             NEW n \in DOMAIN jobs'[i].dev.nbrs,
             Usable(jobs'[i].dev.nbrs[n]), jobs'[i].dev.nbrs[n].excl
      PROVE  Ident(NextTarget(jobs'[i].dev.nbrs[n])) # Ident(items'[j].reported)
  <2>1. items'[i] = items[i] /\ items'[j] = items[j]
    BY History
  <2>2. jobs'[i] = jobs[i]
    BY <1>1, <1>2, <2>1, EarlierRegistered, History
  <2> QED
    BY <1>2, <2>1, <2>2 DEF JudgedOnAllEvidence, ClaimsOf
<1>3. CASE ~AdmitSeed /\ ~AdmitNeighbor
  <2>1. items' = items
    BY <1>3, ClaimedStep DEF Register
  <2> QED
    BY <1>2, <2>1 DEF JudgedOnAllEvidence, ClaimsOf
<1>4. CASE AdmitSeed \/ AdmitNeighbor
  <2>0. PICK m \in Nat : m = Len(items) + 1
    BY <1>1 DEF TypeOK
  <2>1. Adds(m)
    BY <1>4, <2>0, Admission
  <2>2. DOMAIN items' = DOMAIN items \cup {m} /\ DOMAIN jobs'[m].dev.nbrs = {}
        /\ \A i \in DOMAIN items : jobs'[i] = jobs[i] /\ items'[i] = items[i]
    BY <2>1 DEF Adds, Added, Blank
  <2>3. ASSUME NEW i \in DOMAIN items, items'[m].parent # 0, items'[i].depth < items'[m].depth,
               NEW n \in DOMAIN jobs[i].dev.nbrs,
               Usable(jobs[i].dev.nbrs[n]), jobs[i].dev.nbrs[n].excl
        PROVE  Ident(NextTarget(jobs[i].dev.nbrs[n])) # Ident(items'[m].reported)
    <3>1. /\ items'[m].reported = NextTarget(ThisClaim) /\ Dialable(ThisClaim)
          /\ items'[m].depth = items[di].depth + 1
          /\ di \in lo..hi /\ di \in DOMAIN items /\ pc = "admit"
      BY <2>1, <2>3 DEF Adds, Added
    <3>2. items[i].depth < items[di].depth + 1
      BY <2>2, <2>3, <3>1
    <3>3. i <= hi
      <4>1. items[di].depth \in Nat /\ i \in Nat /\ hi \in Nat
        BY <1>1, <3>1, ItemJobType DEF Item, TypeOK
      <4> QED
        BY <1>1, <3>1, <3>2, <4>1 DEF Levels
    <3>4. Ident(NextTarget(jobs[i].dev.nbrs[n])) \in excluded
      BY <2>3, <3>1, <3>3 DEF EvidenceKept, Settled, ClaimsOf
    <3> QED
      BY <3>1, <3>4 DEF Dialable
  <2> QED
    BY <1>2, <2>2, <2>3 DEF JudgedOnAllEvidence, ClaimsOf
<1> QED
  BY <1>3, <1>4

-----------------------------------------------------------------------------
(* The list of returned devices.                                           *)

LEMMA CountedOn ==
    ASSUME NEW a \in Nat, NEW b \in Nat, a <= b + 1, a >= 1, NEW s,
           s = [i \in 1..(a - 1) |-> i]
    PROVE  s \o [k \in 1..(b - a + 1) |-> a + k - 1] = [i \in 1..b |-> i]
<1> DEFINE t == [k \in 1..(b - a + 1) |-> a + k - 1]
<1>1. a - 1 \in Nat /\ b - a + 1 \in Nat
  OBVIOUS
<1>2. s \in Seq(Nat) /\ Len(s) = a - 1
  <2>1. s \in [1..(a - 1) -> Nat]
    BY <1>1
  <2> QED
    BY <1>1, <2>1, SeqOfFunction
<1>3. t \in Seq(Nat) /\ Len(t) = b - a + 1
  <2>1. t \in [1..(b - a + 1) -> Nat]
    BY <1>1
  <2> QED
    BY <1>1, <2>1, SeqOfFunction
<1>4. \A k \in 1..(b - a + 1) : t[k] = a + k - 1
  OBVIOUS
<1> HIDE DEF t
<1>5. s \o t \in Seq(Nat) /\ Len(s \o t) = b
  BY <1>1, <1>2, <1>3
<1>6. \A i \in 1..b : (s \o t)[i] = i
  <2> SUFFICES ASSUME NEW i \in 1..b
               PROVE  (s \o t)[i] = i
    OBVIOUS
  <2>1. CASE i <= a - 1
    <3>1. (s \o t)[i] = s[i]
      BY <1>1, <1>2, <1>3, <2>1
    <3> QED
      BY <2>1, <3>1
  <2>2. CASE ~(i <= a - 1)
    <3>1. (s \o t)[i] = t[i - (a - 1)]
      BY <1>1, <1>2, <1>3, <2>2
    <3>2. i - (a - 1) \in 1..(b - a + 1)
      BY <2>2
    <3>3. t[i - (a - 1)] = a + (i - (a - 1)) - 1
      BY <1>4, <3>2
    <3>4. a + (i - (a - 1)) - 1 = i
      OBVIOUS
    <3> QED
      BY <3>1, <3>3, <3>4
  <2> QED
    BY <2>1, <2>2
<1>7. s \o t = [i \in 1..b |-> i]
  BY <1>5, <1>6
<1> QED
  BY <1>7 DEF t

LEMMA FiledStep ==
    ASSUME ClaimInv, TypeOK', [Next]_vars, Cursor, Filed
    PROVE  Filed'
<1>1. /\ TypeOK /\ BatchShape /\ lo \in Nat /\ hi \in Nat /\ Len(items) \in Nat /\ lo >= 1
      /\ lo <= hi + 1 /\ hi <= Len(items) /\ Len(jobs) = Len(items) /\ DOMAIN jobs = 1..Len(items)
  BY DEF ClaimInv, TypeOK
<1> DEFINE Kept(i) == /\ jobs[i].st = "done" => jobs[i].dev.status # "none"
                      /\ jobs[i].dev.status = "stopped" => stopped
<1>2. CASE AdmitSeed \/ AdmitNeighbor
  <2>0. PICK m \in Nat : m = Len(items) + 1
    BY <1>1
  <2>1. Adds(m) /\ UNCHANGED <<pc, lo, hi, devices, stopped>> /\ pc \in {"seed", "admit"}
    BY <1>2, <2>0, Admission DEF Adds
  <2>2. /\ FiledTo' = FiledTo /\ ~(m <= FiledTo)
    BY <1>1, <2>0, <2>1 DEF FiledTo
  <2>3. /\ DOMAIN jobs' = DOMAIN jobs \cup {m} /\ \A i \in DOMAIN jobs : jobs'[i] = jobs[i]
        /\ jobs'[m].st = "queued" /\ jobs'[m].dev.status = "none"
    <3>1. \E n, d, p : Added(m, n, d, p)
      BY <2>1 DEF Adds
    <3>2. DOMAIN items = DOMAIN jobs
      BY <1>1
    <3>3. /\ DOMAIN jobs' = DOMAIN items \cup {m} /\ \A i \in DOMAIN items : jobs'[i] = jobs[i]
          /\ jobs'[m].st = "queued" /\ jobs'[m].dev = Blank(items'[m], "none")
      BY <3>1 DEF Added
    <3>4. PICK it : jobs'[m].dev = Blank(it, "none")
      BY <3>3
    <3>5. jobs'[m].dev.status = "none"
      BY <3>4 DEF Blank
    <3> QED
      BY <3>2, <3>3, <3>5
  <2> QED
    BY <2>1, <2>2, <2>3 DEF Filed
<1>3. CASE \/ RefuseSeed \/ NextDevice \/ SkipClaim \/ Finished \/ OpenBatch \/ Register
           \/ UNCHANGED vars \/ Stop
  <2>1. /\ UNCHANGED <<items, jobs, lo, hi, devices>> /\ (stopped => stopped')
        /\ pc' = pc \/ (pc = "batch" /\ pc' = "collect")
    BY <1>3 DEF RefuseSeed, NextDevice, SkipClaim, Finished, OpenBatch, Register, vars, Stop
  <2>2. FiledTo' = FiledTo
    BY <2>1 DEF FiledTo
  <2> QED
    BY <2>1, <2>2 DEF Filed
<1>4. CASE NextBatch
  <2>1. /\ UNCHANGED <<items, jobs, devices, stopped>> /\ pc' = "batch" /\ lo' = hi + 1
        /\ \/ pc = "seed" /\ lo = 1 /\ hi = 0
           \/ pc = "admit"
    BY <1>1, <1>4 DEF NextBatch, BatchShape
  <2>2. FiledTo' = FiledTo
    <3>0. FiledTo' = lo' - 1
      BY <2>1 DEF FiledTo
    <3>1. FiledTo' = hi
      <4>1. lo' = hi + 1 /\ hi \in Nat
        BY <1>1, <2>1
      <4>2. lo' - 1 = hi
        BY <4>1
      <4> QED
        BY <3>0, <4>2
    <3>2. ASSUME pc = "admit"
          PROVE  FiledTo = hi
      BY <3>2 DEF FiledTo
    <3>3. ASSUME pc = "seed", lo = 1, hi = 0
          PROVE  FiledTo = hi
      <4>1. FiledTo = lo - 1
        BY <3>3 DEF FiledTo
      <4>2. lo - 1 = hi
        BY <3>3
      <4> QED
        BY <4>1, <4>2
    <3> QED
      BY <2>1, <3>1, <3>2, <3>3
  <2> QED
    BY <2>1, <2>2 DEF Filed
<1>5. CASE FrontierEmpty
  <2>1. /\ UNCHANGED <<items, jobs, devices, stopped>> /\ pc' = "done" /\ pc = "batch" /\ lo > hi
        /\ hi = Len(items)
    BY <1>1, <1>5 DEF FrontierEmpty, BatchShape
  <2>2. FiledTo' = FiledTo
    BY <1>1, <2>1 DEF FiledTo
  <2> QED
    BY <2>1, <2>2 DEF Filed
<1>6. CASE WaitAll
  <2>1. /\ UNCHANGED <<items, jobs, lo, hi, devices, stopped>> /\ pc' = "claim" /\ pc = "collect"
        /\ \A i \in lo..hi : jobs[i].st = "done"
    BY <1>6 DEF WaitAll
  <2>2. FiledTo' = lo - 1 /\ FiledTo = lo - 1
    BY <2>1 DEF FiledTo
  <2>3. \A i \in DOMAIN jobs : i <= hi => i <= FiledTo \/ i \in lo..hi
    BY <1>1, <2>2
  <2> QED
    BY <2>1, <2>2, <2>3 DEF Filed
<1>7. CASE Settle
  <2>1. /\ UNCHANGED <<items, jobs, lo, hi, stopped>> /\ pc' = "admit" /\ pc = "claim"
        /\ devices' = devices \o [k \in 1..(hi - lo + 1) |-> lo + k - 1]
    BY <1>7 DEF Settle
  <2>2. FiledTo' = hi /\ FiledTo = lo - 1
    BY <2>1 DEF FiledTo
  <2>3. devices' = [i \in 1..hi |-> i]
    BY <1>1, <2>1, <2>2, CountedOn DEF Filed
  <2> QED
    BY <2>1, <2>2, <2>3 DEF Filed
<1>8. CASE AbandonBatch
  <2>1. /\ UNCHANGED <<items, lo, hi, stopped>> /\ pc' = "done" /\ pc = "batch" /\ stopped
        /\ hi = Len(items)
        /\ devices' = devices \o [k \in 1..(hi - lo + 1) |-> lo + k - 1]
        /\ DOMAIN jobs' = DOMAIN jobs
        /\ \A i \in DOMAIN jobs : jobs'[i] =
              IF i \in lo..hi
              THEN [jobs[i] EXCEPT !.st = "done", !.dev = Blank(items[i], "stopped")]
              ELSE jobs[i]
    BY <1>1, <1>8 DEF AbandonBatch, BatchShape
  <2>2. FiledTo' = hi /\ FiledTo = lo - 1
    BY <2>1 DEF FiledTo
  <2>3. devices' = [i \in 1..hi |-> i]
    <3>1. devices = [i \in 1..(lo - 1) |-> i]
      BY <2>2 DEF Filed
    <3>2. devices \o [k \in 1..(hi - lo + 1) |-> lo + k - 1] = [i \in 1..hi |-> i]
      BY <1>1, <3>1, CountedOn
    <3> QED
      BY <2>1, <3>2
  <2>4. ASSUME NEW i \in DOMAIN jobs
        PROVE  jobs'[i].st = "done" /\ jobs'[i].dev.status # "none"
    <3>1. CASE i \in lo..hi
      <4>1. jobs[i] \in Job
        BY <1>1, ItemJobType DEF TypeOK
      <4>2. jobs'[i].st = "done" /\ jobs'[i].dev = Blank(items[i], "stopped")
        BY <2>1, <3>1, <4>1 DEF Job
      <4> QED
        BY <4>2 DEF Blank
    <3>2. CASE ~(i \in lo..hi)
      <4>1. jobs'[i] = jobs[i]
        BY <2>1, <3>2
      <4>2. i \in 1..hi
        BY <1>1, <2>1
      <4>3. i < lo /\ lo \in Nat /\ i \in Nat
        BY <1>1, <3>2, <4>2
      <4>4. i <= FiledTo
        BY <2>2, <4>3
      <4> QED
        BY <4>1, <4>4 DEF Filed
    <3> QED
      BY <3>1, <3>2
  <2> QED
    BY <2>1, <2>2, <2>3, <2>4 DEF Filed
<1>9. ASSUME NEW w \in lo..hi, Worker(w)
      PROVE  Filed'
  <2>1. /\ UNCHANGED <<pc, items, lo, hi, devices, stopped>> /\ pc = "collect"
        /\ Len(jobs') = Len(items) /\ \A k \in DOMAIN jobs : k # w => jobs'[k] = jobs[k]
        /\ DOMAIN jobs' = DOMAIN jobs
    BY <1>1, <1>9, WorkerType
  <2>2. FiledTo' = FiledTo /\ FiledTo = lo - 1 /\ ~(w <= FiledTo)
    BY <1>1, <2>1 DEF FiledTo
  <2>3. /\ jobs'[w].st = "done" => jobs'[w].dev.status # "none"
        /\ jobs'[w].dev.status = "stopped" => stopped
    BY <1>1, <1>9, WorkerJob DEF Filed
  <2> QED
    BY <2>1, <2>2, <2>3 DEF Filed
<1> QED
  BY <1>2, <1>3, <1>4, <1>5, <1>6, <1>7, <1>8, <1>9 DEF Next, Step, Main

LEMMA AccountInit ==
    ASSUME Init
    PROVE  Account
<1>1. DOMAIN items = {} /\ DOMAIN jobs = {} /\ pc = "seed" /\ lo = 1 /\ devices = <<>>
      /\ claimed = {}
  BY DEF Init
<1>2. FiledTo = lo - 1 /\ lo - 1 = 0
  BY <1>1 DEF FiledTo
<1>3. 1..FiledTo = {}
  BY <1>2
<1>4. devices = [i \in 1..FiledTo |-> i]
  BY <1>1, <1>3
<1> QED
  BY <1>1, <1>4 DEF Account, Cursor, Provenance, EveryClaimStands, AllAccounted, EvidenceKept,
                    JudgedOnAllEvidence, Filed

LEMMA AccountStep ==
    ASSUME ClaimInv, TypeOK', [Next]_vars, Account
    PROVE  Account'
<1>1. /\ Cursor /\ Provenance /\ EveryClaimStands /\ AllAccounted /\ EvidenceKept
      /\ JudgedOnAllEvidence /\ Filed
  BY DEF Account
<1>2. Cursor'
  BY <1>1, CursorStep
<1>3. Provenance'
  BY <1>1, ProvenanceStep
<1>4. EveryClaimStands'
  BY <1>1, StandsStep
<1>5. AllAccounted'
  BY <1>1, AccountedStep
<1>6. EvidenceKept'
  BY <1>1, EvidenceStep
<1>7. JudgedOnAllEvidence'
  BY <1>1, JudgedStep
<1>8. Filed'
  BY <1>1, FiledStep
<1> QED
  BY <1>2, <1>3, <1>4, <1>5, <1>6, <1>7, <1>8 DEF Account

\* The crawl's books are kept: every claim of the set stands for a device, and
\* every neighbor, every piece of evidence and every result is accounted for.
THEOREM CrawlAccount == Spec => []Account
<1>1. Init => ClaimInv /\ Account
  BY ClaimInvInit, AccountInit
<1>2. ClaimInv /\ Account /\ [Next]_vars => (ClaimInv /\ Account)'
  <2> SUFFICES ASSUME ClaimInv, Account, [Next]_vars
               PROVE  ClaimInv' /\ Account'
    OBVIOUS
  <2>1. ClaimInv'
    BY ClaimInvStep
  <2>2. TypeOK'
    BY <2>1 DEF ClaimInv
  <2> QED
    BY <2>1, <2>2, AccountStep
<1> QED
  BY <1>1, <1>2, PTL DEF Spec

\* Two forms of one name: the same, or one the bare form of the other.
LEMMA TwoForms ==
    ASSUME NEW a \in Names, NEW b \in Names, SameDevice(a, b)
    PROVE  \/ a = b
           \/ Within(a, b) /\ Bare(a, b) /\ ~IsAddr(a) /\ ~IsAddr(b)
           \/ Within(b, a) /\ Bare(b, a) /\ ~IsAddr(a) /\ ~IsAddr(b)
<1>1. /\ Len(a) \in Nat /\ Len(b) \in Nat /\ a # <<>> /\ b # <<>>
      /\ LabelPrefix(a, b) => Len(a) <= Len(b)
      /\ LabelPrefix(b, a) => Len(b) <= Len(a)
  BY DEF Names, LabelPrefix
<1> QED
  BY <1>1 DEF SameDevice, Within, Bare

LEMMA ClaimKeyType ==
    ASSUME NEW c \in Claim, Usable(c)
    PROVE  ClaimKey(c) \in Names
BY NextTargetType, DialStringType, StripSuffixesType DEF ClaimKey, Ident

LEMMA ClaimsOfType ==
    ASSUME TypeOK, NEW i \in DOMAIN items
    PROVE  ClaimsOf(i) \subseteq Claim
<1>1. jobs[i].dev.nbrs \in Seq(Claim)
  BY ItemJobType DEF Job, Device
<1> QED
  BY <1>1 DEF ClaimsOf

\* A claim that was walked past is accounted for.
LEMMA WalkedIsAccounted ==
    ASSUME AllAccounted, NEW i \in DOMAIN items, Walked(i), Propagates(i),
           NEW c \in ClaimsOf(i), Dialable(c)
    PROVE  \E k \in DOMAIN items : AccountsFor(k, i, ClaimKey(c))
<1>1. PICK n \in DOMAIN jobs[i].dev.nbrs : c = jobs[i].dev.nbrs[n]
  BY DEF ClaimsOf
<1>2. Seen(i, n)
  BY DEF Seen
<1> QED
  BY <1>1, <1>2 DEF AllAccounted, Accounted

\* No neighbor the admission pass found dialable is dropped without a device
\* that accounts for it (tryClaim, registerAliases).
THEOREM CrawlNothingLost == Spec => []NothingLost
<1>1. ClaimInv /\ Account => NothingLost
  <2> SUFFICES ASSUME ClaimInv, Account,
                      NEW i \in DOMAIN items, Walked(i), Propagates(i),
                      NEW c \in ClaimsOf(i), Dialable(c)
               PROVE  \E j \in DOMAIN items :
                         \/ AnswersFor(j, ClaimKey(c))
                         \/ items[j].identity = ClaimKey(c)
                         \/ items[j].depth = items[i].depth + 1
                            /\ Within(items[j].identity, ClaimKey(c))
    BY DEF NothingLost
  <2>1. TypeOK /\ Provenance /\ AllAccounted
    BY DEF ClaimInv, Account
  <2>2. PICK id \in Names : id = ClaimKey(c)
    BY <2>1, ClaimsOfType, ClaimKeyType DEF Dialable
  <2>3. PICK k \in DOMAIN items : AccountsFor(k, i, id)
    BY <2>1, <2>2, WalkedIsAccounted
  <2>4. items[k].identity \in Names /\ Aliases(jobs[k].dev) \subseteq Names
    BY <2>1, RegisteredAliases
  <2>5. CASE items[k].identity = id
    BY <2>2, <2>5
  <2>6. CASE Registered(k) /\ \E a \in Aliases(jobs[k].dev) : SameDevice(a, id)
    BY <2>2, <2>6 DEF AnswersFor
  <2>7. CASE SameDevice(items[k].identity, id) /\ items[k].depth = items[i].depth + 1
    <3>1. CASE ~Registered(k)
      BY <2>2, <2>7, <3>1 DEF AnswersFor
    <3>2. CASE Within(items[k].identity, id)
      BY <2>2, <2>7, <3>2
    <3>3. CASE Registered(k) /\ Within(id, items[k].identity) /\ ~IsAddr(items[k].identity)
      <4>1. PICK a \in Aliases(jobs[k].dev) : Within(items[k].identity, a)
        BY <2>1, <3>3, AnswersToIdentity
      <4>2. Within(id, a)
        BY <2>4, <3>3, <4>1, WithinTransitive
      <4>3. SameDevice(a, id)
        BY <2>4, <4>1, <4>2, SameDeviceSymmetric DEF Within
      <4> QED
        BY <2>6, <3>3, <4>1, <4>3
    <3> QED
      BY <2>4, <2>5, <2>7, <3>1, <3>2, <3>3, TwoForms
  <2> QED
    BY <2>3, <2>5, <2>6, <2>7 DEF AccountsFor
<1> QED
  BY <1>1, CrawlClaimInv, CrawlAccount, PTL

\* Exclusion is settled against the whole batch before any claim of it is
\* acted on (markExcluded).
THEOREM CrawlJudgedOnAllEvidence == Spec => []JudgedOnAllEvidence
<1>1. Account => JudgedOnAllEvidence
  BY DEF Account
<1> QED
  BY <1>1, CrawlAccount, PTL

\* Every admitted device is returned once, in admission order, with a result
\* (claimAll, recordCancelled).
THEOREM CrawlAllReturned == Spec => []AllReturned
<1>1. ClaimInv /\ Account => AllReturned
  <2> SUFFICES ASSUME ClaimInv, Account, pc = "done"
               PROVE  /\ devices = [i \in 1..Len(items) |-> i]
                      /\ \A i \in DOMAIN jobs :
                            /\ jobs[i].st = "done" /\ jobs[i].dev.status # "none"
                            /\ jobs[i].dev.status = "stopped" => stopped
    BY DEF AllReturned
  <2>1. FiledTo = Len(items) /\ DOMAIN jobs = 1..Len(items) /\ Filed /\ Len(items) \in Nat
    BY DEF ClaimInv, Account, TypeOK, FiledTo
  <2> QED
    BY <2>1 DEF Filed
<1> QED
  BY <1>1, CrawlClaimInv, CrawlAccount, PTL

\* A device is dialed at most one hop deeper than any device that reports it,
\* unless a bare form of its name stood in its way (admit, CrawlContext).
THEOREM CrawlDepthIsHops == Spec => []DepthIsHops
<1>1. ClaimInv /\ Account => DepthIsHops
  <2> SUFFICES ASSUME ClaimInv, Account, NEW i \in DOMAIN items, NEW j \in DOMAIN items
               PROVE  /\ items[j].parent = i => items[j].depth = items[i].depth + 1
                      /\ /\ Walked(i) /\ Propagates(i)
                         /\ \E c \in ClaimsOf(i) : Dialable(c) /\ ClaimKey(c) = items[j].identity
                         /\ ~BareStood(i, items[j].identity)
                         => items[j].depth <= items[i].depth + 1
    BY DEF DepthIsHops
  <2>1. TypeOK /\ Provenance /\ AllAccounted /\ OneVisit
    BY DEF ClaimInv, Account
  <2>2. \A k \in DOMAIN items : k \in Nat /\ k # 0 /\ items[k].depth \in Nat
    <3> TAKE k \in DOMAIN items
    <3>1. items[k] \in Item /\ k \in Nat
      BY <2>1, ItemJobType
    <3>2. k # 0
      BY <2>1 DEF TypeOK
    <3> QED
      BY <3>1, <3>2 DEF Item
  <2>3. items[j].parent = i => items[j].depth = items[i].depth + 1
    BY <2>1, <2>2 DEF Provenance
  <2>4. ASSUME Walked(i), Propagates(i), NEW c \in ClaimsOf(i), Dialable(c),
               ClaimKey(c) = items[j].identity, ~BareStood(i, items[j].identity)
        PROVE  items[j].depth <= items[i].depth + 1
    <3> DEFINE id == items[j].identity
    <3>1. PICK k \in DOMAIN items : AccountsFor(k, i, id)
      BY <2>1, <2>4, WalkedIsAccounted
    <3>2. /\ id \in Names /\ items[k].identity \in Names
          /\ Aliases(jobs[k].dev) \subseteq Names
      BY <2>1, RegisteredAliases
    <3>3. ASSUME Within(id, items[k].identity)
          PROVE  items[j].depth <= items[k].depth
      BY <2>1, <2>2, <3>3 DEF OneVisit, Provenance
    <3>4. CASE items[k].identity = id /\ items[k].depth <= items[i].depth + 1
      BY <2>2, <3>2, <3>3, <3>4, WithinReflexive
    <3>5. CASE SameDevice(items[k].identity, id) /\ items[k].depth = items[i].depth + 1
      <4>1. ~Bare(items[k].identity, id)
        BY <2>4, <3>5 DEF BareStood
      <4>2. Within(id, items[k].identity)
        BY <3>2, <3>5, <4>1, TwoForms, WithinReflexive
      <4> QED
        BY <2>2, <3>3, <3>5, <4>2
    <3>6. CASE \E a \in Aliases(jobs[k].dev) :
                  SameDevice(a, id) /\ items[k].depth <= items[i].depth
      <4>1. PICK a \in Aliases(jobs[k].dev) : SameDevice(a, id)
        BY <3>6
      <4>2. ~Bare(a, id)
        BY <2>4, <3>6, <4>1 DEF BareStood
      <4>3. Within(id, a)
        BY <3>2, <4>1, <4>2, TwoForms, WithinReflexive
      <4>4. ~(items[k].depth < items[j].depth)
        BY <2>1, <4>1, <4>3 DEF OneVisit
      <4> QED
        BY <2>2, <3>6, <4>4
    <3> QED
      BY <3>1, <3>4, <3>5, <3>6 DEF AccountsFor
  <2> QED
    BY <2>3, <2>4
<1> QED
  BY <1>1, CrawlClaimInv, CrawlAccount, PTL

\* The crawl is walked level by level to its end: everyone is returned, once
\* and in order, at the depth that is the number of hops.
THEOREM CrawlReturnedByLevel == Spec => []ReturnedByLevel
<1>1. AllReturned /\ DepthIsHops => ReturnedByLevel
  BY DEF ReturnedByLevel
<1> QED
  BY <1>1, CrawlAllReturned, CrawlDepthIsHops, PTL

-----------------------------------------------------------------------------
(* Stopping.                                                               *)

LEMMA StoppedStep ==
    ASSUME TypeOK, [Next]_vars, stopped, NEW i \in DOMAIN jobs
    PROVE  /\ jobs'[i].st = "busy" => jobs[i].st = "busy"
           /\ jobs'[i].try = jobs[i].try
<1> DEFINE Same == jobs'[i] = jobs[i]
<1>1. i \in DOMAIN items
  BY DEF TypeOK
<1>2. CASE AdmitSeed
  BY <1>1, <1>2, AdmitKeeps, CrawlAssumption DEF AdmitSeed, TypeOK
<1>3. CASE AdmitNeighbor
  <2>1. Admit(NextTarget(ThisClaim), ThisClaim.addr, items[di].depth + 1, di)
    BY <1>3 DEF AdmitNeighbor
  <2>2. PICK n, a, d, p : Admit(n, a, d, p)
    BY <2>1
  <2> QED
    BY <1>1, <2>2, AdmitKeeps
<1>4. CASE AbandonBatch
  <2>1. jobs[i] \in Job
    BY <1>1, ItemJobType
  <2>2. jobs'[i] = jobs[i] \/ (jobs'[i].st = "done" /\ jobs'[i].try = jobs[i].try)
    BY <1>4, <2>1 DEF AbandonBatch, Job
  <2> QED
    BY <2>2
<1>5. ASSUME NEW w \in lo..hi, Worker(w)
      PROVE  /\ jobs'[i].st = "busy" => jobs[i].st = "busy"
             /\ jobs'[i].try = jobs[i].try
  <2>1. CASE i = w
    BY <1>5, <2>1, WorkerJob
  <2>2. CASE i # w
    BY <1>5, <2>2, WorkerType
  <2> QED
    BY <2>1, <2>2
<1>6. CASE \/ RefuseSeed \/ NextBatch \/ OpenBatch \/ FrontierEmpty \/ WaitAll \/ Register
           \/ Settle \/ NextDevice \/ SkipClaim \/ Stop \/ Finished \/ UNCHANGED vars
  BY <1>6 DEF RefuseSeed, NextBatch, OpenBatch, FrontierEmpty, WaitAll, Register, Settle,
              NextDevice, SkipClaim, Stop, Finished, vars
<1> QED
  BY <1>2, <1>3, <1>4, <1>5, <1>6 DEF Next, Step, Main

\* Once ctx is cancelled no device is dialed and no further method is tried.
THEOREM CrawlNoDialAfterStop == Spec => NoDialAfterStop
<1>1. TypeOK /\ [Next]_vars =>
        [stopped => \A i \in DOMAIN jobs :
            /\ jobs'[i].st = "busy" => jobs[i].st = "busy"
            /\ jobs'[i].try = jobs[i].try]_vars
  BY StoppedStep
<1> QED
  BY <1>1, CrawlTypeOK, PTL DEF Spec, NoDialAfterStop

-----------------------------------------------------------------------------
(* The run an event is folded into, and a sequence of events after it.     *)

\* What holds at 0 and is handed on holds of every natural.
LEMMA Counting ==
    ASSUME NEW T, 0 \in T, \A n \in Nat : n \in T => n + 1 \in T
    PROVE  \A n \in Nat : n \in T
<1>1. CASE {n \in Nat : n \notin T} # {}
  <2>1. PICK m \in {n \in Nat : n \notin T} : \A y \in {n \in Nat : n \notin T} : m <= y
    BY <1>1, LeastNatural
  <2>2. m # 0 /\ m \in Nat /\ m \notin T
    BY <2>1
  <2>3. m - 1 \in Nat /\ (m - 1) + 1 = m
    BY <2>2
  <2>4. ~(m <= m - 1)
    BY <2>2
  <2>5. m - 1 \in T
    BY <2>1, <2>3, <2>4
  <2> QED
    BY <2>2, <2>3, <2>5
<1> QED
  BY <1>1

\* g is the runs on the way from r through evs.
Trace(g, r, evs) ==
    /\ g[0] = r
    /\ \A n \in Nat : n + 1 <= Len(evs) => g[n + 1] = R!After(g[n], evs[n + 1])

LEMMA HandledTrace ==
    ASSUME NEW r, NEW evs, Len(evs) \in Nat
    PROVE  \E g : Trace(g, r, evs) /\ Handled(r, evs) = g[Len(evs)]
<1> DEFINE L == Len(evs)
           Upto(f, n) == /\ f = [m \in 0..n |-> f[m]] /\ f[0] = r
                         /\ \A m \in 0..n : m # 0 => f[m] = R!After(f[m - 1], evs[m])
           T == {n \in Nat : \E f : Upto(f, n)}
           body(f) == [n \in 0..L |-> IF n = 0 THEN r ELSE R!After(f[n - 1], evs[n])]
           upTo == CHOOSE f : f = body(f)
<1>1. 0 \in T
  <2> DEFINE f == [m \in 0..0 |-> r]
  <2>1. Upto(f, 0)
    OBVIOUS
  <2> QED
    BY <2>1
<1>2. ASSUME NEW n \in Nat, n \in T
      PROVE  n + 1 \in T
  <2>1. PICK f : Upto(f, n)
    BY <1>2
  <2> DEFINE h == [m \in 0..(n + 1) |-> IF m = n + 1 THEN R!After(f[n], evs[n + 1]) ELSE f[m]]
  <2>2. h[0] = r /\ h = [m \in 0..(n + 1) |-> h[m]]
    BY <2>1
  <2>3. \A m \in 0..n : h[m] = f[m]
    OBVIOUS
  <2>4. ASSUME NEW m \in 0..(n + 1), m # 0
        PROVE  h[m] = R!After(h[m - 1], evs[m])
    <3>1. m - 1 \in 0..n
      BY <2>4
    <3>2. h[m - 1] = f[m - 1]
      BY <2>3, <3>1
    <3>3. CASE m = n + 1
      <4>1. h[m] = R!After(f[n], evs[m]) /\ m - 1 = n
        BY <3>3
      <4> QED
        BY <3>2, <4>1
    <3>4. CASE m # n + 1
      <4>1. m \in 0..n
        BY <2>4, <3>4
      <4>2. f[m] = R!After(f[m - 1], evs[m])
        BY <2>1, <2>4, <4>1
      <4> QED
        BY <2>3, <3>2, <4>1, <4>2
    <3> QED
      BY <3>3, <3>4
  <2> HIDE DEF h
  <2>5. Upto(h, n + 1)
    BY <2>2, <2>4
  <2> HIDE DEF Upto
  <2> QED
    BY <2>5
<1>3. \A n \in Nat : n \in T
  <2> HIDE DEF T
  <2> QED
    BY <1>1, <1>2, Counting
<1>4. PICK f : Upto(f, L)
  BY <1>3
<1>5. f = body(f)
  <2>1. ASSUME NEW m \in 0..L
        PROVE  f[m] = IF m = 0 THEN r ELSE R!After(f[m - 1], evs[m])
    BY <1>4
  <2> QED
    BY <1>4, <2>1
<1>6. upTo = body(upTo)
  <2> HIDE DEF body
  <2> QED
    BY <1>5
<1>7. Handled(r, evs) = upTo[L]
  BY DEF Handled
<1> HIDE DEF upTo
<1>8. \A m \in 0..L : upTo[m] = IF m = 0 THEN r ELSE R!After(upTo[m - 1], evs[m])
  BY <1>6
<1>9. Trace(upTo, r, evs)
  <2>1. upTo[0] = r
    BY <1>8
  <2>2. ASSUME NEW n \in Nat, n + 1 <= L
        PROVE  upTo[n + 1] = R!After(upTo[n], evs[n + 1])
    <3>1. n + 1 \in 0..L /\ n + 1 # 0 /\ (n + 1) - 1 = n
      BY <2>2
    <3> QED
      BY <1>8, <3>1
  <2> QED
    BY <2>1, <2>2 DEF Trace
<1> QED
  BY <1>7, <1>9

\* The verdicts a run has noted, and that its notes are a list.
VerdictsOf(r) == {r.notes[n].ev : n \in {n \in DOMAIN r.notes : r.notes[n].ev.kind = "not-dialed"}}
Listed(r) == \E X : r.notes \in Seq(X)

\* A run and a row have their fields.
WholeRow(row) ==
    row = [state |-> row.state, depth |-> row.depth, via |-> row.via, detail |-> row.detail,
           phase |-> row.phase, attempts |-> row.attempts, seq |-> row.seq]

Whole(r) ==
    /\ r = [rows |-> r.rows, seq |-> r.seq, depth |-> r.depth, notes |-> r.notes,
            rejections |-> r.rejections, closed |-> r.closed]
    /\ r.rows = [k \in DOMAIN r.rows |-> r.rows[k]]
    /\ \A k \in DOMAIN r.rows : WholeRow(r.rows[k])
    /\ DOMAIN r.rows \subseteq Names
    /\ Listed(r)

LEMMA NewRunWhole ==
    Whole(R!NewRun) /\ VerdictsOf(R!NewRun) = {} /\ R!NewRun.closed = FALSE
    /\ \A k : R!RowOf(R!NewRun, k) = R!NewRow
<1>1. R!NewRun.notes \in Seq({}) /\ R!NewRun.notes = <<>>
  BY DEF R!NewRun
<1>2. DOMAIN R!NewRun.rows = {}
  BY DEF R!NewRun
<1> QED
  BY <1>1, <1>2 DEF Whole, Listed, VerdictsOf, R!RowOf, R!NewRun

\* One event, row by row.
LEMMA AfterRow ==
    ASSUME NEW r, NEW ev, NEW k, k # <<>>
    PROVE  R!RowOf(R!After(r, ev), k) =
              IF ev.id = k THEN R!RowAfter(R!RowOf(r, k), ev, r.seq + 1) ELSE R!RowOf(r, k)
<1>1. R!After(r, ev).rows = R!RowsAfter(r, ev)
  BY DEF R!After
<1>2. CASE ev.id = <<>>
  BY <1>1, <1>2 DEF R!RowsAfter, R!RowOf
<1>3. CASE ev.id # <<>>
  BY <1>1, <1>3 DEF R!RowsAfter, R!RowOf
<1> QED
  BY <1>2, <1>3

LEMMA RowFields ==
    ASSUME NEW d, NEW ev, NEW s
    PROVE  /\ R!RowAfter(d, ev, s).state = R!StateAfter(d, ev)
           /\ R!RowAfter(d, ev, s).depth = R!DepthAfter(d, ev)
           /\ R!RowAfter(d, ev, s).via = IF d.via = <<>> THEN ev.via ELSE d.via
BY DEF R!RowAfter

\* Events that say no more than that something was resolved, or where a device
\* was found.
LEMMA StatePlain ==
    ASSUME NEW d, NEW ev, ev.kind \in {"resolved", "queued"}
    PROVE  R!StateAfter(d, ev) = d.state \/ (d.state = "queued" /\ R!StateAfter(d, ev) = "running")
BY DEF R!StateAfter, R!AtWork, R!Outcomes, R!Annotating

LEMMA StateEnds ==
    ASSUME NEW d, NEW ev, ev.kind \in {"reached", "failed", "not-dialed"}
    PROVE  R!StateAfter(d, ev) = ev.kind
<1>1. ev.kind \in R!Outcomes
  BY DEF R!Outcomes
<1>2. /\ ev.kind \notin {"auth-ok", "auth-reject", "collect"}
      /\ ev.kind \notin R!Annotating \cup {"phase"}
  BY DEF R!Annotating
<1> QED
  BY <1>1, <1>2 DEF R!StateAfter

LEMMA StateAtWork ==
    ASSUME NEW d, NEW ev, ev.kind \notin {"reached", "failed"}, d.state \notin {"reached", "failed"}
    PROVE  R!StateAfter(d, ev) \notin {"reached", "failed"}
BY DEF R!StateAfter, R!AtWork, R!Outcomes, R!Annotating

\* One event, as to the rest of the run.
LEMMA AfterWhole ==
    ASSUME NEW r, NEW ev, Whole(r), ev.id \in Names \cup {<<>>}
    PROVE  /\ Whole(R!After(r, ev)) /\ R!After(r, ev).closed = r.closed
           /\ VerdictsOf(R!After(r, ev)) =
                 VerdictsOf(r) \cup (IF ev.kind = "not-dialed" THEN {ev} ELSE {})
<1> DEFINE q == R!After(r, ev)
<1>1. /\ q.rows = R!RowsAfter(r, ev) /\ q.closed = r.closed
      /\ q.notes = R!NotesAfter(r.notes, ev, r.seq + 1)
      /\ q = [rows |-> q.rows, seq |-> q.seq, depth |-> q.depth, notes |-> q.notes,
              rejections |-> q.rejections, closed |-> q.closed]
  BY DEF R!After
<1> HIDE DEF q
<1>2. q.notes = IF R!Notable(ev) THEN Append(r.notes, R!Note(ev, r.seq + 1)) ELSE r.notes
  BY <1>1 DEF R!NotesAfter
<1>3. PICK X : r.notes \in Seq(X)
  BY DEF Whole, Listed
<1>4. ev.kind = "not-dialed" => R!Notable(ev)
  BY DEF R!Notable
<1> DEFINE note == R!Note(ev, r.seq + 1)
<1>5. note.ev = ev
  BY DEF R!Note
<1> HIDE DEF note
<1>6. Listed(q) /\ VerdictsOf(q) = VerdictsOf(r) \cup (IF ev.kind = "not-dialed" THEN {ev} ELSE {})
  <2>1. CASE ~R!Notable(ev)
    BY <1>2, <1>3, <1>4, <2>1 DEF Listed, VerdictsOf
  <2>2. CASE R!Notable(ev)
    <3>1. q.notes = Append(r.notes, note) /\ r.notes \in Seq(X \cup {note})
      BY <1>2, <1>3, <2>2 DEF note
    <3>2. q.notes \in Seq(X \cup {note})
      BY <3>1
    <3>3. /\ DOMAIN q.notes = DOMAIN r.notes \cup {Len(r.notes) + 1}
          /\ Len(r.notes) + 1 \notin DOMAIN r.notes
          /\ \A n \in DOMAIN r.notes : q.notes[n] = r.notes[n]
          /\ q.notes[Len(r.notes) + 1] = note
      BY <3>1
    <3>4. VerdictsOf(q) = VerdictsOf(r) \cup (IF ev.kind = "not-dialed" THEN {ev} ELSE {})
      BY <1>5, <3>3 DEF VerdictsOf
    <3> QED
      BY <3>2, <3>4 DEF Listed
  <2> QED
    BY <2>1, <2>2
<1>7. /\ q.rows = [k \in DOMAIN q.rows |-> q.rows[k]] /\ DOMAIN q.rows \subseteq Names
      /\ \A k \in DOMAIN q.rows : WholeRow(q.rows[k])
  <2>1. CASE ev.id = <<>>
    BY <1>1, <2>1 DEF R!RowsAfter, Whole
  <2>2. CASE ev.id # <<>>
    <3>1. q.rows = [k \in DOMAIN r.rows \cup {ev.id} |->
            IF k = ev.id THEN R!RowAfter(R!RowOf(r, k), ev, r.seq + 1) ELSE r.rows[k]]
      BY <1>1, <2>2 DEF R!RowsAfter
    <3>2. \A d, e, s : WholeRow(R!RowAfter(d, e, s))
      BY DEF WholeRow, R!RowAfter
    <3>3. \A k \in DOMAIN q.rows : WholeRow(q.rows[k])
      BY <3>1, <3>2 DEF Whole
    <3>4. DOMAIN q.rows \subseteq Names
      BY <2>2, <3>1 DEF Whole
    <3> QED
      BY <3>1, <3>3, <3>4
  <2> QED
    BY <2>1, <2>2
<1>8. Whole(q)
  BY <1>1, <1>6, <1>7 DEF Whole
<1> QED
  BY <1>1, <1>6, <1>8 DEF q

\* Events of other devices, or that do not say where a device was found, leave
\* it where it was.
LEMMA PlaceKept ==
    ASSUME NEW r, NEW evs, Len(evs) \in Nat, NEW k, k # <<>>,
           \A n \in 1..Len(evs) : evs[n].id = k =>
              evs[n].kind \notin {"queued", "not-dialed"} /\ evs[n].via = <<>>
    PROVE  /\ R!RowOf(Handled(r, evs), k).via = R!RowOf(r, k).via
           /\ R!RowOf(Handled(r, evs), k).depth = R!RowOf(r, k).depth
<1> DEFINE L == Len(evs)
<1>1. PICK g : Trace(g, r, evs) /\ Handled(r, evs) = g[L]
  BY HandledTrace
<1> DEFINE Good(n) == /\ R!RowOf(g[n], k).via = R!RowOf(r, k).via
                      /\ R!RowOf(g[n], k).depth = R!RowOf(r, k).depth
<1> DEFINE T == {n \in Nat : n <= L => Good(n)}
<1>2. 0 \in T
  BY <1>1 DEF Trace
<1>3. ASSUME NEW n \in Nat, n \in T
      PROVE  n + 1 \in T
  <2> SUFFICES ASSUME n + 1 <= L
               PROVE  Good(n + 1)
    OBVIOUS
  <2>1. n <= L /\ n + 1 \in 1..L
    OBVIOUS
  <2>2. Good(n) /\ g[n + 1] = R!After(g[n], evs[n + 1])
    BY <1>1, <1>3, <2>1 DEF Trace
  <2> DEFINE e == evs[n + 1]
             d == R!RowOf(g[n], k)
  <2>3. R!RowOf(g[n + 1], k) = IF e.id = k THEN R!RowAfter(d, e, g[n].seq + 1) ELSE d
    BY <2>2, AfterRow
  <2>4. CASE e.id # k
    BY <2>2, <2>3, <2>4
  <2>5. CASE e.id = k
    <3>1. e.kind \notin {"queued", "not-dialed"} /\ e.via = <<>>
      BY <2>1, <2>5
    <3>2. R!DepthAfter(d, e) = d.depth
      BY <3>1 DEF R!DepthAfter
    <3> HIDE DEF e, d
    <3>3. R!RowOf(g[n + 1], k).depth = d.depth /\ R!RowOf(g[n + 1], k).via = d.via
      BY <2>3, <2>5, <3>1, <3>2, RowFields
    <3> QED
      BY <2>2, <3>3 DEF d
  <2> QED
    BY <2>4, <2>5
<1>4. L \in T
  <2> HIDE DEF T
  <2> QED
    BY <1>2, <1>3, Counting
<1> QED
  BY <1>1, <1>4

\* Events of other devices, and plain ones, end nothing.
LEMMA StateKept ==
    ASSUME NEW r, NEW evs, Len(evs) \in Nat, NEW k, k # <<>>,
           \A n \in 1..Len(evs) : evs[n].id = k => evs[n].kind \in {"resolved", "queued"}
    PROVE  \/ R!RowOf(Handled(r, evs), k).state = R!RowOf(r, k).state
           \/ /\ R!RowOf(r, k).state = "queued"
              /\ R!RowOf(Handled(r, evs), k).state = "running"
<1> DEFINE L == Len(evs)
<1>1. PICK g : Trace(g, r, evs) /\ Handled(r, evs) = g[L]
  BY HandledTrace
<1> DEFINE Good(n) == \/ R!RowOf(g[n], k).state = R!RowOf(r, k).state
                      \/ R!RowOf(r, k).state = "queued" /\ R!RowOf(g[n], k).state = "running"
<1> DEFINE T == {n \in Nat : n <= L => Good(n)}
<1>2. 0 \in T
  BY <1>1 DEF Trace
<1>3. ASSUME NEW n \in Nat, n \in T
      PROVE  n + 1 \in T
  <2> SUFFICES ASSUME n + 1 <= L
               PROVE  Good(n + 1)
    OBVIOUS
  <2>1. n <= L /\ n + 1 \in 1..L
    OBVIOUS
  <2>2. Good(n) /\ g[n + 1] = R!After(g[n], evs[n + 1])
    BY <1>1, <1>3, <2>1 DEF Trace
  <2> DEFINE e == evs[n + 1]
             d == R!RowOf(g[n], k)
  <2>3. R!RowOf(g[n + 1], k) = IF e.id = k THEN R!RowAfter(d, e, g[n].seq + 1) ELSE d
    BY <2>2, AfterRow
  <2>4. CASE e.id # k
    BY <2>2, <2>3, <2>4
  <2>5. CASE e.id = k
    <3>1. e.kind \in {"resolved", "queued"}
      BY <2>1, <2>5
    <3> HIDE DEF e, d
    <3>2. \/ R!RowOf(g[n + 1], k).state = d.state
          \/ d.state = "queued" /\ R!RowOf(g[n + 1], k).state = "running"
      BY <2>3, <2>5, <3>1, RowFields, StatePlain
    <3> QED
      BY <2>2, <3>2 DEF d
  <2> QED
    BY <2>4, <2>5
<1>4. L \in T
  <2> HIDE DEF T
  <2> QED
    BY <1>2, <1>3, Counting
<1> QED
  BY <1>1, <1>4

\* No outcome, no end.
LEMMA NotEnded ==
    ASSUME NEW r, NEW evs, Len(evs) \in Nat, NEW k, k # <<>>,
           R!RowOf(r, k).state \notin {"reached", "failed"},
           \A n \in 1..Len(evs) : evs[n].id = k => evs[n].kind \notin {"reached", "failed"}
    PROVE  R!RowOf(Handled(r, evs), k).state \notin {"reached", "failed"}
<1> DEFINE L == Len(evs)
<1>1. PICK g : Trace(g, r, evs) /\ Handled(r, evs) = g[L]
  BY HandledTrace
<1> DEFINE Good(n) == R!RowOf(g[n], k).state \notin {"reached", "failed"}
<1> DEFINE T == {n \in Nat : n <= L => Good(n)}
<1>2. 0 \in T
  BY <1>1 DEF Trace
<1>3. ASSUME NEW n \in Nat, n \in T
      PROVE  n + 1 \in T
  <2> SUFFICES ASSUME n + 1 <= L
               PROVE  Good(n + 1)
    OBVIOUS
  <2>1. n <= L /\ n + 1 \in 1..L
    OBVIOUS
  <2>2. Good(n) /\ g[n + 1] = R!After(g[n], evs[n + 1])
    BY <1>1, <1>3, <2>1 DEF Trace
  <2> DEFINE e == evs[n + 1]
             d == R!RowOf(g[n], k)
  <2>3. R!RowOf(g[n + 1], k) = IF e.id = k THEN R!RowAfter(d, e, g[n].seq + 1) ELSE d
    BY <2>2, AfterRow
  <2>4. CASE e.id # k
    BY <2>2, <2>3, <2>4
  <2>5. CASE e.id = k
    <3>1. e.kind \notin {"reached", "failed"} /\ d.state \notin {"reached", "failed"}
      BY <2>1, <2>2, <2>5
    <3> HIDE DEF e, d
    <3> QED
      BY <2>3, <2>5, <3>1, RowFields, StateAtWork
  <2> QED
    BY <2>4, <2>5
<1>4. L \in T
  <2> HIDE DEF T
  <2> QED
    BY <1>2, <1>3, Counting
<1> QED
  BY <1>1, <1>4

\* The last event of a device that says how it ended is how it ended.
LEMMA LastWord ==
    ASSUME NEW r, NEW evs, Len(evs) \in Nat, NEW k, k # <<>>,
           NEW m \in 1..Len(evs), evs[m].id = k, evs[m].kind \in {"reached", "failed", "not-dialed"},
           \A n \in 1..Len(evs) : n > m => evs[n].id # k
    PROVE  R!RowOf(Handled(r, evs), k).state = evs[m].kind
<1> DEFINE L == Len(evs)
<1>1. PICK g : Trace(g, r, evs) /\ Handled(r, evs) = g[L]
  BY HandledTrace
<1> DEFINE Good(n) == m <= n => R!RowOf(g[n], k).state = evs[m].kind
<1> DEFINE T == {n \in Nat : n <= L => Good(n)}
<1>2. 0 \in T
  BY <1>1 DEF Trace
<1>3. ASSUME NEW n \in Nat, n \in T
      PROVE  n + 1 \in T
  <2> SUFFICES ASSUME n + 1 <= L
               PROVE  Good(n + 1)
    OBVIOUS
  <2>1. n <= L /\ n + 1 \in 1..L
    OBVIOUS
  <2>2. Good(n) /\ g[n + 1] = R!After(g[n], evs[n + 1])
    BY <1>1, <1>3, <2>1 DEF Trace
  <2> DEFINE e == evs[n + 1]
             d == R!RowOf(g[n], k)
  <2>3. R!RowOf(g[n + 1], k) = IF e.id = k THEN R!RowAfter(d, e, g[n].seq + 1) ELSE d
    BY <2>2, AfterRow
  <2>4. CASE n + 1 = m
    <3> HIDE DEF d
    <3>1. R!RowOf(g[n + 1], k) = R!RowAfter(d, evs[m], g[n].seq + 1)
      BY <2>3, <2>4
    <3> QED
      BY <3>1, RowFields, StateEnds
  <2>5. CASE n + 1 > m
    <3>1. e.id # k /\ m <= n
      BY <2>1, <2>5
    <3> QED
      BY <2>2, <2>3, <3>1
  <2>6. CASE n + 1 < m
    BY <2>6
  <2> QED
    BY <2>4, <2>5, <2>6
<1>4. L \in T
  <2> HIDE DEF T
  <2> QED
    BY <1>2, <1>3, Counting
<1> QED
  BY <1>1, <1>4

\* The one event that announces a device says where it was found.
LEMMA FoundWhere ==
    ASSUME NEW r, NEW evs, Len(evs) \in Nat, NEW k, k # <<>>,
           NEW m \in 1..Len(evs), evs[m].id = k, evs[m].kind = "queued",
           \A n \in 1..Len(evs) : n # m => evs[n].id # k
    PROVE  /\ R!RowOf(Handled(r, evs), k).depth = evs[m].depth
           /\ R!RowOf(Handled(r, evs), k).via =
                 IF R!RowOf(r, k).via = <<>> THEN evs[m].via ELSE R!RowOf(r, k).via
<1> DEFINE L == Len(evs)
<1>1. PICK g : Trace(g, r, evs) /\ Handled(r, evs) = g[L]
  BY HandledTrace
<1> DEFINE Good(n) ==
             IF m <= n
             THEN /\ R!RowOf(g[n], k).depth = evs[m].depth
                  /\ R!RowOf(g[n], k).via =
                        IF R!RowOf(r, k).via = <<>> THEN evs[m].via ELSE R!RowOf(r, k).via
             ELSE R!RowOf(g[n], k).via = R!RowOf(r, k).via
<1> DEFINE T == {n \in Nat : n <= L => Good(n)}
<1>2. 0 \in T
  BY <1>1 DEF Trace
<1>3. ASSUME NEW n \in Nat, n \in T
      PROVE  n + 1 \in T
  <2> SUFFICES ASSUME n + 1 <= L
               PROVE  Good(n + 1)
    OBVIOUS
  <2>1. n <= L /\ n + 1 \in 1..L
    OBVIOUS
  <2>2. Good(n) /\ g[n + 1] = R!After(g[n], evs[n + 1])
    BY <1>1, <1>3, <2>1 DEF Trace
  <2> DEFINE e == evs[n + 1]
             d == R!RowOf(g[n], k)
  <2>3. R!RowOf(g[n + 1], k) = IF e.id = k THEN R!RowAfter(d, e, g[n].seq + 1) ELSE d
    BY <2>2, AfterRow
  <2>4. CASE n + 1 = m
    <3>1. d.via = R!RowOf(r, k).via
      BY <2>2, <2>4
    <3> HIDE DEF d
    <3>2. R!RowOf(g[n + 1], k) = R!RowAfter(d, evs[m], g[n].seq + 1)
      BY <2>3, <2>4
    <3>3. R!DepthAfter(d, evs[m]) = evs[m].depth
      BY DEF R!DepthAfter
    <3>4. /\ R!RowOf(g[n + 1], k).depth = evs[m].depth
          /\ R!RowOf(g[n + 1], k).via = IF d.via = <<>> THEN evs[m].via ELSE d.via
      BY <3>2, <3>3, RowFields
    <3> QED
      BY <2>4, <3>1, <3>4
  <2>5. CASE n + 1 # m
    <3>1. e.id # k /\ (m <= n + 1 <=> m <= n)
      BY <2>1, <2>5
    <3>2. R!RowOf(g[n + 1], k) = R!RowOf(g[n], k)
      BY <2>3, <3>1
    <3> QED
      BY <2>2, <3>1, <3>2
  <2> QED
    BY <2>4, <2>5
<1>4. L \in T
  <2> HIDE DEF T
  <2> QED
    BY <1>2, <1>3, Counting
<1> QED
  BY <1>1, <1>4

\* The rest of the run: events keep its form, and note what is not dialed.
LEMMA RestKept ==
    ASSUME NEW r, NEW evs, Len(evs) \in Nat, Whole(r),
           \A n \in 1..Len(evs) : evs[n].kind # "not-dialed" /\ evs[n].id \in Names \cup {<<>>}
    PROVE  /\ Whole(Handled(r, evs)) /\ Handled(r, evs).closed = r.closed
           /\ VerdictsOf(Handled(r, evs)) = VerdictsOf(r)
<1> DEFINE L == Len(evs)
<1>1. PICK g : Trace(g, r, evs) /\ Handled(r, evs) = g[L]
  BY HandledTrace
<1> DEFINE Good(n) == /\ Whole(g[n]) /\ g[n].closed = r.closed
                      /\ VerdictsOf(g[n]) = VerdictsOf(r)
<1> DEFINE T == {n \in Nat : n <= L => Good(n)}
<1>2. 0 \in T
  BY <1>1 DEF Trace
<1>3. ASSUME NEW n \in Nat, n \in T
      PROVE  n + 1 \in T
  <2> SUFFICES ASSUME n + 1 <= L
               PROVE  Good(n + 1)
    OBVIOUS
  <2>1. n <= L /\ n + 1 \in 1..L
    OBVIOUS
  <2>2. Good(n) /\ g[n + 1] = R!After(g[n], evs[n + 1])
    BY <1>1, <1>3, <2>1 DEF Trace
  <2>3. evs[n + 1].kind # "not-dialed" /\ evs[n + 1].id \in Names \cup {<<>>}
    BY <2>1
  <2>4. PICK q, e : q = g[n] /\ e = evs[n + 1]
    OBVIOUS
  <2>5. /\ Whole(R!After(q, e)) /\ R!After(q, e).closed = q.closed
        /\ VerdictsOf(R!After(q, e)) = VerdictsOf(q)
    <3>1. Whole(q) /\ e.kind # "not-dialed" /\ e.id \in Names \cup {<<>>}
      BY <2>2, <2>3, <2>4
    <3>2. /\ Whole(R!After(q, e)) /\ R!After(q, e).closed = q.closed
          /\ VerdictsOf(R!After(q, e)) =
                VerdictsOf(q) \cup (IF e.kind = "not-dialed" THEN {e} ELSE {})
      BY <3>1, AfterWhole
    <3> QED
      BY <3>1, <3>2
  <2> QED
    BY <2>2, <2>4, <2>5
<1>4. L \in T
  <2> HIDE DEF T
  <2> QED
    BY <1>2, <1>3, Counting
<1> QED
  BY <1>1, <1>4

LEMMA HandledOne ==
    ASSUME NEW r, NEW ev
    PROVE  Handled(r, <<ev>>) = R!After(r, ev)
<1>1. Len(<<ev>>) = 1 /\ <<ev>>[1] = ev
  OBVIOUS
<1> DEFINE evs == <<ev>>
<1> HIDE DEF evs
<1>2. Len(evs) = 1 /\ evs[1] = ev
  BY <1>1 DEF evs
<1>3. PICK g : Trace(g, r, evs) /\ Handled(r, evs) = g[1]
  BY <1>2, HandledTrace
<1>4. g[0] = r /\ g[0 + 1] = R!After(g[0], evs[0 + 1])
  BY <1>2, <1>3 DEF Trace
<1> QED
  BY <1>2, <1>3, <1>4 DEF evs

LEMMA HandledNone ==
    ASSUME NEW r
    PROVE  Handled(r, <<>>) = r
<1> DEFINE evs == <<>>
<1>1. Len(evs) = 0
  OBVIOUS
<1> HIDE DEF evs
<1>2. PICK g : Trace(g, r, evs) /\ Handled(r, evs) = g[0]
  BY <1>1, HandledTrace
<1> QED
  BY <1>2 DEF Trace, evs

-----------------------------------------------------------------------------
(* The events of each step, and what they make of the table.               *)

LEMMA EvFields ==
    ASSUME NEW kind, NEW id
    PROVE  Ev(kind, id).kind = kind /\ Ev(kind, id).id = id /\ Ev(kind, id).via = <<>>
BY DEF Ev

LEMMA ToldFields ==
    ASSUME NEW kind, NEW id, NEW d
    PROVE  /\ Told(kind, id, d).kind = kind /\ Told(kind, id, d).id = id
           /\ Told(kind, id, d).via = <<>>
           /\ {"kind", "id", "depth", "via"} \subseteq DOMAIN Told(kind, id, d)
BY DEF Told, Ev

LEMMA NotDialedFields ==
    ASSUME NEW id, NEW why
    PROVE  /\ NotDialed(id, why).kind = "not-dialed" /\ NotDialed(id, why).id = id
           /\ NotDialed(id, why).via = items[di].identity
BY ToldFields DEF NotDialed

LEMMA QueuedFields ==
    ASSUME NEW it
    PROVE  /\ Queued(it).kind = "queued" /\ Queued(it).id = it.identity
           /\ Queued(it).depth = it.depth /\ Queued(it).via = ParentOf(it)
BY DEF Queued, Ev

\* Sequences put together from optional pieces.
LEMMA WhenSeq ==
    ASSUME NEW X, NEW b, NEW s \in Seq(X)
    PROVE  When(b, s) \in Seq(X)
BY EmptyIsSeq DEF When

LEMMA OneSeq ==
    ASSUME NEW X, NEW e \in X
    PROVE  <<e>> \in Seq(X)
OBVIOUS

LEMMA PairSeq ==
    ASSUME NEW X, NEW e \in X, NEW f \in X
    PROVE  <<e, f>> \in Seq(X)
OBVIOUS

LEMMA CatSeq ==
    ASSUME NEW X, NEW s \in Seq(X), NEW t \in Seq(X)
    PROVE  s \o t \in Seq(X)
OBVIOUS

LEMMA SeqElements ==
    ASSUME NEW X, NEW s \in Seq(X)
    PROVE  Len(s) \in Nat /\ \A n \in 1..Len(s) : s[n] \in X
OBVIOUS

\* What a step leaves alone of a row, and of the rest of the run.
RowHere(k) == R!RowOf(run, k)

PlaceSame(k) ==
    (RowHere(k).via)' = RowHere(k).via /\ (RowHere(k).depth)' = RowHere(k).depth

StateSame(k) ==
    \/ (RowHere(k).state)' = RowHere(k).state
    \/ RowHere(k).state = "queued" /\ (RowHere(k).state)' = "running"

RestSame ==
    Whole(run)' /\ run'.closed = run.closed /\ VerdictsOf(run)' = VerdictsOf(run)

\* Plain events: a step that sends no others leaves the table as it is.
LEMMA PlainEvents ==
    ASSUME NEW evs, Emit(evs), NEW X, evs \in Seq(X), Whole(run), NEW k \in Names,
           \A e \in X : e.id = k => e.kind \notin {"queued", "not-dialed"} /\ e.via = <<>>
    PROVE  PlaceSame(k)
<1>1. Len(evs) \in Nat /\ \A n \in 1..Len(evs) : evs[n] \in X
  BY SeqElements
<1>2. k # <<>> /\ run' = Handled(run, evs)
  BY DEF Emit, Names
<1>3. /\ R!RowOf(Handled(run, evs), k).via = R!RowOf(run, k).via
      /\ R!RowOf(Handled(run, evs), k).depth = R!RowOf(run, k).depth
  BY <1>1, <1>2, PlaceKept
<1> QED
  BY <1>2, <1>3 DEF PlaceSame, RowHere

LEMMA MildEvents ==
    ASSUME NEW evs, Emit(evs), NEW X, evs \in Seq(X), Whole(run), NEW k \in Names,
           \A e \in X : e.id = k => e.kind \in {"resolved", "queued"}
    PROVE  StateSame(k)
<1>1. Len(evs) \in Nat /\ \A n \in 1..Len(evs) : evs[n] \in X
  BY SeqElements
<1>2. k # <<>> /\ run' = Handled(run, evs)
  BY DEF Emit, Names
<1>3. \/ R!RowOf(Handled(run, evs), k).state = R!RowOf(run, k).state
      \/ /\ R!RowOf(run, k).state = "queued"
         /\ R!RowOf(Handled(run, evs), k).state = "running"
  BY <1>1, <1>2, StateKept
<1> QED
  BY <1>2, <1>3 DEF StateSame, RowHere

LEMMA NoVerdictEvents ==
    ASSUME NEW evs, Emit(evs), NEW X, evs \in Seq(X), Whole(run),
           \A e \in X : e.kind # "not-dialed" /\ e.id \in Names \cup {<<>>}
    PROVE  RestSame
<1>1. /\ Len(evs) \in Nat
      /\ \A n \in 1..Len(evs) : evs[n].kind # "not-dialed" /\ evs[n].id \in Names \cup {<<>>}
  BY SeqElements
<1>2. run' = Handled(run, evs)
  BY DEF Emit
<1>3. /\ Whole(Handled(run, evs)) /\ Handled(run, evs).closed = run.closed
      /\ VerdictsOf(Handled(run, evs)) = VerdictsOf(run)
  BY <1>1, RestKept
<1> QED
  BY <1>2, <1>3 DEF RestSame

LEMMA UnchangedRun ==
    ASSUME UNCHANGED run, Whole(run)
    PROVE  RestSame /\ \A k \in Names : PlaceSame(k) /\ StateSame(k)
BY DEF RestSame, PlaceSame, StateSame, RowHere

\* Resolving a name (resolveName, resolveViaDomains).
LEMMA ResolvingSeq ==
    ASSUME NEW n \in Names
    PROVE  \E X : /\ Resolving(n) \in Seq(X)
                 /\ \A e \in X : e.kind = "resolved" /\ e.via = <<>> /\ e.id \in Names
<1> DEFINE a == Told("resolved", n, "cgnat")
           b == Told("resolved", ResolveName(n), "suffix")
           X == {a, b}
<1>1. Resolving(n) = When(ResolveName(n) # n, <<a>>) \o When(DialString(n) # ResolveName(n), <<b>>)
  BY DEF Resolving
<1>2. a \in X /\ b \in X
  OBVIOUS
<1>0. ResolveName(n) \in Names
  BY IdentityAssumption DEF ResolveName
<1>6. \A e \in X : e.kind = "resolved" /\ e.via = <<>> /\ e.id \in Names
  BY <1>0, ToldFields
<1> HIDE DEF a, b, X
<1>3. <<a>> \in Seq(X) /\ <<b>> \in Seq(X)
  BY <1>2, OneSeq
<1>4. /\ When(ResolveName(n) # n, <<a>>) \in Seq(X)
      /\ When(DialString(n) # ResolveName(n), <<b>>) \in Seq(X)
  BY <1>3, WhenSeq
<1>5. Resolving(n) \in Seq(X)
  BY <1>1, <1>4, CatSeq
<1> QED
  BY <1>5, <1>6

LEMMA ResolvingEvents ==
    ASSUME NEW n \in Names, Emit(Resolving(n)), Whole(run)
    PROVE  RestSame /\ \A k \in Names : PlaceSame(k) /\ StateSame(k)
<1>1. PICK X : /\ Resolving(n) \in Seq(X)
               /\ \A e \in X : e.kind = "resolved" /\ e.via = <<>> /\ e.id \in Names
  BY ResolvingSeq
<1>2. RestSame
  <2>1. \A e \in X : e.kind # "not-dialed" /\ e.id \in Names \cup {<<>>}
    BY <1>1
  <2> QED
    BY <1>1, <2>1, NoVerdictEvents
<1>3. ASSUME NEW k \in Names
      PROVE  PlaceSame(k) /\ StateSame(k)
  <2>1. \A e \in X : e.id = k => e.kind \notin {"queued", "not-dialed"} /\ e.via = <<>>
    BY <1>1
  <2>2. \A e \in X : e.id = k => e.kind \in {"resolved", "queued"}
    BY <1>1
  <2> QED
    BY <1>1, <2>1, <2>2, PlainEvents, MildEvents
<1> QED
  BY <1>2, <1>3

\* No two devices have one identity.
LEMMA OneIdentity ==
    ASSUME TypeOK, OneVisit, NEW i \in DOMAIN items, NEW j \in DOMAIN items,
           items[i].identity = items[j].identity
    PROVE  i = j
<1>1. i \in Nat /\ j \in Nat /\ items[i].identity \in Names
  BY ItemJobType DEF Item
<1>2. Within(items[j].identity, items[i].identity) /\ Within(items[i].identity, items[j].identity)
  BY <1>1, WithinReflexive
<1> QED
  BY <1>1, <1>2 DEF OneVisit

\* A head and a list after it.
LEMMA CatAt ==
    ASSUME NEW X, NEW s \in Seq(X), NEW t \in Seq(X)
    PROVE  /\ Len(s \o t) = Len(s) + Len(t)
           /\ \A n \in 1..Len(s) : (s \o t)[n] = s[n]
           /\ \A n \in 1..Len(t) : (s \o t)[Len(s) + n] = t[n]
<1>1. Len(s) \in Nat /\ Len(t) \in Nat
  OBVIOUS
<1>2. Len(s \o t) = Len(s) + Len(t)
  OBVIOUS
<1>3. \A n \in 1..Len(s) : (s \o t)[n] = s[n]
  OBVIOUS
<1>4. ASSUME NEW n \in 1..Len(t)
      PROVE  (s \o t)[Len(s) + n] = t[n]
  <2>1. /\ Len(s) + n \in 1..(Len(s) + Len(t)) /\ ~(Len(s) + n <= Len(s))
        /\ (Len(s) + n) - Len(s) = n
    BY <1>1
  <2>2. (s \o t)[Len(s) + n] = t[(Len(s) + n) - Len(s)]
    BY <1>1, <2>1
  <2> QED
    BY <2>1, <2>2
<1> QED
  BY <1>2, <1>3, <1>4

LEMMA HeadAndTail ==
    ASSUME NEW X, NEW d \in X, NEW N \in Nat, NEW f \in [1..N -> X]
    PROVE  /\ <<d>> \o f \in Seq(X) /\ Len(<<d>> \o f) = N + 1
           /\ (<<d>> \o f)[1] = d /\ \A j \in 1..N : (<<d>> \o f)[j + 1] = f[j]
<1>1. f \in Seq(X) /\ Len(f) = N
  BY SeqOfFunction
<1>2. <<d>> \in Seq(X) /\ Len(<<d>>) = 1 /\ <<d>>[1] = d
  OBVIOUS
<1>3. PICK s \in Seq(X) : s = <<d>> /\ Len(s) = 1 /\ s[1] = d
  BY <1>2
<1>4. PICK t \in Seq(X) : t = f /\ Len(t) = N
  BY <1>1
<1>5. /\ s \o t \in Seq(X) /\ Len(s \o t) = N + 1
      /\ \A n \in 1..1 : (s \o t)[n] = s[n]
      /\ \A n \in 1..N : (s \o t)[1 + n] = t[n]
  <2>1. s \o t \in Seq(X)
    BY CatSeq
  <2>2. /\ Len(s \o t) = Len(s) + Len(t)
        /\ \A n \in 1..Len(s) : (s \o t)[n] = s[n]
        /\ \A n \in 1..Len(t) : (s \o t)[Len(s) + n] = t[n]
    BY CatAt
  <2>3. Len(s) + Len(t) = N + 1
    BY <1>3, <1>4
  <2> QED
    BY <1>3, <1>4, <2>1, <2>2, <2>3
<1>6. (s \o t)[1] = d
  BY <1>3, <1>5
<1>7. ASSUME NEW j \in 1..N
      PROVE  (s \o t)[j + 1] = f[j]
  <2>1. j + 1 = 1 + j
    OBVIOUS
  <2> QED
    BY <1>4, <1>5, <2>1
<1> QED
  BY <1>3, <1>4, <1>5, <1>6, <1>7

\* A batch is announced: its devices are found where they were found.
FoundAt(k, i) ==
    /\ (RowHere(k).depth)' = items[i].depth
    /\ (RowHere(k).via)' = IF RowHere(k).via = <<>> THEN ParentOf(items[i]) ELSE RowHere(k).via

LEMMA AnnouncedEvents ==
    ASSUME TypeOK, OneVisit, lo <= hi, Emit(Announced), Whole(run)
    PROVE  /\ RestSame
           /\ \A k \in Names : StateSame(k)
           /\ \A k \in Names : (\A i \in lo..hi : items[i].identity # k) => PlaceSame(k)
           /\ \A k \in Names : \A i \in lo..hi : items[i].identity = k => FoundAt(k, i)
<1> DEFINE N == hi - lo + 1
           d == [Ev("depth", <<>>) EXCEPT !.depth = items[lo].depth]
           f == [j \in 1..N |-> Queued(items[lo + j - 1])]
           X == {d} \cup {f[j] : j \in 1..N}
           evs == <<d>> \o f
<1>1. /\ lo \in Nat /\ hi \in Nat /\ hi <= Len(items) /\ lo >= 1 /\ N \in Nat
      /\ Len(items) \in Nat /\ DOMAIN items = 1..Len(items)
  BY DEF TypeOK
<1>0. \A i \in lo..hi : items[i].identity \in Names
  BY <1>1, ItemJobType DEF Item
<1>2. d.kind = "depth" /\ d.id = <<>>
  BY DEF Ev
<1>3. \A j \in 1..N : f[j] = Queued(items[lo + j - 1])
  OBVIOUS
<1>4. f \in [1..N -> X] /\ d \in X
  OBVIOUS
<1>5. evs \in Seq(X) /\ Len(evs) = N + 1 /\ evs[1] = d /\ \A j \in 1..N : evs[j + 1] = f[j]
  <2> HIDE DEF X, d, f, N
  <2> QED
    BY <1>1, <1>4, HeadAndTail
<1>6. Announced = evs
  BY DEF Announced
<1>7. \A e \in X : e = d \/ \E i \in lo..hi : e = Queued(items[i])
  <2>1. ASSUME NEW j \in 1..N
        PROVE  lo + j - 1 \in lo..hi
    BY <1>1
  <2> QED
    BY <1>3, <2>1
<1> HIDE DEF X, d, f, evs
<1>8. \A e \in X : \/ e.kind = "depth" /\ e.id = <<>>
                   \/ e.kind = "queued" /\ \E i \in lo..hi : e.id = items[i].identity
  BY <1>2, <1>7, QueuedFields
<1>9. Emit(evs)
  BY <1>6
<1>10. RestSame
  <2>1. \A e \in X : e.kind # "not-dialed" /\ e.id \in Names \cup {<<>>}
    BY <1>0, <1>8
  <2> QED
    BY <1>5, <1>9, <2>1, NoVerdictEvents
<1>11. ASSUME NEW k \in Names
       PROVE  StateSame(k)
  <2>1. \A e \in X : e.id = k => e.kind \in {"resolved", "queued"}
    BY <1>8 DEF Names
  <2> QED
    BY <1>5, <1>9, <2>1, MildEvents
<1>12. ASSUME NEW k \in Names, \A i \in lo..hi : items[i].identity # k
       PROVE  PlaceSame(k)
  <2>1. \A e \in X : e.id # k
    BY <1>8, <1>12 DEF Names
  <2> QED
    BY <1>5, <1>9, <2>1, PlainEvents
<1>13. ASSUME NEW k \in Names, NEW i \in lo..hi, items[i].identity = k
       PROVE  FoundAt(k, i)
  <2>1. k = items[i].identity
    BY <1>13
  <2>2. PICK it : it = items[i]
    OBVIOUS
  <2>3. PICK m \in 1..(N + 1) : m = (i - lo + 1) + 1
    BY <1>1
  <2>4. i - lo + 1 \in 1..N /\ lo + (i - lo + 1) - 1 = i
    BY <1>1
  <2>5. evs[m] = Queued(it)
    <3>1. evs[m] = f[i - lo + 1]
      BY <1>5, <2>3, <2>4
    <3> QED
      BY <1>3, <2>2, <2>4, <3>1
  <2>6. evs[m].kind = "queued" /\ evs[m].id = k /\ evs[m].depth = it.depth
        /\ evs[m].via = ParentOf(it)
    BY <2>1, <2>2, <2>5, QueuedFields
  <2>7. ASSUME NEW n \in 1..Len(evs), n # m
        PROVE  evs[n].id # k
    <3>1. CASE n = 1
      BY <1>2, <1>5, <3>1 DEF Names
    <3>2. CASE n # 1
      <4>1. PICK j \in 1..N : n = j + 1
        <5>1. n - 1 \in 1..N /\ n = (n - 1) + 1
          BY <1>1, <1>5, <3>2
        <5> QED
          BY <5>1
      <4>2. evs[n] = Queued(items[lo + j - 1])
        BY <1>3, <1>5, <4>1
      <4>3. PICK h \in Nat : h = lo + j - 1 /\ h \in DOMAIN items /\ h # i
        BY <1>1, <2>3, <2>7, <4>1
      <4>4. i \in DOMAIN items
        BY <1>1
      <4>5. items[h].identity # items[i].identity
        BY <4>3, <4>4, OneIdentity
      <4> QED
        BY <2>1, <4>2, <4>3, <4>5, QueuedFields
    <3> QED
      BY <3>1, <3>2
  <2>8. Len(evs) \in Nat /\ m \in 1..Len(evs) /\ k # <<>> /\ run' = Handled(run, evs)
    BY <1>1, <1>5, <1>9 DEF Emit, Names
  <2>9. /\ R!RowOf(Handled(run, evs), k).depth = evs[m].depth
        /\ R!RowOf(Handled(run, evs), k).via =
              IF R!RowOf(run, k).via = <<>> THEN evs[m].via ELSE R!RowOf(run, k).via
    BY <2>6, <2>7, <2>8, FoundWhere
  <2>10. /\ R!RowOf(run', k).depth = items[i].depth
         /\ R!RowOf(run', k).via =
              IF R!RowOf(run, k).via = <<>> THEN ParentOf(items[i]) ELSE R!RowOf(run, k).via
    BY <2>2, <2>6, <2>8, <2>9
  <2> QED
    BY <2>10 DEF FoundAt, RowHere
<1> QED
  BY <1>10, <1>11, <1>12, <1>13

\* A batch is abandoned: its devices have failed (recordCancelled).
LEMMA AbandonedEvents ==
    ASSUME TypeOK, OneVisit, lo <= hi, Emit(Abandoned), Whole(run)
    PROVE  /\ RestSame
           /\ \A k \in Names : PlaceSame(k)
           /\ \A k \in Names : (\A i \in lo..hi : items[i].identity # k) => StateSame(k)
           /\ \A k \in Names : \A i \in lo..hi :
                 items[i].identity = k => (RowHere(k).state)' = "failed"
<1> DEFINE N == hi - lo + 1
           evs == [j \in 1..N |-> Told("failed", items[lo + j - 1].identity, "stopped")]
           X == {evs[j] : j \in 1..N}
<1>1. /\ lo \in Nat /\ hi \in Nat /\ hi <= Len(items) /\ lo >= 1 /\ N \in Nat
      /\ Len(items) \in Nat /\ DOMAIN items = 1..Len(items)
  BY DEF TypeOK
<1>0. \A i \in lo..hi : items[i].identity \in Names
  BY <1>1, ItemJobType DEF Item
<1>2. \A j \in 1..N : evs[j] = Told("failed", items[lo + j - 1].identity, "stopped")
  OBVIOUS
<1>3. evs \in Seq(X) /\ Len(evs) = N
  <2>1. evs \in [1..N -> X]
    OBVIOUS
  <2> HIDE DEF X, evs, N
  <2> QED
    BY <1>1, <2>1, SeqOfFunction
<1>4. Emit(evs)
  BY DEF Abandoned
<1> HIDE DEF evs
<1>5. ASSUME NEW j \in 1..N
      PROVE  /\ evs[j].kind = "failed" /\ evs[j].via = <<>>
             /\ evs[j].id = items[lo + j - 1].identity
  BY <1>2, ToldFields
<1>6. \A e \in X : /\ e.kind = "failed" /\ e.via = <<>>
                   /\ \E i \in lo..hi : e.id = items[i].identity
  <2>1. ASSUME NEW j \in 1..N
        PROVE  lo + j - 1 \in lo..hi
    BY <1>1
  <2> QED
    BY <1>5, <2>1
<1> HIDE DEF X
<1>7. RestSame
  <2>1. \A e \in X : e.kind # "not-dialed" /\ e.id \in Names \cup {<<>>}
    BY <1>0, <1>6
  <2> QED
    BY <1>3, <1>4, <2>1, NoVerdictEvents
<1>8. ASSUME NEW k \in Names
      PROVE  PlaceSame(k)
  <2>1. \A e \in X : e.id = k => e.kind \notin {"queued", "not-dialed"} /\ e.via = <<>>
    BY <1>6
  <2> QED
    BY <1>3, <1>4, <2>1, PlainEvents
<1>9. ASSUME NEW k \in Names, \A i \in lo..hi : items[i].identity # k
      PROVE  StateSame(k)
  <2>1. \A e \in X : e.id = k => e.kind \in {"resolved", "queued"}
    BY <1>6, <1>9
  <2> QED
    BY <1>3, <1>4, <2>1, MildEvents
<1>10. ASSUME NEW k \in Names, NEW i \in lo..hi, items[i].identity = k
       PROVE  (RowHere(k).state)' = "failed"
  <2>1. PICK m \in 1..N : m = i - lo + 1 /\ lo + m - 1 = i
    BY <1>1
  <2>2. evs[m].id = k /\ evs[m].kind = "failed"
    BY <1>5, <1>10, <2>1
  <2>3. ASSUME NEW n \in 1..Len(evs), n > m
        PROVE  evs[n].id # k
    <3>1. PICK h \in Nat : h = lo + n - 1 /\ h \in DOMAIN items /\ h # i
      BY <1>1, <1>3, <2>1, <2>3
    <3>2. i \in DOMAIN items
      BY <1>1
    <3>3. items[h].identity # items[i].identity
      BY <3>1, <3>2, OneIdentity
    <3> QED
      BY <1>3, <1>5, <1>10, <3>1, <3>3
  <2>4. Len(evs) \in Nat /\ m \in 1..Len(evs) /\ k # <<>> /\ run' = Handled(run, evs)
    BY <1>1, <1>3, <1>4 DEF Emit, Names
  <2>5. R!RowOf(Handled(run, evs), k).state = evs[m].kind
    BY <2>2, <2>3, <2>4, LastWord
  <2> QED
    BY <2>2, <2>4, <2>5 DEF RowHere
<1> QED
  BY <1>7, <1>8, <1>9, <1>10

\* The events of one worker are about its device.
OwnEvents(X, id) ==
    \A e \in X : e.id = id /\ e.via = <<>> /\ e.kind \notin {"queued", "not-dialed"}

OthersSame(id) ==
    RestSame /\ \A k \in Names : PlaceSame(k) /\ (k # id => StateSame(k))

LEMMA WorkerEvents ==
    ASSUME NEW evs, NEW X, NEW id \in Names, evs \in Seq(X), OwnEvents(X, id), Emit(evs), Whole(run)
    PROVE  OthersSame(id)
<1>1. RestSame
  <2>1. \A e \in X : e.kind # "not-dialed" /\ e.id \in Names \cup {<<>>}
    BY DEF OwnEvents
  <2> QED
    BY <2>1, NoVerdictEvents
<1>2. ASSUME NEW k \in Names
      PROVE  PlaceSame(k)
  <2>1. \A e \in X : e.id = k => e.kind \notin {"queued", "not-dialed"} /\ e.via = <<>>
    BY DEF OwnEvents
  <2> QED
    BY <2>1, PlainEvents
<1>3. ASSUME NEW k \in Names, k # id
      PROVE  StateSame(k)
  <2>1. \A e \in X : e.id = k => e.kind \in {"resolved", "queued"}
    BY <1>3 DEF OwnEvents
  <2> QED
    BY <2>1, MildEvents
<1> QED
  BY <1>1, <1>2, <1>3 DEF OthersSame

OutcomeOf(d) == IF d.status = "reached" THEN "reached" ELSE "failed"

LEMMA OutcomeIs ==
    ASSUME NEW it, NEW d
    PROVE  \E o : /\ Outcome(it, d) = <<o>> /\ o.id = it.identity /\ o.via = <<>>
                  /\ o.kind = OutcomeOf(d)
<1>1. CASE d.status = "reached"
  BY <1>1, EvFields DEF Outcome, OutcomeOf
<1>2. CASE d.status # "reached"
  BY <1>2, ToldFields DEF Outcome, OutcomeOf
<1> QED
  BY <1>1, <1>2

LEMMA OutcomeEvents ==
    ASSUME NEW X, NEW s \in Seq(X), NEW o \in X, NEW id \in Names, OwnEvents(X, id),
           o.kind \in {"reached", "failed"}, Emit(s \o <<o>>), Whole(run)
    PROVE  OthersSame(id) /\ (RowHere(id).state)' = o.kind
<1> DEFINE t == <<o>>
           evs == s \o t
<1>1. t \in Seq(X) /\ Len(t) = 1 /\ t[1] = o
  OBVIOUS
<1> HIDE DEF t
<1>2. evs \in Seq(X)
  BY <1>1, CatSeq
<1>3. Len(s) \in Nat /\ Len(evs) = Len(s) + 1 /\ evs[Len(s) + 1] = o
  <2>1. Len(s \o t) = Len(s) + Len(t) /\ \A n \in 1..Len(t) : (s \o t)[Len(s) + n] = t[n]
    BY <1>1, CatAt
  <2> QED
    BY <1>1, <2>1, SeqElements
<1>4. Emit(evs)
  BY DEF t
<1> HIDE DEF evs
<1>5. OthersSame(id)
  BY <1>2, <1>4, WorkerEvents
<1>6. PICK m \in 1..Len(evs) : m = Len(evs) /\ evs[m] = o
  BY <1>3
<1>7. /\ Len(evs) \in Nat /\ id # <<>> /\ run' = Handled(run, evs) /\ o.id = id
      /\ \A n \in 1..Len(evs) : n > m => evs[n].id # id
  BY <1>3, <1>4, <1>6 DEF Emit, Names, OwnEvents
<1>8. R!RowOf(Handled(run, evs), id).state = evs[m].kind
  BY <1>6, <1>7, LastWord
<1> QED
  BY <1>5, <1>6, <1>7, <1>8 DEF RowHere

LEMMA BusyEvents ==
    ASSUME NEW X, NEW evs \in Seq(X), NEW id \in Names, OwnEvents(X, id),
           \A e \in X : e.kind \notin {"reached", "failed"}, Emit(evs), Whole(run),
           RowHere(id).state \notin {"reached", "failed"}
    PROVE  (RowHere(id).state)' \notin {"reached", "failed"}
<1>1. /\ Len(evs) \in Nat /\ run' = Handled(run, evs) /\ id # <<>>
      /\ \A n \in 1..Len(evs) : evs[n].id = id => evs[n].kind \notin {"reached", "failed"}
  BY SeqElements DEF Emit, Names
<1>2. R!RowOf(run, id).state \notin {"reached", "failed"}
  BY DEF RowHere
<1>3. R!RowOf(Handled(run, evs), id).state \notin {"reached", "failed"}
  BY <1>1, <1>2, NotEnded
<1> QED
  BY <1>1, <1>3 DEF RowHere

\* What a worker may say short of an outcome.
Own(i) ==
    LET id == items[i].identity
    IN  {Told("retry-addr", id, "addr"), Told("phase", id, "addr"), Told("auth-ok", id, "ranked"),
         Ev("auth-reject", id), Ev("collect", id), Ev("collect-err", id),
         Told("fallback", id, "fallback"), Told("phase", id, Methods[jobs[i].try + 1]),
         Told("phase", id, Methods[1])}

LEMMA OwnIsOwn ==
    ASSUME NEW i, NEW e \in Own(i)
    PROVE  /\ e.id = items[i].identity /\ e.via = <<>>
           /\ e.kind \in {"retry-addr", "phase", "auth-ok", "auth-reject", "collect",
                          "collect-err", "fallback"}
BY ToldFields, EvFields DEF Own

LEMMA OwnSeqs ==
    ASSUME NEW i, NEW r, NEW b
    PROVE  /\ Tried(items[i], r, b) \in Seq(Own(i)) /\ Lost(i, r) \in Seq(Own(i))
           /\ ThenNext(i) \in Seq(Own(i))
           /\ <<Told("phase", items[i].identity, Methods[1])>> \in Seq(Own(i))
<1> DEFINE id == items[i].identity
           e1 == Told("retry-addr", id, "addr")
           e2 == Told("phase", id, "addr")
           e3 == Told("auth-ok", id, "ranked")
           e4 == Ev("auth-reject", id)
           e5 == Ev("collect", id)
           e6 == Ev("collect-err", id)
           e7 == Told("fallback", id, "fallback")
           e8 == Told("phase", id, Methods[jobs[i].try + 1])
           e9 == Told("phase", id, Methods[1])
           X == Own(i)
<1>1. /\ e1 \in X /\ e2 \in X /\ e3 \in X /\ e4 \in X /\ e5 \in X
      /\ e6 \in X /\ e7 \in X /\ e8 \in X /\ e9 \in X
  BY DEF Own
<1>2. /\ Tried(items[i], r, b) =
            When(b, <<e1, e2>>) \o When(r.end \in {"late", "ok"}, <<e3>>)
            \o When(r.end = "auth", <<e4>>) \o When(r.end = "ok", <<e5>>)
      /\ Lost(i, r) = When(jobs[i].dev.status = "reached" /\ r.end # "ok", <<e6>>)
      /\ ThenNext(i) = <<e7, e8>>
  BY DEF Tried, Lost, ThenNext
<1> HIDE DEF e1, e2, e3, e4, e5, e6, e7, e8, e9, X
<1>3. /\ <<e1, e2>> \in Seq(X) /\ <<e3>> \in Seq(X) /\ <<e4>> \in Seq(X) /\ <<e5>> \in Seq(X)
      /\ <<e6>> \in Seq(X) /\ <<e7, e8>> \in Seq(X) /\ <<e9>> \in Seq(X)
  BY <1>1, OneSeq, PairSeq
<1>4. /\ When(b, <<e1, e2>>) \in Seq(X) /\ When(r.end \in {"late", "ok"}, <<e3>>) \in Seq(X)
      /\ When(r.end = "auth", <<e4>>) \in Seq(X) /\ When(r.end = "ok", <<e5>>) \in Seq(X)
      /\ When(jobs[i].dev.status = "reached" /\ r.end # "ok", <<e6>>) \in Seq(X)
  BY <1>3, WhenSeq
<1>5. Tried(items[i], r, b) \in Seq(X)
  <2> DEFINE s1 == When(b, <<e1, e2>>)
             s2 == When(r.end \in {"late", "ok"}, <<e3>>)
             s3 == When(r.end = "auth", <<e4>>)
             s4 == When(r.end = "ok", <<e5>>)
  <2>1. /\ Tried(items[i], r, b) = s1 \o s2 \o s3 \o s4
        /\ s1 \in Seq(X) /\ s2 \in Seq(X) /\ s3 \in Seq(X) /\ s4 \in Seq(X)
    BY <1>2, <1>4
  <2> HIDE DEF s1, s2, s3, s4
  <2>2. s1 \o s2 \in Seq(X)
    BY <2>1, CatSeq
  <2>3. (s1 \o s2) \o s3 \in Seq(X)
    BY <2>1, <2>2, CatSeq
  <2>4. ((s1 \o s2) \o s3) \o s4 \in Seq(X)
    BY <2>1, <2>3, CatSeq
  <2> QED
    BY <2>1, <2>4
<1> QED
  BY <1>2, <1>3, <1>4, <1>5 DEF X, e9

\* A worker's step, as the table sees it.
Worked(i, id) ==
    /\ OthersSame(id)
    /\ jobs'[i].st = "done" => (RowHere(id).state)' = OutcomeOf(jobs'[i].dev)
    /\ jobs'[i].st # "done" /\ RowHere(id).state \notin {"reached", "failed"} =>
          (RowHere(id).state)' \notin {"reached", "failed"}

LEMMA WorkedOutcome ==
    ASSUME NEW i, NEW id \in Names, id = items[i].identity, NEW s \in Seq(Own(i)), NEW d,
           Emit(s \o Outcome(items[i], d)), Whole(run), jobs'[i].st = "done", jobs'[i].dev = d
    PROVE  Worked(i, id)
<1>1. PICK o : /\ Outcome(items[i], d) = <<o>> /\ o.id = items[i].identity /\ o.via = <<>>
               /\ o.kind = OutcomeOf(d)
  BY OutcomeIs
<1>2. o.kind \in {"reached", "failed"}
  BY <1>1 DEF OutcomeOf
<1> DEFINE X == Own(i) \cup {o}
<1>3. OwnEvents(X, id)
  <2>1. ASSUME NEW e \in Own(i)
        PROVE  e.id = id /\ e.via = <<>> /\ e.kind \notin {"queued", "not-dialed"}
    BY OwnIsOwn
  <2>2. o.id = id /\ o.via = <<>> /\ o.kind \notin {"queued", "not-dialed"}
    BY <1>1, <1>2
  <2> QED
    BY <2>1, <2>2 DEF OwnEvents
<1>4. s \in Seq(X) /\ o \in X
  OBVIOUS
<1> HIDE DEF X
<1>5. Emit(s \o <<o>>)
  BY <1>1
<1>6. OthersSame(id) /\ (RowHere(id).state)' = o.kind
  BY <1>2, <1>3, <1>4, <1>5, OutcomeEvents
<1> QED
  BY <1>1, <1>6 DEF Worked

LEMMA WorkedOn ==
    ASSUME NEW i, NEW id \in Names, id = items[i].identity, NEW s \in Seq(Own(i)),
           Emit(s), Whole(run), jobs'[i].st # "done"
    PROVE  Worked(i, id)
<1>1. OwnEvents(Own(i), id) /\ \A e \in Own(i) : e.kind \notin {"reached", "failed"}
  BY OwnIsOwn DEF OwnEvents
<1>2. OthersSame(id)
  BY <1>1, WorkerEvents
<1>3. RowHere(id).state \notin {"reached", "failed"} =>
         (RowHere(id).state)' \notin {"reached", "failed"}
  BY <1>1, BusyEvents
<1> QED
  BY <1>2, <1>3 DEF Worked

LEMMA WorkerSteps ==
    ASSUME TypeOK, Whole(run), NEW i \in lo..hi, NEW id \in Names, id = items[i].identity,
           Start(i) \/ \E r \in Reports : End(i, r) \/ TryNext(i, r)
    PROVE  Worker(i) /\ Worked(i, id)
<1>1. i \in DOMAIN items /\ i \in DOMAIN jobs /\ jobs[i] \in Job
  BY ItemJobType DEF TypeOK
<1>2. CASE Start(i)
  <2>1. StartWorker(i) /\ Emit(Started(items[i]))
    BY <1>2 DEF Start
  <2>2. ASSUME NEW d, Started(items[i]) = Outcome(items[i], d)
        PROVE  Emit(<<>> \o Outcome(items[i], d))
    <3>1. PICK o : Outcome(items[i], d) = <<o>>
      BY OutcomeIs
    <3>2. <<>> \o <<o>> = <<o>>
      OBVIOUS
    <3> QED
      BY <2>1, <2>2, <3>1, <3>2
  <2>3. <<>> \in Seq(Own(i))
    BY EmptyIsSeq
  <2>4. CASE stopped
    <3>1. Started(items[i]) = Outcome(items[i], Blank(items[i], "stopped"))
      BY <2>4 DEF Started
    <3>2. jobs'[i] = [jobs[i] EXCEPT !.st = "done", !.dev = Blank(items[i], "stopped")]
      BY <1>1, <2>1, <2>4 DEF StartWorker
    <3>3. jobs'[i].st = "done" /\ jobs'[i].dev = Blank(items[i], "stopped")
      BY <1>1, <3>2 DEF Job
    <3>4. PICK d : d = Blank(items[i], "stopped")
      OBVIOUS
    <3> QED
      BY <2>1, <2>2, <2>3, <3>1, <3>3, <3>4, WorkedOutcome DEF Worker
  <2>5. CASE ~stopped /\ Methods = <<>>
    <3>1. Started(items[i]) = Outcome(items[i], Blank(items[i], "failed"))
      BY <2>5 DEF Started
    <3>2. jobs'[i] = [jobs[i] EXCEPT !.st = "done", !.dev = Blank(items[i], "failed")]
      BY <1>1, <2>1, <2>5 DEF StartWorker
    <3>3. jobs'[i].st = "done" /\ jobs'[i].dev = Blank(items[i], "failed")
      BY <1>1, <3>2 DEF Job
    <3>4. PICK d : d = Blank(items[i], "failed")
      OBVIOUS
    <3> QED
      BY <2>1, <2>2, <2>3, <3>1, <3>3, <3>4, WorkedOutcome DEF Worker
  <2>6. CASE ~stopped /\ Methods # <<>>
    <3>1. Emit(<<Told("phase", items[i].identity, Methods[1])>>)
      BY <2>1, <2>6 DEF Started
    <3>2. jobs'[i] = [jobs[i] EXCEPT !.st = "busy"]
      BY <1>1, <2>1, <2>6 DEF StartWorker
    <3>3. jobs'[i].st # "done"
      BY <1>1, <3>2 DEF Job
    <3>4. PICK s \in Seq(Own(i)) : s = <<Told("phase", items[i].identity, Methods[1])>>
      BY OwnSeqs
    <3> QED
      BY <2>1, <3>1, <3>3, <3>4, WorkedOn DEF Worker
  <2> QED
    BY <2>4, <2>5, <2>6
<1>3. ASSUME NEW r \in Reports, End(i, r)
      PROVE  Worker(i) /\ Worked(i, id)
  <2>1. PICK b \in BOOLEAN : Emit(Done(i, r, b))
    BY <1>3 DEF End
  <2>2. PICK d : d = Better(jobs[i].dev, Found(items[i], r))
    OBVIOUS
  <2>3. jobs'[i].st = "done" /\ jobs'[i].dev = d /\ Collect(i, r)
    BY <1>1, <1>3, <2>2 DEF End, Collect, Job
  <2>4. PICK s \in Seq(Own(i)) : s = Tried(items[i], r, b) \o Lost(i, r)
    BY OwnSeqs, CatSeq
  <2>5. Emit(s \o Outcome(items[i], d))
    BY <2>1, <2>2, <2>4 DEF Done
  <2> QED
    BY <2>3, <2>5, WorkedOutcome DEF Worker
<1>4. ASSUME NEW r \in Reports, TryNext(i, r)
      PROVE  Worker(i) /\ Worked(i, id)
  <2>1. PICK b \in BOOLEAN : Emit(Tried(items[i], r, b) \o Lost(i, r) \o ThenNext(i))
    BY <1>4 DEF TryNext
  <2>2. Fallback(i, r) /\ jobs'[i].st = "busy"
    BY <1>1, <1>4 DEF TryNext, Fallback, Job
  <2>3. PICK s \in Seq(Own(i)) : s = Tried(items[i], r, b) \o Lost(i, r) \o ThenNext(i)
    BY OwnSeqs, CatSeq
  <2> QED
    BY <2>1, <2>2, <2>3, WorkedOn DEF Worker
<1> QED
  BY <1>2, <1>3, <1>4

\* A claim that is passed over for what the policy says leaves a verdict.
LEMMA PassedEvents ==
    ASSUME Whole(run), SkipClaim, Emit(Passed), NEW e, Passed = <<e>>,
           e.kind = "not-dialed", e.id \in Names
    PROVE  /\ Whole(run)' /\ run'.closed = run.closed
           /\ VerdictsOf(run)' = VerdictsOf(run) \cup {e}
           /\ (RowHere(e.id).state)' = "not-dialed"
           /\ \A k \in Names : k # e.id => PlaceSame(k) /\ StateSame(k)
<1>1. run' = R!After(run, e)
  BY HandledOne DEF Emit
<1>2. /\ Whole(R!After(run, e)) /\ R!After(run, e).closed = run.closed
      /\ VerdictsOf(R!After(run, e)) =
            VerdictsOf(run) \cup (IF e.kind = "not-dialed" THEN {e} ELSE {})
  BY AfterWhole
<1>3. ASSUME NEW k \in Names
      PROVE  R!RowOf(run', k) =
                IF e.id = k THEN R!RowAfter(R!RowOf(run, k), e, run.seq + 1) ELSE R!RowOf(run, k)
  BY <1>1, AfterRow DEF Names
<1>4. R!RowOf(run', e.id).state = "not-dialed"
  BY <1>3, RowFields, StateEnds
<1>5. ASSUME NEW k \in Names, k # e.id
      PROVE  PlaceSame(k) /\ StateSame(k)
  BY <1>3, <1>5 DEF PlaceSame, StateSame, RowHere
<1> QED
  BY <1>1, <1>2, <1>4, <1>5 DEF RowHere

\* The verdict on a claim that was passed over, if that is what happened to it.
VerdictOn(e, i, c) ==
    /\ e.kind = "not-dialed" /\ e.via = items[i].identity
    /\ e.id \in Names /\ e.id \in {NextTarget(c), Ident(NextTarget(c))}

Barred(c) == Ident(NextTarget(c)) \in excluded \/ ~DialAllowed(NextTarget(c))

LEMMA EmptySides ==
    ASSUME NEW X, NEW s \in Seq(X)
    PROVE  /\ (s \o <<>>) \o <<>> = s /\ (<<>> \o s) \o <<>> = s
           /\ (<<>> \o <<>>) \o s = s
<1>1. s \o <<>> = s /\ <<>> \o s = s
  OBVIOUS
<1>2. <<>> \o <<>> = <<>>
  OBVIOUS
<1> QED
  BY <1>1, <1>2

\* What becomes of a claim that is passed over.
VerdictPassed(e) == Passed = <<e>> /\ VerdictOn(e, di, ThisClaim)

LEMMA PassedOver ==
    ASSUME TypeOK, SkipClaim
    PROVE  \/ Usable(ThisClaim) /\ Barred(ThisClaim) /\ \E e : VerdictPassed(e)
           \/ ~Usable(ThisClaim) /\ Passed = <<>>
           \/ /\ Dialable(ThisClaim) /\ Passed = Resolving(NextTarget(ThisClaim))
              /\ NextTarget(ThisClaim) \in Names
<1> DEFINE n == NextTarget(ThisClaim)
           e1 == NotDialed(Ident(n), "excluded")
           e2 == NotDialed(n, "not-allowed")
<1>0. Usable(ThisClaim) => n \in Names /\ Ident(n) \in Names
  BY ThisClaimType, NextTargetType, StripSuffixesType
     DEF SkipClaim, SkipUnusable, SkipExcluded, SkipNotAllowed, SkipClaimed, Ident
<1>1. Passed = When(SkipExcluded, <<e1>>) \o When(SkipNotAllowed, <<e2>>)
               \o When(SkipClaimed, Resolving(n))
  BY DEF Passed
<1>2. e1.kind = "not-dialed" /\ e1.via = items[di].identity /\ e1.id = Ident(n)
  BY NotDialedFields
<1>3. e2.kind = "not-dialed" /\ e2.via = items[di].identity /\ e2.id = n
  BY NotDialedFields
<1> HIDE DEF e1, e2
<1>4. CASE SkipUnusable
  <2>1. ~SkipExcluded /\ ~SkipNotAllowed /\ ~SkipClaimed /\ ~Usable(ThisClaim)
    BY <1>4 DEF SkipUnusable, SkipExcluded, SkipNotAllowed, SkipClaimed, Dialable
  <2>2. (<<>> \o <<>>) \o <<>> = <<>>
    BY EmptyIsSeq, EmptySides
  <2> QED
    BY <1>1, <2>1, <2>2 DEF When
<1>5. CASE SkipExcluded
  <2>1. /\ ~SkipNotAllowed /\ ~SkipClaimed /\ Usable(ThisClaim) /\ Barred(ThisClaim)
    BY <1>5 DEF SkipExcluded, SkipNotAllowed, SkipClaimed, Dialable, Barred
  <2>2. Passed = <<e1>>
    <3>1. <<e1>> \in Seq({e1})
      OBVIOUS
    <3>2. (<<e1>> \o <<>>) \o <<>> = <<e1>>
      BY <3>1, EmptySides
    <3> QED
      BY <1>1, <1>5, <2>1, <3>2 DEF When
  <2>3. VerdictPassed(e1)
    BY <1>0, <1>2, <2>1, <2>2 DEF VerdictPassed, VerdictOn
  <2> QED
    BY <2>1, <2>3
<1>6. CASE SkipNotAllowed
  <2>1. /\ ~SkipExcluded /\ ~SkipClaimed /\ Usable(ThisClaim) /\ Barred(ThisClaim)
    BY <1>6 DEF SkipExcluded, SkipNotAllowed, SkipClaimed, Dialable, Barred
  <2>2. Passed = <<e2>>
    <3>1. <<e2>> \in Seq({e2})
      OBVIOUS
    <3>2. (<<>> \o <<e2>>) \o <<>> = <<e2>>
      BY <3>1, EmptySides
    <3> QED
      BY <1>1, <1>6, <2>1, <3>2 DEF When
  <2>3. VerdictPassed(e2)
    BY <1>0, <1>3, <2>1, <2>2 DEF VerdictPassed, VerdictOn
  <2> QED
    BY <2>1, <2>3
<1>7. CASE SkipClaimed
  <2>1. ~SkipExcluded /\ ~SkipNotAllowed /\ Dialable(ThisClaim) /\ Usable(ThisClaim)
    BY <1>7 DEF SkipExcluded, SkipNotAllowed, SkipClaimed, Dialable
  <2>2. PICK X : Resolving(n) \in Seq(X)
    BY <1>0, <2>1, ResolvingSeq
  <2>3. (<<>> \o <<>>) \o Resolving(n) = Resolving(n)
    BY <2>2, EmptySides
  <2> QED
    BY <1>0, <1>1, <1>7, <2>1, <2>3 DEF When
<1> QED
  BY <1>4, <1>5, <1>6, <1>7 DEF SkipClaim

-----------------------------------------------------------------------------
(* The crawl with its table takes the steps of the crawl.                  *)

LEMMA RunStepIsCrawlStep ==
    ASSUME [RNext]_rvars
    PROVE  [Next]_vars
<1>1. CASE Seed \/ Open \/ Abandon \/ Skip \/ Neighbor \/ Silent
  BY <1>1 DEF Seed, Open, Abandon, Skip, Neighbor, Silent, Next, Step, Main
<1>2. ASSUME NEW i \in lo..hi, Start(i) \/ \E r \in Reports : End(i, r) \/ TryNext(i, r)
      PROVE  Worker(i)
  BY <1>2 DEF Start, End, TryNext, Worker
<1>3. CASE Finish \/ Idle \/ UNCHANGED rvars
  BY <1>3 DEF Finish, Idle, rvars
<1> QED
  BY <1>1, <1>2, <1>3 DEF RNext, Next, Step

\* Sending events changes nothing of the crawl.
THEOREM CrawlRunIsCrawl == RSpec => Spec
<1>1. RInit => Init
  BY DEF RInit
<1>2. [RNext]_rvars => [Next]_vars
  BY RunStepIsCrawlStep
<1> QED
  BY <1>1, <1>2, PTL DEF RSpec, Spec

-----------------------------------------------------------------------------
(* The steps of the crawl with its table, by what they do to the table.    *)

KeepsJobs == \A i \in DOMAIN items : jobs'[i] = jobs[i]
Opens == pc = "batch" /\ pc' = "collect"

Quietly ==
    /\ KeepsJobs /\ ~Opens /\ RestSame /\ \A k \in Names : PlaceSame(k) /\ StateSame(k)
    /\ SkipClaim => ~Usable(ThisClaim) \/ Dialable(ThisClaim)

Openly ==
    /\ KeepsJobs /\ RestSame /\ pc = "batch" /\ pc' = "collect" /\ ~SkipClaim
    /\ \A k \in Names : StateSame(k)
    /\ \A k \in Names : (\A i \in lo..hi : items[i].identity # k) => PlaceSame(k)
    /\ \A k \in Names : \A i \in lo..hi : items[i].identity = k => FoundAt(k, i)

Abandoning ==
    /\ pc = "batch" /\ pc' = "done" /\ ~SkipClaim
    /\ \A i \in DOMAIN items : i \notin lo..hi => jobs'[i] = jobs[i]
    /\ \A i \in lo..hi : jobs'[i].st = "done" /\ jobs'[i].dev.status = "stopped"
    /\ RestSame /\ \A k \in Names : PlaceSame(k)
    /\ \A k \in Names : (\A i \in lo..hi : items[i].identity # k) => StateSame(k)
    /\ \A k \in Names : \A i \in lo..hi :
          items[i].identity = k => (RowHere(k).state)' = "failed"

Working(i, id) ==
    /\ pc = "collect" /\ pc' = pc /\ ~SkipClaim
    /\ id = items[i].identity /\ jobs[i].st # "done"
    /\ \A j \in DOMAIN items : j # i => jobs'[j] = jobs[j]
    /\ Worked(i, id)

Judging(e) ==
    /\ SkipClaim /\ pc = "admit" /\ pc' = pc /\ di \in DOMAIN items /\ UNCHANGED jobs
    /\ Usable(ThisClaim) /\ Barred(ThisClaim) /\ VerdictOn(e, di, ThisClaim)
    /\ Whole(run)' /\ run'.closed = run.closed
    /\ VerdictsOf(run)' = VerdictsOf(run) \cup {e}
    /\ (RowHere(e.id).state)' = "not-dialed"
    /\ \A k \in Names : k # e.id => PlaceSame(k) /\ StateSame(k)

Finishing ==
    /\ UNCHANGED vars /\ pc = "done" /\ ~SkipClaim /\ run'.closed = TRUE
    /\ Whole(run)' /\ VerdictsOf(run)' = VerdictsOf(run)
    /\ \A k \in Names :
          /\ PlaceSame(k)
          /\ RowHere(k).state \notin {"queued", "running"} =>
                (RowHere(k).state)' = RowHere(k).state

\* Run.finishAt leaves every row where it is and every outcome as it is.
LEMMA FinishStep ==
    ASSUME Whole(run), Finish
    PROVE  Finishing
<1>1. PICK order : run' = R!Ended(run, order)
  BY DEF Finish
<1>2. /\ pc = "done" /\ UNCHANGED vars
  BY DEF Finish
<1>3. ~SkipClaim
  BY <1>2 DEF SkipClaim, SkipUnusable, SkipExcluded, SkipNotAllowed, SkipClaimed, AtClaim, Walking
<1> DEFINE F == R!InFlight(run)
           after == [k \in DOMAIN run.rows |->
                        IF k \in F THEN R!RowEnded(run.rows[k], run.seq + order[k])
                                   ELSE run.rows[k]]
<1>4. /\ run = [rows |-> run.rows, seq |-> run.seq, depth |-> run.depth, notes |-> run.notes,
                rejections |-> run.rejections, closed |-> run.closed]
      /\ Listed(run) /\ DOMAIN run.rows \subseteq Names
      /\ \A k \in DOMAIN run.rows : WholeRow(run.rows[k])
  BY DEF Whole
<1>5. \E n : run' = [run EXCEPT !.rows = after, !.seq = n, !.closed = TRUE]
  BY <1>1 DEF R!Ended
<1> HIDE DEF after
<1>6. /\ run'.rows = after /\ run'.notes = run.notes /\ run'.closed = TRUE
      /\ run' = [rows |-> run'.rows, seq |-> run'.seq, depth |-> run'.depth, notes |-> run'.notes,
                 rejections |-> run'.rejections, closed |-> run'.closed]
  BY <1>4, <1>5
<1>7. ASSUME NEW k \in DOMAIN run.rows
      PROVE  /\ WholeRow(after[k]) /\ after[k].via = run.rows[k].via
             /\ after[k].depth = run.rows[k].depth
             /\ run.rows[k].state \notin {"queued", "running"} => after[k] = run.rows[k]
  <2>1. CASE k \notin F
    BY <1>4, <2>1 DEF after
  <2>2. CASE k \in F
    <3>1. run.rows[k].state \in {"queued", "running"}
      BY <2>2 DEF R!InFlight
    <3>2. PICK row : row = run.rows[k] /\ WholeRow(row)
      BY <1>4
    <3>3. after[k] = R!RowEnded(row, run.seq + order[k])
      BY <2>2, <3>2 DEF after
    <3>4. WholeRow(after[k]) /\ after[k].via = row.via /\ after[k].depth = row.depth
      BY <3>2, <3>3 DEF WholeRow, R!RowEnded
    <3> QED
      BY <3>1, <3>2, <3>4
  <2> QED
    BY <2>1, <2>2
<1>8. DOMAIN after = DOMAIN run.rows /\ after = [k \in DOMAIN after |-> after[k]]
  BY DEF after
<1>9. Whole(run)'
  <2>1. Listed(run)'
    BY <1>4, <1>6 DEF Listed
  <2> QED
    BY <1>4, <1>6, <1>7, <1>8, <2>1 DEF Whole
<1>10. VerdictsOf(run)' = VerdictsOf(run)
  BY <1>6 DEF VerdictsOf
<1>11. ASSUME NEW k \in Names
       PROVE  /\ PlaceSame(k)
              /\ RowHere(k).state \notin {"queued", "running"} =>
                    (RowHere(k).state)' = RowHere(k).state
  BY <1>6, <1>7, <1>8 DEF PlaceSame, RowHere, R!RowOf
<1> QED
  BY <1>2, <1>3, <1>6, <1>9, <1>10, <1>11 DEF Finishing

\* What sends no verdict, outcome or announcement.
LEMMA QuietSteps ==
    ASSUME ClaimInv, Whole(run),
           Seed \/ Neighbor \/ Silent \/ Idle \/ UNCHANGED rvars
    PROVE  Quietly
<1>0. TypeOK
  BY DEF ClaimInv
<1>1. CASE Silent \/ Idle \/ UNCHANGED rvars
  <2>1. UNCHANGED run
    BY <1>1 DEF Silent, Idle, rvars
  <2>2. RestSame /\ \A k \in Names : PlaceSame(k) /\ StateSame(k)
    BY <2>1, UnchangedRun
  <2>3. jobs' = jobs /\ ~Opens /\ ~SkipClaim
    <3>1. CASE NextBatch \/ FrontierEmpty \/ WaitAll \/ Register \/ Settle \/ Stop
      BY <1>0, <3>1 DEF NextBatch, FrontierEmpty, WaitAll, Register, Settle, Stop, Opens,
             SkipClaim, SkipUnusable, SkipExcluded, SkipNotAllowed, SkipClaimed, TypeOK
    <3>2. CASE NextDevice
      BY <1>0, <3>2 DEF NextDevice, Opens, SkipClaim, TypeOK
    <3>3. CASE UNCHANGED vars
      BY <1>0, <3>3 DEF vars, Opens, SkipClaim, TypeOK
    <3> QED
      BY <1>1, <3>1, <3>2, <3>3 DEF Silent, Idle, rvars
  <2> QED
    BY <2>2, <2>3 DEF Quietly, KeepsJobs
<1>2. CASE Seed
  <2>1. Emit(Resolving(Seeds[di])) /\ pc = "seed" /\ Seeds[di] \in Names
    BY <1>0, <1>2, CrawlAssumption DEF Seed, AdmitSeed, RefuseSeed, TypeOK
  <2>2. PICK n \in Names : n = Seeds[di] /\ Emit(Resolving(n))
    BY <2>1
  <2>3. RestSame /\ \A k \in Names : PlaceSame(k) /\ StateSame(k)
    BY <2>2, ResolvingEvents
  <2>4. KeepsJobs
    <3>1. CASE RefuseSeed
      BY <3>1 DEF RefuseSeed, KeepsJobs
    <3>2. CASE AdmitSeed
      <4>1. BatchShape
        BY DEF ClaimInv
      <4>2. PICK m, a, d, p : Admit(m, a, d, p)
        BY <1>0, <3>2, <4>1, AdmittedSeed
      <4> QED
        BY <1>0, <4>2, AdmitKeeps DEF KeepsJobs
    <3> QED
      BY <1>2, <3>1, <3>2 DEF Seed
  <2> QED
    BY <2>1, <2>3, <2>4 DEF Quietly, Opens, SkipClaim, SkipUnusable, SkipExcluded,
                           SkipNotAllowed, SkipClaimed, AtClaim, Walking
<1>3. CASE Neighbor
  <2>1. /\ Emit(Resolving(NextTarget(ThisClaim))) /\ AdmitNeighbor
        /\ NextTarget(ThisClaim) \in Names
    BY <1>0, <1>3, AdmittedNeighbor DEF Neighbor
  <2>2. PICK n \in Names : n = NextTarget(ThisClaim) /\ Emit(Resolving(n))
    BY <2>1
  <2>3. RestSame /\ \A k \in Names : PlaceSame(k) /\ StateSame(k)
    BY <2>2, ResolvingEvents
  <2>4. KeepsJobs
    <3>1. PICK m, a, d, p : Admit(m, a, d, p)
      BY <1>0, <2>1, AdmittedNeighbor
    <3> QED
      BY <1>0, <3>1, AdmitKeeps DEF KeepsJobs
  <2>5. pc = "admit" /\ Dialable(ThisClaim)
    BY <2>1 DEF AdmitNeighbor, AtClaim, Walking
  <2> QED
    BY <2>3, <2>4, <2>5 DEF Quietly, Opens
<1> QED
  BY <1>1, <1>2, <1>3

LEMMA RunSteps ==
    ASSUME ClaimInv, Whole(run), [RNext]_rvars
    PROVE  \/ Quietly \/ Openly \/ Abandoning \/ Finishing
           \/ \E i \in lo..hi : \E id \in Names : Working(i, id)
           \/ \E e : Judging(e)
<1>0. TypeOK /\ OneVisit
  BY DEF ClaimInv
<1>1. CASE Seed \/ Neighbor \/ Silent \/ Idle \/ UNCHANGED rvars
  BY <1>1, QuietSteps
<1>2. CASE Open
  <2>1. Emit(Announced) /\ lo <= hi /\ pc = "batch" /\ pc' = "collect" /\ jobs' = jobs
    BY <1>2 DEF Open, OpenBatch
  <2>2. ~SkipClaim
    BY <2>1 DEF SkipClaim, SkipUnusable, SkipExcluded, SkipNotAllowed, SkipClaimed, AtClaim, Walking
  <2>3. /\ RestSame
        /\ \A k \in Names : StateSame(k)
        /\ \A k \in Names : (\A i \in lo..hi : items[i].identity # k) => PlaceSame(k)
        /\ \A k \in Names : \A i \in lo..hi : items[i].identity = k => FoundAt(k, i)
    BY <1>0, <2>1, AnnouncedEvents
  <2> QED
    BY <2>1, <2>2, <2>3 DEF Openly, KeepsJobs
<1>3. CASE Abandon
  <2>1. Emit(Abandoned) /\ lo <= hi /\ pc = "batch" /\ pc' = "done" /\ AbandonBatch
    BY <1>3 DEF Abandon, AbandonBatch
  <2>2. ~SkipClaim
    BY <2>1 DEF SkipClaim, SkipUnusable, SkipExcluded, SkipNotAllowed, SkipClaimed, AtClaim, Walking
  <2>3. /\ RestSame
        /\ \A k \in Names : PlaceSame(k)
        /\ \A k \in Names : (\A i \in lo..hi : items[i].identity # k) => StateSame(k)
        /\ \A k \in Names : \A i \in lo..hi :
              items[i].identity = k => (RowHere(k).state)' = "failed"
    BY <1>0, <2>1, AbandonedEvents
  <2>4. ASSUME NEW i \in DOMAIN items, i \notin lo..hi
        PROVE  jobs'[i] = jobs[i]
    BY <1>0, <2>1, <2>4, ItemJobType DEF AbandonBatch
  <2>5. ASSUME NEW i \in lo..hi
        PROVE  jobs'[i].st = "done" /\ jobs'[i].dev.status = "stopped"
    <3>1. i \in DOMAIN items
      BY <1>0 DEF TypeOK
    <3>2. PICK job \in Job : job = jobs[i] /\ i \in DOMAIN jobs
      BY <1>0, <3>1, ItemJobType
    <3>3. PICK it : it = items[i]
      OBVIOUS
    <3>7. Blank(it, "stopped").status = "stopped"
      BY DEF Blank
    <3>6. PICK d : d = Blank(it, "stopped") /\ d.status = "stopped"
      BY <3>7
    <3>4. jobs'[i] = [job EXCEPT !.st = "done", !.dev = d]
      BY <2>1, <3>2, <3>3, <3>6 DEF AbandonBatch
    <3>5. jobs'[i].st = "done" /\ jobs'[i].dev = d
      BY <3>2, <3>4 DEF Job
    <3> QED
      BY <3>5, <3>6
  <2> QED
    BY <2>1, <2>2, <2>3, <2>4, <2>5 DEF Abandoning
<1>4. CASE Finish
  BY <1>4, FinishStep
<1>5. ASSUME NEW i \in lo..hi, Start(i) \/ \E r \in Reports : End(i, r) \/ TryNext(i, r)
      PROVE  \E id \in Names : Working(i, id)
  <2>0. i \in DOMAIN items
    BY <1>0 DEF TypeOK
  <2>1. i \in DOMAIN items /\ items[i].identity \in Names
    BY <1>0, <2>0, ItemJobType DEF Item
  <2>2. PICK id \in Names : id = items[i].identity
    BY <2>1
  <2>3. Worker(i) /\ Worked(i, id)
    BY <1>0, <1>5, <2>2, WorkerSteps
  <2>4. /\ pc = "collect" /\ pc' = pc
        /\ \A j \in DOMAIN jobs : j # i => jobs'[j] = jobs[j]
    BY <1>0, <2>3, WorkerType
  <2>5. jobs[i].st # "done"
    BY <1>0, <2>3, WorkerJob
  <2>6. ~SkipClaim
    BY <2>4 DEF SkipClaim, SkipUnusable, SkipExcluded, SkipNotAllowed, SkipClaimed, AtClaim, Walking
  <2>7. Working(i, id)
    BY <1>0, <2>2, <2>3, <2>4, <2>5, <2>6 DEF Working, TypeOK
  <2> QED
    BY <2>7
<1>6. CASE Skip
  <2>1. SkipClaim /\ Emit(Passed)
    BY <1>6 DEF Skip
  <2>2. /\ AtClaim /\ jobs' = jobs /\ pc' = pc
    BY <2>1 DEF SkipClaim, SkipUnusable, SkipExcluded, SkipNotAllowed, SkipClaimed
  <2>3. pc = "admit" /\ di \in DOMAIN items
    BY <1>0, <2>2, ThisClaimType DEF AtClaim, Walking
  <2>4. CASE Usable(ThisClaim) /\ Barred(ThisClaim) /\ \E e : VerdictPassed(e)
    <3>1. PICK e : Passed = <<e>> /\ VerdictOn(e, di, ThisClaim)
      BY <2>4 DEF VerdictPassed
    <3>2. e.kind = "not-dialed" /\ e.id \in Names
      BY <3>1 DEF VerdictOn
    <3>3. /\ Whole(run)' /\ run'.closed = run.closed
          /\ VerdictsOf(run)' = VerdictsOf(run) \cup {e}
          /\ (RowHere(e.id).state)' = "not-dialed"
          /\ \A k \in Names : k # e.id => PlaceSame(k) /\ StateSame(k)
      BY <2>1, <3>1, <3>2, PassedEvents
    <3>4. Judging(e)
      BY <2>1, <2>2, <2>3, <2>4, <3>1, <3>3 DEF Judging
    <3> QED
      BY <3>4
  <2>5. CASE ~Usable(ThisClaim) /\ Passed = <<>>
    <3>1. UNCHANGED run
      BY <2>1, <2>5, HandledNone DEF Emit
    <3>2. RestSame /\ \A k \in Names : PlaceSame(k) /\ StateSame(k)
      BY <3>1, UnchangedRun
    <3> QED
      BY <2>2, <2>3, <2>5, <3>2 DEF Quietly, KeepsJobs, Opens
  <2>6. CASE Dialable(ThisClaim) /\ Passed = Resolving(NextTarget(ThisClaim))
             /\ NextTarget(ThisClaim) \in Names
    <3>1. PICK n \in Names : n = NextTarget(ThisClaim) /\ Emit(Resolving(n))
      BY <2>1, <2>6
    <3>2. RestSame /\ \A k \in Names : PlaceSame(k) /\ StateSame(k)
      BY <3>1, ResolvingEvents
    <3> QED
      BY <2>2, <2>3, <2>6, <3>2 DEF Quietly, KeepsJobs, Opens
  <2> QED
    BY <1>0, <2>1, <2>4, <2>5, <2>6, PassedOver
<1> QED
  BY <1>1, <1>2, <1>3, <1>4, <1>5, <1>6 DEF RNext

-----------------------------------------------------------------------------
(* The table, row by row.                                                  *)

\* Devices that a batch has announced.
Shown(i) == i < lo \/ (i <= hi /\ pc \in {"collect", "claim", "admit"})

\* What no batch has reached is still queued.
StillQueued ==
    \A i \in DOMAIN items :
        i > hi \/ (pc = "batch" /\ i >= lo) => jobs[i].st = "queued"

\* A row that has ended, of a run that has not, is that of a device that has
\* ended; and such a device has the row it ended with.
EndedWasDone ==
    ~run.closed => \A k \in Names : RowHere(k).state \in {"reached", "failed"} =>
        \E j \in DOMAIN items : items[j].identity = k /\ jobs[j].st = "done"

DoneIsTold ==
    \A i \in DOMAIN items : jobs[i].st = "done" =>
        LET k == items[i].identity
        IN  \/ RowHere(k).state = OutcomeOf(jobs[i].dev)
            \/ RowHere(k).state = "not-dialed" /\ Judged(k)

\* Where devices are shown, and that what neither a batch nor a verdict has
\* named is nowhere yet.
ShownThere ==
    \A i \in DOMAIN items : Shown(i) =>
        LET k == items[i].identity
        IN  \/ RowHere(k).depth = items[i].depth /\ RowHere(k).via = ParentOf(items[i])
            \/ Judged(k)

NotShownYet ==
    \A k \in Names :
        \/ RowHere(k).via = <<>>
        \/ Judged(k)
        \/ \E i \in DOMAIN items : Shown(i) /\ items[i].identity = k

\* Every verdict stands, unless the device was dialed all the same; and there
\* is one on every claim the policy bars among those that were looked at.
VerdictStands ==
    \A e \in Verdicts : e.id \in Names /\
        (\/ RowHere(e.id).state = "not-dialed"
         \/ \E j \in DOMAIN items : items[j].identity = e.id)

VerdictGiven ==
    \A i \in DOMAIN items : \A n \in DOMAIN jobs[i].dev.nbrs :
        LET c == jobs[i].dev.nbrs[n]
        IN  /\ Seen(i, n) /\ Propagates(i) /\ Usable(c)
            /\ c.excl \/ ~DialAllowed(NextTarget(c))
            => \E e \in Verdicts : VerdictOn(e, i, c)

TableInv ==
    /\ Whole(run) /\ (run.closed => pc = "done")
    /\ StillQueued /\ EndedWasDone /\ DoneIsTold /\ ShownThere /\ NotShownYet
    /\ VerdictStands /\ VerdictGiven

-----------------------------------------------------------------------------
(* What every step does to the devices and the verdicts.                   *)

LEMMA VerdictsAre == Verdicts = VerdictsOf(run)
BY DEF Verdicts, VerdictsOf

LEMMA NewItem ==
    ASSUME ClaimInv, TypeOK', [Next]_vars, NEW i \in DOMAIN items', i \notin DOMAIN items
    PROVE  /\ jobs'[i].st = "queued" /\ jobs'[i].dev.nbrs = <<>>
           /\ i > hi /\ ~Shown(i)' /\ pc \in {"seed", "admit"} /\ pc' = pc
<1>1. AdmitSeed \/ AdmitNeighbor
  BY ClaimedStep DEF Register
<1>2. PICK m \in Nat : m = Len(items) + 1
  BY DEF ClaimInv, TypeOK
<1>3. Adds(m) /\ UNCHANGED <<pc, lo, hi>>
  BY <1>1, <1>2, Admission
<1>4. i = m
  BY <1>3 DEF Adds, Added
<1>5. jobs'[i].st = "queued" /\ jobs'[i].dev = Blank(items'[i], "none") /\ pc \in {"seed", "admit"}
  BY <1>3, <1>4 DEF Adds, Added
<1>6. PICK it : it = items'[i]
  OBVIOUS
<1>7. jobs'[i].dev = Blank(it, "none")
  BY <1>5, <1>6
<1>8. Blank(it, "none").nbrs = <<>>
  BY DEF Blank
<1>9. jobs'[i].dev.nbrs = <<>>
  BY <1>7, <1>8
<1>10. /\ hi \in Nat /\ lo \in Nat /\ Len(items) \in Nat /\ hi <= Len(items) /\ lo <= hi + 1
  BY DEF ClaimInv, TypeOK
<1>11. i > hi /\ ~(i < lo) /\ ~(i <= hi)
  BY <1>2, <1>4, <1>10
<1>12. ~Shown(i)'
  BY <1>3, <1>11 DEF Shown
<1> QED
  BY <1>3, <1>5, <1>9, <1>11, <1>12

LEMMA ShownStep ==
    ASSUME ClaimInv, TypeOK', [Next]_vars, NEW i \in DOMAIN items
    PROVE  /\ Shown(i) => Shown(i)'
           /\ Shown(i)' => Shown(i) \/ (Opens /\ i \in lo..hi)
           /\ Opens => (Shown(i)' <=> Shown(i) \/ i \in lo..hi)
<1> DEFINE Goal == /\ Shown(i) => Shown(i)'
                   /\ Shown(i)' => Shown(i) \/ (Opens /\ i \in lo..hi)
                   /\ Opens => (Shown(i)' <=> Shown(i) \/ i \in lo..hi)
<1>1. /\ TypeOK /\ BatchShape /\ i \in Nat /\ lo \in Nat /\ hi \in Nat /\ lo <= hi + 1 /\ i >= 1
  BY DEF ClaimInv, TypeOK
<1>2. CASE NextBatch
  BY <1>1, <1>2 DEF NextBatch, Shown, Opens, BatchShape
<1>3. CASE OpenBatch
  BY <1>1, <1>3 DEF OpenBatch, Shown, Opens
<1>4. CASE AbandonBatch \/ FrontierEmpty
  BY <1>1, <1>4 DEF AbandonBatch, FrontierEmpty, Shown, Opens
<1>5. CASE WaitAll \/ Settle
  BY <1>1, <1>5 DEF WaitAll, Settle, Shown, Opens
<1>6. ASSUME UNCHANGED <<pc, lo, hi>>
      PROVE  Goal
  BY <1>1, <1>6 DEF Shown, Opens
<1>7. ASSUME NEW w \in lo..hi, Worker(w)
      PROVE  Goal
  BY <1>1, <1>6, <1>7, WorkerType
<1>8. CASE AdmitSeed \/ AdmitNeighbor
  BY <1>6, <1>8, Admission
<1>9. CASE \/ RefuseSeed \/ Register \/ NextDevice \/ SkipClaim \/ Stop \/ Finished \/ UNCHANGED vars
  BY <1>6, <1>9 DEF RefuseSeed, Register, NextDevice, SkipClaim, Stop, Finished, vars
<1> QED
  BY <1>2, <1>3, <1>4, <1>5, <1>7, <1>8, <1>9 DEF Next, Step, Main

LEMMA VerdictsStep ==
    ASSUME ClaimInv, Whole(run), [RNext]_rvars
    PROVE  /\ Whole(run)' /\ Verdicts \subseteq Verdicts'
           /\ (\A e : ~Judging(e)) => Verdicts' = Verdicts
           /\ \A e : Judging(e) => Verdicts' = Verdicts \cup {e}
           /\ run'.closed => run.closed \/ Finishing
           /\ run.closed => run'.closed
<1>1. Verdicts = VerdictsOf(run) /\ Verdicts' = VerdictsOf(run)'
  BY VerdictsAre DEF Verdicts, VerdictsOf
<1>2. CASE Quietly \/ Openly \/ Abandoning
  <2>1. RestSame
    BY <1>2 DEF Quietly, Openly, Abandoning
  <2>2. SkipClaim => Quietly
    BY <1>2 DEF Openly, Abandoning
  <2>3. Barred(ThisClaim) => ~Dialable(ThisClaim)
    BY DEF Barred, Dialable
  <2>4. ASSUME NEW e, Judging(e)
        PROVE  FALSE
    <3>1. SkipClaim /\ Usable(ThisClaim) /\ Barred(ThisClaim)
      BY <2>4 DEF Judging
    <3> QED
      BY <2>2, <2>3, <3>1 DEF Quietly
  <2> QED
    BY <1>1, <2>1, <2>4 DEF RestSame
<1>3. CASE Finishing
  <2>1. \A e : ~Judging(e)
    BY <1>3 DEF Finishing, Judging
  <2> QED
    BY <1>1, <1>3, <2>1 DEF Finishing
<1>4. CASE \E i \in lo..hi : \E id \in Names : Working(i, id)
  <2>1. RestSame /\ \A e : ~Judging(e)
    BY <1>4 DEF Working, Worked, OthersSame, Judging
  <2> QED
    BY <1>1, <2>1 DEF RestSame
<1>5. CASE \E e : Judging(e)
  BY <1>1, <1>5 DEF Judging
<1> QED
  BY <1>2, <1>3, <1>4, <1>5, RunSteps

-----------------------------------------------------------------------------
(* Preservation, part by part.                                             *)

LEMMA TableInvInit ==
    ASSUME RInit
    PROVE  TableInv
<1>1. Init /\ run = R!NewRun
  BY DEF RInit
<1>2. /\ Whole(run) /\ VerdictsOf(run) = {} /\ run.closed = FALSE
      /\ \A k : R!RowOf(run, k) = R!NewRow
  BY <1>1, NewRunWhole
<1>5. R!NewRow.state = "queued" /\ R!NewRow.via = <<>>
  BY DEF R!NewRow
<1>3. \A k : RowHere(k).state = "queued" /\ RowHere(k).via = <<>>
  BY <1>2, <1>5 DEF RowHere
<1>4. DOMAIN items = {} /\ Verdicts = {}
  BY <1>1, <1>2, VerdictsAre DEF Init
<1> QED
  BY <1>2, <1>3, <1>4 DEF TableInv, StillQueued, EndedWasDone, DoneIsTold, ShownThere,
                          NotShownYet, VerdictStands, VerdictGiven

LEMMA StillQueuedStep ==
    ASSUME ClaimInv, TypeOK', [Next]_vars, StillQueued
    PROVE  StillQueued'
<1> SUFFICES ASSUME NEW i \in DOMAIN items', i > hi' \/ (pc' = "batch" /\ i >= lo')
             PROVE  jobs'[i].st = "queued"
  BY DEF StillQueued
<1>1. /\ TypeOK /\ BatchShape /\ lo \in Nat /\ hi \in Nat /\ lo <= hi + 1 /\ Len(items) \in Nat
      /\ hi <= Len(items)
  BY DEF ClaimInv, TypeOK
<1>2. CASE i \notin DOMAIN items
  BY <1>2, NewItem
<1>3. CASE i \in DOMAIN items
  <2>1. i \in Nat /\ i <= Len(items) /\ i \in DOMAIN jobs
    BY <1>1, <1>3 DEF TypeOK
  <2>2. i > hi \/ (pc = "batch" /\ i >= lo) => jobs[i].st = "queued"
    BY <1>3 DEF StillQueued
  <2>3. ASSUME NEW w \in lo..hi, Worker(w)
        PROVE  jobs'[i].st = "queued"
    <3>1. pc = "collect" /\ pc' = pc /\ hi' = hi /\ \A k \in DOMAIN jobs : k # w => jobs'[k] = jobs[k]
      BY <1>1, <2>3, WorkerType
    <3>2. pc' # "batch"
      BY <3>1
    <3>3. i > hi'
      BY <3>2
    <3>4. i > hi /\ i # w
      BY <1>1, <2>1, <3>1, <3>3
    <3> QED
      BY <2>1, <2>2, <3>1, <3>4
  <2>4. CASE AdmitSeed \/ AdmitNeighbor
    <3>1. UNCHANGED <<pc, lo, hi>>
      BY <2>4, Admission
    <3>2. PICK n, a, d, p : Admit(n, a, d, p)
      BY <2>4 DEF AdmitSeed, AdmitNeighbor
    <3>3. jobs'[i] = jobs[i]
      BY <1>1, <1>3, <3>2, AdmitKeeps
    <3> QED
      BY <2>2, <3>1, <3>3
  <2>5. CASE AbandonBatch
    <3>1. pc' = "done" /\ hi' = hi
      BY <2>5 DEF AbandonBatch
    <3>2. pc' # "batch"
      BY <3>1
    <3>3. i > hi'
      BY <3>2
    <3>4. i > hi /\ i \notin lo..hi
      BY <1>1, <2>1, <3>1, <3>3
    <3>5. jobs'[i] = jobs[i]
      BY <2>1, <2>5, <3>4 DEF AbandonBatch
    <3> QED
      BY <2>2, <3>4, <3>5
  <2>6. CASE NextBatch
    BY <1>1, <2>1, <2>2, <2>6 DEF NextBatch, BatchShape
  <2>7. CASE OpenBatch \/ FrontierEmpty \/ WaitAll \/ Settle
    BY <1>1, <2>1, <2>2, <2>7 DEF OpenBatch, FrontierEmpty, WaitAll, Settle
  <2>8. CASE \/ RefuseSeed \/ Register \/ NextDevice \/ SkipClaim \/ Stop \/ Finished
             \/ UNCHANGED vars
    BY <2>2, <2>8 DEF RefuseSeed, Register, NextDevice, SkipClaim, Stop, Finished, vars
  <2> QED
    BY <2>3, <2>4, <2>5, <2>6, <2>7, <2>8 DEF Next, Step, Main
<1> QED
  BY <1>2, <1>3

\* A device that has ended keeps its result.
LEMMA DoneStays ==
    ASSUME ClaimInv, TableInv, [RNext]_rvars, NEW i \in DOMAIN items, jobs[i].st = "done"
    PROVE  jobs'[i] = jobs[i]
<1>1. Whole(run) /\ StillQueued
  BY DEF TableInv
<1>2. CASE Abandoning
  <2>1. i \notin lo..hi
    BY <1>1, <1>2 DEF Abandoning, StillQueued
  <2> QED
    BY <1>2, <2>1 DEF Abandoning
<1>3. CASE Quietly \/ Openly
  BY <1>3 DEF Quietly, Openly, KeepsJobs
<1>4. CASE Finishing \/ \E e : Judging(e)
  BY <1>4 DEF Finishing, Judging, vars
<1>5. CASE \E w \in lo..hi : \E id \in Names : Working(w, id)
  BY <1>5 DEF Working
<1> QED
  BY <1>1, <1>2, <1>3, <1>4, <1>5, RunSteps

\* A row that has ended stays as it is, or a verdict overwrites it: its device
\* has ended, and what has ended has no worker and is in no batch to abandon.
LEMMA EndedRowStep ==
    ASSUME ClaimInv, TableInv, [RNext]_rvars, NEW k \in Names,
           RowHere(k).state \in {"reached", "failed", "not-dialed"}
    PROVE  \/ (RowHere(k).state)' = RowHere(k).state
           \/ \E e : Judging(e) /\ e.id = k /\ (RowHere(k).state)' = "not-dialed"
           \/ /\ RowHere(k).state = "not-dialed"
              /\ \E i \in DOMAIN items : items[i].identity = k /\ jobs[i].st # "done"
<1>1. Whole(run) /\ StillQueued /\ EndedWasDone /\ (run.closed => pc = "done")
      /\ TypeOK /\ OneVisit
  BY DEF TableInv, ClaimInv
<1>2. CASE Quietly \/ Openly
  <2>1. StateSame(k)
    BY <1>2 DEF Quietly, Openly
  <2> QED
    BY <2>1 DEF StateSame
<1>3. CASE Finishing
  BY <1>3 DEF Finishing
<1>4. CASE \E e : Judging(e)
  <2>1. PICK e : Judging(e)
    BY <1>4
  <2>2. CASE e.id = k
    BY <2>1, <2>2 DEF Judging
  <2>3. CASE e.id # k
    <3>1. StateSame(k)
      BY <2>1, <2>3 DEF Judging
    <3> QED
      BY <3>1 DEF StateSame
  <2> QED
    BY <2>2, <2>3
<1>5. ASSUME RowHere(k).state # "not-dialed", ~run.closed
      PROVE  \E j \in DOMAIN items : items[j].identity = k /\ jobs[j].st = "done"
  BY <1>1, <1>5 DEF EndedWasDone
<1>6. CASE Abandoning
  <2>1. CASE \A i \in lo..hi : items[i].identity # k
    <3>1. StateSame(k)
      BY <1>6, <2>1 DEF Abandoning
    <3> QED
      BY <3>1 DEF StateSame
  <2>2. CASE \E i \in lo..hi : items[i].identity = k
    <3>1. PICK i \in lo..hi : items[i].identity = k
      BY <2>2
    <3>2. i \in DOMAIN items /\ i >= lo /\ pc = "batch"
      BY <1>1, <1>6 DEF TypeOK, Abandoning
    <3>3. RowHere(k).state = "not-dialed"
      <4> SUFFICES ASSUME RowHere(k).state # "not-dialed" PROVE FALSE
        OBVIOUS
      <4>1. PICK j \in DOMAIN items : items[j].identity = k /\ jobs[j].st = "done"
        BY <1>1, <1>5, <3>2
      <4>2. j = i
        BY <1>1, <3>1, <3>2, <4>1, OneIdentity
      <4> QED
        BY <1>1, <3>2, <4>1, <4>2 DEF StillQueued
    <3>4. jobs[i].st = "queued"
      BY <1>1, <3>2 DEF StillQueued
    <3> QED
      BY <3>1, <3>2, <3>3, <3>4
  <2> QED
    BY <2>1, <2>2
<1>7. CASE \E w \in lo..hi : \E id \in Names : Working(w, id)
  <2>1. PICK w \in lo..hi, id \in Names : Working(w, id)
    BY <1>7
  <2>2. w \in DOMAIN items /\ pc = "collect" /\ id = items[w].identity /\ jobs[w].st # "done"
    BY <1>1, <2>1 DEF TypeOK, Working
  <2>3. CASE k # id
    <3>1. StateSame(k)
      BY <2>1, <2>3 DEF Working, Worked, OthersSame
    <3> QED
      BY <3>1 DEF StateSame
  <2>4. CASE k = id
    <3>1. RowHere(k).state = "not-dialed"
      <4> SUFFICES ASSUME RowHere(k).state # "not-dialed" PROVE FALSE
        OBVIOUS
      <4>1. PICK j \in DOMAIN items : items[j].identity = k /\ jobs[j].st = "done"
        BY <1>1, <1>5, <2>2
      <4>2. j = w
        BY <1>1, <2>2, <2>4, <4>1, OneIdentity
      <4> QED
        BY <2>2, <4>1, <4>2
    <3> QED
      BY <2>2, <2>4, <3>1
  <2> QED
    BY <2>3, <2>4
<1> QED
  BY <1>1, <1>2, <1>3, <1>4, <1>6, <1>7, RunSteps

LEMMA EndedWasDoneStep ==
    ASSUME ClaimInv, TableInv, TypeOK', [RNext]_rvars
    PROVE  EndedWasDone'
<1> SUFFICES ASSUME ~run'.closed, NEW k \in Names, (RowHere(k).state)' \in {"reached", "failed"}
             PROVE  \E j \in DOMAIN items' : items'[j].identity = k /\ jobs'[j].st = "done"
  BY DEF EndedWasDone
<1>1. Whole(run) /\ EndedWasDone /\ TypeOK
  BY DEF TableInv, ClaimInv
<1>2. ~run.closed /\ ~Finishing
  BY <1>1, VerdictsStep DEF Finishing
<1>3. [Next]_vars
  BY RunStepIsCrawlStep
<1>4. CASE RowHere(k).state \in {"reached", "failed"}
  <2>1. PICK j \in DOMAIN items : items[j].identity = k /\ jobs[j].st = "done"
    BY <1>1, <1>2, <1>4 DEF EndedWasDone
  <2>2. j \in DOMAIN items' /\ items'[j] = items[j]
    BY <1>3, History
  <2>3. jobs'[j] = jobs[j]
    BY <2>1, DoneStays
  <2> QED
    BY <2>1, <2>2, <2>3
<1>5. CASE RowHere(k).state \notin {"reached", "failed"}
  <2>1. ~StateSame(k)
    BY <1>5 DEF StateSame
  <2>2. ~Quietly /\ ~Openly
    BY <2>1 DEF Quietly, Openly
  <2>3. \A e : ~Judging(e)
    <3> SUFFICES ASSUME NEW e, Judging(e) PROVE FALSE
      OBVIOUS
    <3>1. (RowHere(e.id).state)' = "not-dialed" /\ (k # e.id => StateSame(k))
      BY DEF Judging
    <3>2. k = e.id
      BY <2>1, <3>1
    <3> QED
      BY <3>1, <3>2
  <2>4. CASE Abandoning
    <3>1. PICK i \in lo..hi : items[i].identity = k
      BY <2>1, <2>4 DEF Abandoning
    <3>2. i \in DOMAIN items
      BY <1>1 DEF TypeOK
    <3>3. i \in DOMAIN items' /\ items'[i] = items[i] /\ jobs'[i].st = "done"
      BY <1>3, <2>4, <3>2, History DEF Abandoning
    <3> QED
      BY <3>1, <3>3
  <2>5. CASE \E w \in lo..hi : \E id \in Names : Working(w, id)
    <3>1. PICK w \in lo..hi, id \in Names : Working(w, id)
      BY <2>5
    <3>2. k = id
      BY <2>1, <3>1 DEF Working, Worked, OthersSame
    <3>3. id = items[w].identity /\ jobs'[w].st = "done"
      BY <1>5, <3>1, <3>2 DEF Working, Worked
    <3>4. w \in DOMAIN items
      BY <1>1 DEF TypeOK
    <3>5. w \in DOMAIN items' /\ items'[w] = items[w]
      BY <1>3, <3>4, History
    <3> QED
      BY <3>2, <3>3, <3>5
  <2> QED
    BY <1>1, <1>2, <2>2, <2>3, <2>4, <2>5, RunSteps
<1> QED
  BY <1>4, <1>5

LEMMA JudgedStays ==
    ASSUME ClaimInv, Whole(run), [RNext]_rvars, NEW k
    PROVE  /\ Judged(k) => Judged(k)'
           /\ \A e : Judging(e) /\ e.id = k => Judged(k)'
BY VerdictsStep DEF Judged

LEMMA DoneIsToldStep ==
    ASSUME ClaimInv, TableInv, TypeOK', [RNext]_rvars
    PROVE  DoneIsTold'
<1> SUFFICES ASSUME NEW i \in DOMAIN items', jobs'[i].st = "done"
             PROVE  \A k \in Names : k = items'[i].identity =>
                       \/ (RowHere(k).state)' = OutcomeOf(jobs'[i].dev)
                       \/ (RowHere(k).state)' = "not-dialed" /\ Judged(k)'
  <2>1. ASSUME NEW j \in DOMAIN items'
        PROVE  items'[j].identity \in Names
    <3>1. items'[j] \in Item
      BY DEF TypeOK
    <3> QED
      BY <3>1 DEF Item
  <2> QED
    BY <2>1 DEF DoneIsTold, OutcomeOf
<1> TAKE k \in Names
<1> HAVE k = items'[i].identity
<1>1. Whole(run) /\ DoneIsTold /\ TypeOK /\ OneVisit /\ [Next]_vars
  BY RunStepIsCrawlStep DEF TableInv, ClaimInv
<1>2. i \in DOMAIN items
  BY <1>1, NewItem
<1>3. items[i].identity = k
  BY <1>1, <1>2, History
<1>4. CASE jobs[i].st = "done"
  <2>1. jobs'[i] = jobs[i]
    BY <1>2, <1>4, DoneStays
  <2>2. \/ RowHere(k).state = OutcomeOf(jobs[i].dev)
        \/ RowHere(k).state = "not-dialed" /\ Judged(k)
    BY <1>1, <1>2, <1>3, <1>4 DEF DoneIsTold
  <2>3. OutcomeOf(jobs[i].dev) \in {"reached", "failed"}
    BY DEF OutcomeOf
  <2>4. \/ (RowHere(k).state)' = RowHere(k).state
        \/ \E e : Judging(e) /\ e.id = k /\ (RowHere(k).state)' = "not-dialed"
    <3>1. ASSUME NEW j \in DOMAIN items, items[j].identity = k
          PROVE  jobs[j].st = "done"
      BY <1>1, <1>2, <1>3, <1>4, <3>1, OneIdentity
    <3> QED
      BY <2>2, <2>3, <3>1, EndedRowStep
  <2> QED
    BY <1>1, <2>1, <2>2, <2>4, JudgedStays
<1>5. CASE jobs[i].st # "done"
  <2>1. ~Quietly /\ ~Openly /\ ~Finishing /\ \A e : ~Judging(e)
    BY <1>2, <1>5 DEF Quietly, Openly, KeepsJobs, Finishing, Judging, vars
  <2>2. CASE Abandoning
    <3>1. i \in lo..hi
      BY <1>2, <1>5, <2>2 DEF Abandoning
    <3>2. (RowHere(k).state)' = "failed" /\ jobs'[i].dev.status = "stopped"
      BY <1>3, <2>2, <3>1 DEF Abandoning
    <3> QED
      BY <3>2 DEF OutcomeOf
  <2>3. CASE \E w \in lo..hi : \E id \in Names : Working(w, id)
    <3>1. PICK w \in lo..hi, id \in Names : Working(w, id)
      BY <2>3
    <3>2. w = i
      BY <1>2, <1>5, <3>1 DEF Working
    <3>3. id = k /\ Worked(i, id)
      BY <1>3, <3>1, <3>2 DEF Working
    <3> QED
      BY <3>3 DEF Worked
  <2> QED
    BY <1>1, <2>1, <2>2, <2>3, RunSteps
<1> QED
  BY <1>4, <1>5

\* A device keeps its parent.
LEMMA ParentKept ==
    ASSUME ClaimInv, Provenance, TypeOK', [Next]_vars, NEW i \in DOMAIN items
    PROVE  (ParentOf(items[i]))' = ParentOf(items[i])
<1>1. items'[i] = items[i]
  BY History
<1>2. items[i].parent = 0 \/ items[i].parent \in DOMAIN items
  <2>1. items[i] \in Item /\ i \in Nat /\ TypeOK
    BY ItemJobType DEF ClaimInv
  <2>2. items[i].parent \in Nat /\ items[i].parent < i /\ i <= Len(items) /\ Len(items) \in Nat
    BY <2>1 DEF Item, Provenance, TypeOK
  <2>3. items[i].parent = 0 \/ items[i].parent \in 1..Len(items)
    BY <2>1, <2>2
  <2> QED
    BY <2>1, <2>3 DEF TypeOK
<1>3. CASE items[i].parent = 0
  BY <1>1, <1>3 DEF ParentOf
<1>4. CASE items[i].parent # 0
  <2>1. PICK p \in DOMAIN items : p = items[i].parent
    BY <1>2, <1>4
  <2>2. items'[p] = items[p]
    BY History
  <2> QED
    BY <1>1, <1>4, <2>1, <2>2 DEF ParentOf
<1> QED
  BY <1>3, <1>4

\* Where a row may move: to where its device is announced, or at a verdict.
LEMMA PlaceStep ==
    ASSUME ClaimInv, Whole(run), [RNext]_rvars, NEW k \in Names
    PROVE  \/ PlaceSame(k)
           \/ \E e : Judging(e) /\ e.id = k
           \/ Opens /\ \E i \in lo..hi : items[i].identity = k /\ FoundAt(k, i)
<1>1. CASE Quietly \/ Abandoning \/ Finishing
  BY <1>1 DEF Quietly, Abandoning, Finishing
<1>2. CASE \E w \in lo..hi : \E id \in Names : Working(w, id)
  BY <1>2 DEF Working, Worked, OthersSame
<1>3. CASE \E e : Judging(e)
  BY <1>3 DEF Judging
<1>4. CASE Openly
  <2>1. CASE \E i \in lo..hi : items[i].identity = k
    BY <1>4, <2>1 DEF Openly, Opens
  <2>2. CASE \A i \in lo..hi : items[i].identity # k
    BY <1>4, <2>2 DEF Openly
  <2> QED
    BY <2>1, <2>2
<1> QED
  BY <1>1, <1>2, <1>3, <1>4, RunSteps

LEMMA ShownThereStep ==
    ASSUME ClaimInv, Provenance, TableInv, TypeOK', [RNext]_rvars
    PROVE  ShownThere'
<1>1. Whole(run) /\ ShownThere /\ NotShownYet /\ TypeOK /\ OneVisit /\ [Next]_vars
  BY RunStepIsCrawlStep DEF TableInv, ClaimInv
<1> SUFFICES ASSUME NEW i \in DOMAIN items', Shown(i)', NEW k \in Names,
                    k = items'[i].identity, ~Judged(k)'
             PROVE  /\ (RowHere(k).depth)' = items'[i].depth
                    /\ (RowHere(k).via)' = (ParentOf(items[i]))'
  <2>1. ASSUME NEW j \in DOMAIN items'
        PROVE  items'[j].identity \in Names
    <3>1. items'[j] \in Item
      BY DEF TypeOK
    <3> QED
      BY <3>1 DEF Item
  <2> QED
    BY <2>1 DEF ShownThere
<1>2. i \in DOMAIN items
  BY <1>1, NewItem
<1>3. items'[i] = items[i] /\ items[i].identity = k /\ (ParentOf(items[i]))' = ParentOf(items[i])
  BY <1>1, <1>2, History, ParentKept
<1>4. ~Judged(k) /\ \A e : ~(Judging(e) /\ e.id = k)
  BY <1>1, JudgedStays
<1>5. /\ Shown(i)' => Shown(i) \/ (Opens /\ i \in lo..hi)
      /\ \A j \in lo..hi : Opens => ~Shown(j)
  <2>1. Shown(i)' => Shown(i) \/ (Opens /\ i \in lo..hi)
    BY <1>1, <1>2, ShownStep
  <2>2. ASSUME NEW j \in lo..hi, Opens
        PROVE  ~Shown(j)
    <3>1. pc = "batch" /\ ~(j < lo)
      BY <1>1, <2>2 DEF Opens, TypeOK
    <3> QED
      BY <3>1 DEF Shown
  <2> QED
    BY <2>1, <2>2
<1>6. ASSUME NEW j \in lo..hi, items[j].identity = k
      PROVE  j = i
  <2>1. j \in DOMAIN items
    BY <1>1 DEF TypeOK
  <2> QED
    BY <1>1, <1>2, <1>3, <1>6, <2>1, OneIdentity
<1>7. CASE Shown(i)
  <2>1. RowHere(k).depth = items[i].depth /\ RowHere(k).via = ParentOf(items[i])
    BY <1>1, <1>2, <1>3, <1>4, <1>7 DEF ShownThere
  <2>2. PlaceSame(k)
    BY <1>1, <1>4, <1>5, <1>6, <1>7, PlaceStep
  <2> QED
    BY <1>3, <2>1, <2>2 DEF PlaceSame
<1>8. CASE ~Shown(i)
  <2>1. Opens /\ i \in lo..hi
    BY <1>5, <1>8
  <2>2. RowHere(k).via = <<>>
    <3> SUFFICES ASSUME NEW j \in DOMAIN items, Shown(j), items[j].identity = k
                 PROVE  FALSE
      BY <1>1, <1>4 DEF NotShownYet
    <3>1. j = i
      BY <1>1, <1>2, <1>3, OneIdentity
    <3> QED
      BY <1>8, <3>1
  <2>3. Openly
    BY <1>1, <2>1, RunSteps DEF Quietly, Abandoning, Finishing, Working, Judging, Opens, vars
  <2>4. FoundAt(k, i)
    BY <1>3, <2>1, <2>3 DEF Openly
  <2> QED
    BY <1>3, <2>2, <2>4 DEF FoundAt
<1> QED
  BY <1>7, <1>8

LEMMA NotShownYetStep ==
    ASSUME ClaimInv, TableInv, TypeOK', [RNext]_rvars
    PROVE  NotShownYet'
<1>1. Whole(run) /\ NotShownYet /\ TypeOK /\ [Next]_vars
  BY RunStepIsCrawlStep DEF TableInv, ClaimInv
<1> SUFFICES ASSUME NEW k \in Names, (RowHere(k).via)' # <<>>, ~Judged(k)'
             PROVE  \E i \in DOMAIN items' : Shown(i)' /\ items'[i].identity = k
  BY DEF NotShownYet
<1>2. ~Judged(k) /\ \A e : ~(Judging(e) /\ e.id = k)
  BY <1>1, JudgedStays
<1>3. CASE RowHere(k).via # <<>>
  <2>1. PICK i \in DOMAIN items : Shown(i) /\ items[i].identity = k
    BY <1>1, <1>2, <1>3 DEF NotShownYet
  <2>2. Shown(i)' /\ i \in DOMAIN items' /\ items'[i] = items[i]
    BY <1>1, <2>1, ShownStep, History
  <2> QED
    BY <2>1, <2>2
<1>4. CASE RowHere(k).via = <<>>
  <2>1. ~PlaceSame(k)
    BY <1>4 DEF PlaceSame
  <2>2. PICK i \in lo..hi : items[i].identity = k /\ Opens
    BY <1>1, <1>2, <2>1, PlaceStep
  <2>3. i \in DOMAIN items
    BY <1>1 DEF TypeOK
  <2>4. Shown(i)' /\ i \in DOMAIN items' /\ items'[i] = items[i]
    BY <1>1, <2>2, <2>3, ShownStep, History
  <2> QED
    BY <2>2, <2>4
<1> QED
  BY <1>3, <1>4

LEMMA VerdictStandsStep ==
    ASSUME ClaimInv, TableInv, TypeOK', [RNext]_rvars
    PROVE  VerdictStands'
<1>1. Whole(run) /\ VerdictStands /\ [Next]_vars
  BY RunStepIsCrawlStep DEF TableInv
<1> SUFFICES ASSUME NEW e \in Verdicts', NEW k, k = e.id
             PROVE  /\ k \in Names
                    /\ \/ (RowHere(k).state)' = "not-dialed"
                       \/ \E j \in DOMAIN items' : items'[j].identity = k
  BY DEF VerdictStands
<1>2. CASE e \in Verdicts
  <2>1. k \in Names /\ (\/ RowHere(k).state = "not-dialed"
                        \/ \E j \in DOMAIN items : items[j].identity = k)
    BY <1>1, <1>2 DEF VerdictStands
  <2>2. CASE \E j \in DOMAIN items : items[j].identity = k
    BY <1>1, <2>1, <2>2, History
  <2>3. CASE RowHere(k).state = "not-dialed"
    <3>1. \/ (RowHere(k).state)' = "not-dialed"
          \/ \E j \in DOMAIN items : items[j].identity = k
      BY <2>1, <2>3, EndedRowStep
    <3> QED
      BY <2>1, <2>2, <3>1
  <2> QED
    BY <2>1, <2>2, <2>3
<1>3. CASE e \notin Verdicts
  <2>1. Judging(e)
    BY <1>1, <1>3, VerdictsStep
  <2> QED
    BY <2>1 DEF Judging, VerdictOn
<1> QED
  BY <1>2, <1>3

\* What the walk finds dialable is neither excluded nor outside the domains.
LEMMA NotBarred ==
    ASSUME TypeOK, EvidenceKept, AtClaim, Dialable(ThisClaim)
    PROVE  ~ThisClaim.excl /\ DialAllowed(NextTarget(ThisClaim))
<1>1. ThisClaim \in ClaimsOf(di) /\ di \in DOMAIN items /\ Settled(di)
  <2>1. di \in DOMAIN items /\ jobs[di].dev.nbrs \in Seq(Claim)
    BY ThisClaimType, ItemJobType DEF Job, Device
  <2>2. ni \in DOMAIN jobs[di].dev.nbrs
    BY <2>1 DEF TypeOK, AtClaim
  <2> QED
    BY <2>1, <2>2 DEF ThisClaim, ClaimsOf, AtClaim, Walking, Settled
<1> QED
  BY <1>1, ThisClaimType DEF EvidenceKept, Dialable, Claim

LEMMA VerdictGivenStep ==
    ASSUME ClaimInv, Cursor, EvidenceKept, TableInv, TypeOK', [RNext]_rvars
    PROVE  VerdictGiven'
<1>1. /\ Whole(run) /\ VerdictGiven /\ TypeOK /\ [Next]_vars
      /\ Verdicts \subseteq Verdicts' /\ \A e : Judging(e) => e \in Verdicts'
  BY RunStepIsCrawlStep, VerdictsStep DEF TableInv, ClaimInv
<1> SUFFICES ASSUME NEW i \in DOMAIN items', NEW n \in DOMAIN jobs'[i].dev.nbrs,
                    NEW c, c = jobs'[i].dev.nbrs[n],
                    Seen(i, n)', Propagates(i)', Usable(c),
                    c.excl \/ ~DialAllowed(NextTarget(c))
             PROVE  \E e \in Verdicts' : VerdictOn(e, i, c)'
  BY DEF VerdictGiven
<1>2. i \in DOMAIN items
  <2>1. DOMAIN <<>> = {}
    OBVIOUS
  <2> QED
    BY <1>1, <2>1, NewItem
<1>3. n \in Nat /\ n >= 1
  <2>1. jobs'[i] \in Job
    <3>1. i \in DOMAIN jobs'
      BY DEF TypeOK
    <3> QED
      BY <3>1 DEF TypeOK
  <2>2. jobs'[i].dev.nbrs \in Seq(Claim)
    BY <2>1 DEF Job, Device
  <2> QED
    BY <2>2
<1>4. /\ Registered(i)
      /\ \/ Seen(i, n)
         \/ (SkipClaim \/ AdmitNeighbor) /\ i = di /\ n = ni
         \/ NextDevice /\ i = di
  BY <1>1, <1>2, <1>3, SeenStep
<1>5. items'[i] = items[i] /\ jobs'[i] = jobs[i]
  BY <1>1, <1>2, <1>4, History
<1>6. n \in DOMAIN jobs[i].dev.nbrs /\ c = jobs[i].dev.nbrs[n] /\ Propagates(i)
  BY <1>5 DEF Propagates
<1>7. \A e : VerdictOn(e, i, c) => VerdictOn(e, i, c)'
  BY <1>5 DEF VerdictOn
<1>8. CASE Seen(i, n)
  <2>1. \E e \in Verdicts : VerdictOn(e, i, c)
    BY <1>1, <1>2, <1>6, <1>8 DEF VerdictGiven
  <2> QED
    BY <1>1, <1>7, <2>1
<1>9. CASE NextDevice /\ i = di
  <2>1. /\ pc = "admit" /\ di <= hi /\ ni > Len(jobs[i].dev.nbrs)
    BY <1>6, <1>9 DEF NextDevice, Walking
  <2>2. jobs[i].dev.nbrs \in Seq(Claim)
    BY <1>1, <1>2, ItemJobType DEF Job, Device
  <2>5. PICK s \in Seq(Claim) : s = jobs[i].dev.nbrs
    BY <2>2
  <2>6. n \in 1..Len(s) /\ Len(s) \in Nat
    BY <1>6, <2>5
  <2>3. n <= Len(jobs[i].dev.nbrs) /\ Len(jobs[i].dev.nbrs) \in Nat /\ ni \in Nat
    BY <1>1, <2>5, <2>6 DEF TypeOK
  <2>4. n < ni
    BY <1>3, <2>1, <2>3
  <2> QED
    BY <1>8, <1>9, <2>1, <2>4 DEF Seen
<1>10. CASE (SkipClaim \/ AdmitNeighbor) /\ i = di /\ n = ni
  <2>1. c = ThisClaim /\ AtClaim
    BY <1>6, <1>10 DEF ThisClaim, SkipClaim, SkipUnusable, SkipExcluded, SkipNotAllowed,
                       SkipClaimed, AdmitNeighbor
  <2>2. ~Dialable(ThisClaim)
    BY <1>1, <2>1, NotBarred
  <2>3. SkipClaim /\ Usable(ThisClaim)
    BY <1>10, <2>1, <2>2 DEF AdmitNeighbor
  <2>4. PICK e : Judging(e)
    BY <1>1, <2>2, <2>3, RunSteps DEF Quietly, Openly, Abandoning, Finishing, Working
  <2>5. e \in Verdicts' /\ VerdictOn(e, i, c)
    BY <1>1, <1>10, <2>1, <2>4 DEF Judging
  <2> QED
    BY <1>7, <2>5
<1> QED
  BY <1>4, <1>8, <1>9, <1>10

LEMMA TableInvStep ==
    ASSUME ClaimInv, Account, TableInv, ClaimInv', [RNext]_rvars
    PROVE  TableInv'
<1>1. /\ Whole(run) /\ [Next]_vars /\ TypeOK' /\ StillQueued /\ (run.closed => pc = "done")
      /\ Cursor /\ Provenance /\ EvidenceKept /\ TypeOK
  BY RunStepIsCrawlStep DEF TableInv, Account, ClaimInv
<1>2. Whole(run)'
  BY <1>1, VerdictsStep
<1>3. (run.closed => pc = "done")'
  <2>1. CASE run.closed
    BY <1>1, <2>1, RunSteps
       DEF Quietly, Openly, Abandoning, Finishing, Working, Judging, vars, Next, Step, Main,
           AdmitSeed, RefuseSeed, NextBatch, OpenBatch, AbandonBatch, FrontierEmpty, WaitAll,
           Register, Settle, NextDevice, SkipClaim, AdmitNeighbor, Stop, Finished, Worker,
           StartWorker, Collect, Fallback
  <2>2. CASE ~run.closed
    BY <1>1, <2>2, VerdictsStep DEF Finishing, vars
  <2> QED
    BY <2>1, <2>2
<1>4. StillQueued'
  BY <1>1, StillQueuedStep
<1>5. EndedWasDone' /\ DoneIsTold'
  BY <1>1, EndedWasDoneStep, DoneIsToldStep
<1>6. ShownThere' /\ NotShownYet'
  BY <1>1, ShownThereStep, NotShownYetStep
<1>7. VerdictStands' /\ VerdictGiven'
  BY <1>1, VerdictStandsStep, VerdictGivenStep
<1> QED
  BY <1>2, <1>3, <1>4, <1>5, <1>6, <1>7 DEF TableInv

-----------------------------------------------------------------------------
(* What holds of the table.                                                *)

\* The table tells, row by row, what has become of the devices and claims.
THEOREM CrawlRunTable == RSpec => []TableInv
<1>1. RInit => TableInv
  BY TableInvInit
<1>2. ClaimInv /\ Account /\ ClaimInv' /\ TableInv /\ [RNext]_rvars => TableInv'
  BY TableInvStep
<1> QED
  BY <1>1, <1>2, CrawlRunIsCrawl, CrawlClaimInv, CrawlAccount, PTL DEF RSpec

\* When the crawl is over the table has the outcome of every device that was
\* admitted (reportDone, recordCancelled), and a device of an announced batch
\* is shown at its depth and under the device that reported it.
THEOREM CrawlRunTableIsTrue == RSpec => []TableIsTrue
<1>1. ClaimInv /\ Account /\ TableInv => TableIsTrue
  <2> SUFFICES ASSUME ClaimInv, Account, TableInv
               PROVE  OutcomesReported /\ PlacedWhereFound
    BY DEF TableIsTrue
  <2>1. TypeOK /\ Filed /\ DoneIsTold /\ ShownThere
    BY DEF ClaimInv, Account, TableInv
  <2>2. \A i : RowOf(items[i]) = RowHere(items[i].identity)
    BY DEF RowOf, RowHere
  <2>3. ASSUME pc = "done", NEW i \in DOMAIN items
        PROVE  RowOf(items[i]).state \in
                  {IF jobs[i].dev.status = "reached" THEN "reached" ELSE "failed"}
                  \cup (IF Judged(items[i].identity) THEN {"not-dialed"} ELSE {})
    <3>1. jobs[i].st = "done"
      BY <2>1, <2>3 DEF Filed, FiledTo, TypeOK
    <3>2. \/ RowHere(items[i].identity).state = OutcomeOf(jobs[i].dev)
          \/ /\ RowHere(items[i].identity).state = "not-dialed"
             /\ Judged(items[i].identity)
      BY <2>1, <3>1 DEF DoneIsTold
    <3> QED
      BY <2>2, <3>2 DEF OutcomeOf
  <2>4. PlacedWhereFound
    BY <2>1, <2>2 DEF PlacedWhereFound, ShownThere, Shown
  <2> QED
    BY <2>3, <2>4 DEF OutcomesReported
<1> QED
  BY <1>1, CrawlRunTable, CrawlRunIsCrawl, CrawlClaimInv, CrawlAccount, PTL

\* Exclusion and the allowed domains decide on all the evidence there is
\* (markExcluded), and every neighbor they pass over is accounted for by a
\* decision (CrawlContext).
THEOREM CrawlRunPolicyIsKept == RSpec => []PolicyIsKept
<1>1. ClaimInv /\ Account /\ TableInv => PolicyIsKept
  <2> SUFFICES ASSUME ClaimInv, Account, TableInv
               PROVE  NoSilentSkip
    BY DEF PolicyIsKept, Account
  <2>1. TypeOK /\ VerdictStands /\ VerdictGiven
    BY DEF ClaimInv, TableInv
  <2> SUFFICES ASSUME NEW i \in DOMAIN items, Walked(i), Propagates(i),
                      NEW c \in ClaimsOf(i), Usable(c),
                      c.excl \/ ~DialAllowed(NextTarget(c))
               PROVE  \E ev \in Verdicts :
                         /\ ev.via = items[i].identity
                         /\ ev.id \in {NextTarget(c), Ident(NextTarget(c))}
                         /\ run.rows[ev.id].state # "not-dialed" =>
                               \E j \in DOMAIN items : items[j].identity = ev.id
    BY DEF NoSilentSkip
  <2>2. PICK n \in DOMAIN jobs[i].dev.nbrs : c = jobs[i].dev.nbrs[n]
    BY DEF ClaimsOf
  <2>3. Seen(i, n)
    BY DEF Seen
  <2>4. PICK ev \in Verdicts : VerdictOn(ev, i, c)
    BY <2>1, <2>2, <2>3 DEF VerdictGiven
  <2>5. \/ RowHere(ev.id).state = "not-dialed"
        \/ \E j \in DOMAIN items : items[j].identity = ev.id
    BY <2>1 DEF VerdictStands
  <2>6. RowHere(ev.id).state = "not-dialed" => run.rows[ev.id].state = "not-dialed"
    <3>1. R!NewRow.state = "queued"
      BY DEF R!NewRow
    <3> QED
      BY <3>1 DEF RowHere, R!RowOf
  <2> QED
    BY <2>4, <2>5, <2>6 DEF VerdictOn
<1> QED
  BY <1>1, CrawlRunTable, CrawlRunIsCrawl, CrawlClaimInv, CrawlAccount, PTL

\* A device that has ended stays as it ended, whichever worker's events come
\* after (Run.Handle): only a verdict may still overwrite it.
THEOREM CrawlRunEndedStaysEnded == RSpec => EndedStaysEnded
<1>1. ClaimInv /\ TableInv /\ [RNext]_rvars =>
        [\A k \in DOMAIN run.rows :
            run.rows[k].state \in {"reached", "failed"} =>
                run'.rows[k].state \in {run.rows[k].state, "not-dialed"}]_rvars
  <2> SUFFICES ASSUME ClaimInv, TableInv, [RNext]_rvars, NEW k \in DOMAIN run.rows,
                      run.rows[k].state \in {"reached", "failed"}
               PROVE  run'.rows[k].state \in {run.rows[k].state, "not-dialed"}
    OBVIOUS
  <2>1. k \in Names
    BY DEF TableInv, Whole
  <2>2. RowHere(k).state = run.rows[k].state
    BY DEF RowHere, R!RowOf
  <2>3. \/ (RowHere(k).state)' = RowHere(k).state
        \/ (RowHere(k).state)' = "not-dialed"
    BY <2>1, <2>2, EndedRowStep
  <2>4. R!NewRow.state = "queued"
    BY DEF R!NewRow
  <2>5. (RowHere(k).state)' = run'.rows[k].state
    BY <2>2, <2>3, <2>4 DEF RowHere, R!RowOf
  <2> QED
    BY <2>2, <2>3, <2>5
<1> QED
  BY <1>1, CrawlRunTable, CrawlRunIsCrawl, CrawlClaimInv, PTL DEF RSpec, EndedStaysEnded

=============================================================================
