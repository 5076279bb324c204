----------------------------- MODULE DialProofs -----------------------------
(***************************************************************************)
(* Theorems about Dial: the four promises of its last part, for any hosts, *)
(* credentials, ladders and numbers of walks at once.                      *)
(*                                                                         *)
(* A walk touches only its own record and the known_hosts file, so the     *)
(* invariant is one of each walk (Well) with what ties the walks to the    *)
(* file (OnFile).  Opened says what is connected at every step of a dial,  *)
(* not only at its ends; Blamed keeps with the last report what it was     *)
(* made of, since a later rung reports over it.                            *)
(***************************************************************************)
EXTENDS Dial, TLAPS

Ats == {"idle", "auth", "stat", "create", "load", "reach", "host key", "login", "connected", "failed"}
Outcomes == {"none", "AuthRejected", "KeyMaterial", "HostKey", "Unreachable", "AlgoMismatch", "Other"}
LoginRec == [at : Devices \cup {"nowhere"}, secrets : SUBSET Secrets]
ReportRec == [cred : Creds \cup {Nothing}, outcome : Outcomes, error : Errors \cup {"none"}, login : LoginRec]
WalkRec == [at : Ats, host : Hosts \cup {Nothing}, rung : Nat, seen : SUBSET Lines,
            hop : {"bastion", "device"}, open : SUBSET {"bastion", "device"}, new : SUBSET Lines,
            last : ReportRec]

Full == {"device"} \cup (IF Bastion = Nothing THEN {} ELSE {"bastion"})

\* What is connected, by where the walk is.
Opened(x) ==
    /\ x.at \in {"idle", "auth", "stat", "create", "load", "failed"} => x.open = {}
    /\ x.at = "reach" => x.open = {} \/ (Bastion # Nothing /\ x.open = {"bastion"})
    /\ x.at \in {"host key", "login"} /\ x.hop = "bastion" => Bastion # Nothing /\ x.open = {"bastion"}
    /\ x.at \in {"host key", "login"} /\ x.hop = "device" => x.open = Full
    /\ x.at = "connected" => x.open = Full

\* What a report was made of.
Blamed(x) ==
    /\ x.last.error # "none" => x.last.outcome = Classify(x.last.error)
    /\ x.last.error = "none" => x.last.outcome = "none"
    /\ x.at = "idle" => x.last.error = "none"
    /\ x.last.error \in {"refused", "no handler"} => x.last.login.at = DeviceAt[x.host]
    /\ x.last.error = "key material" => x.last.cred \in Broken
    /\ x.last.cred # Nothing => x.last.login.secrets \subseteq {Method[x.last.cred]}
    /\ x.at = "failed" /\ x.last.error \in OwnErrors =>
          /\ x.rung = Len(Ladder)
          /\ LogsIn(DeviceAt[x.host], Ladder[x.rung]) => Ladder[x.rung] \in Broken

Well(x) ==
    /\ x.at # "idle" => x.host \in Hosts /\ x.rung \in 1..Len(Ladder)
    /\ x.at = "idle" => x.rung = 1
    /\ Opened(x) /\ Blamed(x)

WalksFine == walk \in [Walks -> WalkRec] /\ \A w \in Walks : Well(walk[w])

Shared ==
    /\ bastion \in BastionLogins /\ agent \in AgentStates
    /\ key \in [AllHosts -> Keys] /\ rekeys \in 0..MaxRekeys
    /\ known \in [file : BOOLEAN, lines : SUBSET Lines] /\ lost \in BOOLEAN
    /\ firsts \subseteq [who : Devices, hop : {"bastion", "device"}, key : Keys]

OnFile == lost \/ \A w \in Walks : walk[w].new \subseteq known.lines

IInv == WalksFine /\ Shared /\ OnFile

-----------------------------------------------------------------------------
(* One walk moves *)

\* What a login comes to changes with the agent only, and that it does not.
LEMMA SameLogins ==
    ASSUME agent' = agent, NEW d, NEW c
    PROVE  LogsIn(d, c)' <=> LogsIn(d, c)
BY DEF LogsIn, Tried, Methods, Asks, Given, Answers, Shown

\* A walk that is well stays so, whatever others do.
LEMMA StaysWell ==
    ASSUME agent' = agent, NEW x, Well(x)
    PROVE  Well(x)'
BY SameLogins DEF Well, Opened, Blamed

LEMMA WalksStep ==
    ASSUME IInv, NEW w \in Walks, NEW y \in WalkRec, Well(y), walk' = [walk EXCEPT ![w] = y],
           agent' = agent
    PROVE  /\ WalksFine'
           /\ \A v \in Walks : walk'[v].new = IF v = w THEN y.new ELSE walk[v].new
           /\ y.new = walk[w].new => \A v \in Walks : walk'[v].new = walk[v].new
<1>1. walk \in [Walks -> WalkRec] /\ \A v \in Walks : Well(walk[v])
  BY DEF IInv, WalksFine
<1>2. walk' \in [Walks -> WalkRec] /\ \A v \in Walks : walk'[v] = IF v = w THEN y ELSE walk[v]
  BY <1>1
<1>3. \A v \in Walks : Well(walk'[v]) /\ walk'[v].new = IF v = w THEN y.new ELSE walk[v].new
  BY <1>1, <1>2
<1>4. WalksFine'
  <2>1. ASSUME NEW v \in Walks PROVE Well(walk[v])'
    <3> DEFINE x == walk'[v]
    <3>1. Well(x)
      BY <1>3
    <3> HIDE DEF x
    <3>2. \A z : Well(z) => Well(z)'
      BY StaysWell
    <3> QED
      BY <3>1, <3>2 DEF x
  <2> QED
    BY <1>2, <2>1 DEF WalksFine
<1>5. y.new = walk[w].new => \A v \in Walks : walk'[v].new = walk[v].new
  BY <1>3
<1> QED
  BY <1>3, <1>4, <1>5

LEMMA WalksStay ==
    ASSUME IInv, walk' = walk, agent' = agent
    PROVE  WalksFine'
<1>1. walk \in [Walks -> WalkRec] /\ \A w \in Walks : Well(walk[w])
  BY DEF IInv, WalksFine
<1>2. ASSUME NEW w \in Walks PROVE Well(walk[w])'
  <2> DEFINE x == walk'[w]
  <2>1. Well(x)
    BY <1>1
  <2> HIDE DEF x
  <2>2. \A z : Well(z) => Well(z)'
    BY StaysWell
  <2> QED
    BY <2>1, <2>2 DEF x
<1> QED
  BY <1>1, <1>2 DEF WalksFine

LEMMA WalkIs ==
    ASSUME IInv, NEW w \in Walks, NEW y \in WalkRec, Well(y), y.new = walk[w].new,
           walk' = [walk EXCEPT ![w] = y], UNCHANGED <<bastion, agent, key, rekeys, known, lost, firsts>>
    PROVE  IInv'
<1>1. WalksFine' /\ \A v \in Walks : walk'[v].new = walk[v].new
  BY WalksStep
<1>2. Shared' /\ OnFile'
  BY <1>1 DEF IInv, Shared, OnFile
<1> QED
  BY <1>1, <1>2 DEF IInv

LEMMA Here ==
    ASSUME IInv, NEW w \in Walks
    PROVE  walk \in [Walks -> WalkRec] /\ walk[w] \in WalkRec /\ Well(walk[w])
BY DEF IInv, WalksFine

\* The rung a walk is at has a credential, and its host a device.
LEMMA Under ==
    ASSUME IInv, NEW w \in Walks, walk[w].at # "idle"
    PROVE  /\ Cred(w) \in Creds /\ Cred(w) = Ladder[walk[w].rung] /\ Method[Cred(w)] \in Secrets
           /\ Device(w) \in Devices /\ Device(w) = DeviceAt[walk[w].host]
           /\ walk[w].host \in Hosts /\ walk[w].rung \in 1..Len(Ladder) /\ Len(Ladder) \in Nat
<1>1. walk[w].host \in Hosts /\ walk[w].rung \in 1..Len(Ladder)
  BY Here DEF Well
<1>2. Ladder \in Seq(Creds) /\ Len(Ladder) \in Nat
  BY DialAssumption
<1>3. Ladder[walk[w].rung] \in Creds
  BY <1>1, <1>2
<1>4. DeviceAt[walk[w].host] \in Devices
  BY <1>1 DEF Devices
<1> QED
  BY <1>1, <1>2, <1>3, <1>4, DialAssumption DEF Cred, Device

\* A step that only goes on: nothing connected, nothing reported.
LEMMA GoesStep ==
    ASSUME IInv, NEW w \in Walks, NEW at \in Ats, Goes(w, at),
           walk[w].at \notin {"idle", "failed"}, at \notin {"idle", "failed"},
           \A y \in WalkRec : /\ y.at = at /\ y.open = walk[w].open /\ y.hop = walk[w].hop
                              => Opened(y),
           UNCHANGED <<bastion, agent, key, rekeys, known, lost, firsts>>
    PROVE  IInv'
<1> DEFINE y == [walk[w] EXCEPT !.at = at]
<1>1. walk[w] \in WalkRec /\ Well(walk[w]) /\ walk \in [Walks -> WalkRec]
  BY Here
<1>2. /\ y \in WalkRec /\ y.at = at /\ y.open = walk[w].open /\ y.hop = walk[w].hop
      /\ y.host = walk[w].host /\ y.rung = walk[w].rung /\ y.last = walk[w].last /\ y.new = walk[w].new
  BY <1>1 DEF WalkRec
<1>3. walk' = [walk EXCEPT ![w] = y]
  BY <1>1 DEF Goes
<1> HIDE DEF y
<1>4. Opened(y)
  BY <1>2
<1>5. Blamed(y)
  BY <1>1, <1>2 DEF Well, Blamed
<1>6. Well(y)
  BY <1>1, <1>2, <1>4, <1>5 DEF Well
<1> QED
  BY <1>2, <1>3, <1>6, WalkIs

LEMMA ClassifyType ==
    ASSUME NEW error \in Errors
    PROVE  /\ Classify(error) \in Outcomes \ {"none"}
           /\ error \in {"refused", "no handler"} => Classify(error) = "AuthRejected"
           /\ error = "key material" => Classify(error) = "KeyMaterial"
BY DEF Classify, Outcomes, Rejections

LEMMA RungStep ==
    ASSUME NEW n \in Nat, NEW r \in 1..n
    PROVE  r \in Nat /\ (r < n => r + 1 \in 1..n) /\ (~(r < n) => r = n)
OBVIOUS

LEMMA AtLast ==
    ASSUME NEW n \in Nat, NEW i \in 1..n
    PROVE  i = n \/ i < n
OBVIOUS

\* The rung below, if there is one.
LEMMA Below ==
    ASSUME IInv, NEW w \in Walks, walk[w].at # "idle"
    PROVE  /\ HasMore(w) => walk[w].rung + 1 \in 1..Len(Ladder)
           /\ ~HasMore(w) => walk[w].rung = Len(Ladder)
BY Under, RungStep, Zenon DEF HasMore

\* Whatever a dial failed of, the connections are closed and the report is
\* what it was made of.
LEMMA ReportedStep ==
    ASSUME IInv, NEW w \in Walks, walk[w].at # "idle", NEW error \in Errors, NEW login \in LoginRec,
           Reported(w, error, login),
           error \in {"refused", "no handler"} =>
               login.at = Device(w) /\ ~LogsIn(Device(w), Cred(w)),
           error = "key material" => Cred(w) \in Broken,
           login.secrets \subseteq {Method[Cred(w)]},
           UNCHANGED <<bastion, agent, key, rekeys, known, lost, firsts>>
    PROVE  IInv'
<1> DEFINE outcome == Classify(error)
           more == Retryable(outcome) /\ HasMore(w)
           at == IF more THEN "auth" ELSE "failed"
           rung == IF more THEN walk[w].rung + 1 ELSE walk[w].rung
           report == [cred |-> Cred(w), outcome |-> outcome, error |-> error, login |-> login]
           y == [at |-> at, host |-> walk[w].host, rung |-> rung,
                 seen |-> {}, hop |-> "device", open |-> {}, new |-> walk[w].new, last |-> report]
<1>1. walk \in [Walks -> WalkRec] /\ walk[w] \in WalkRec /\ Well(walk[w])
  BY Here
<1>2. /\ Cred(w) \in Creds /\ Cred(w) = Ladder[walk[w].rung] /\ Device(w) = DeviceAt[walk[w].host]
      /\ walk[w].host \in Hosts
  BY Under
<1>3. walk[w].rung \in 1..Len(Ladder) /\ Len(Ladder) \in Nat
  BY Under
<1>4. walk' = [walk EXCEPT ![w] = y]
  BY DEF Reported, LeftOpen
<1>5. report \in ReportRec /\ outcome # "none"
  BY <1>2, ClassifyType DEF ReportRec
<1>6. more => HasMore(w)
  OBVIOUS
<1>7. error \in OwnErrors /\ ~more => ~HasMore(w)
  BY ClassifyType DEF Retryable, OwnErrors
<1>8. /\ report.cred = Cred(w) /\ report.outcome = Classify(error)
      /\ report.error = error /\ report.login = login
  OBVIOUS
<1> HIDE DEF report, outcome, more
<1>9. at \in {"auth", "failed"} /\ (at = "failed" <=> ~more)
  OBVIOUS
<1> DEFINE up == walk[w].rung + 1
<1>10. rung = IF more THEN up ELSE walk[w].rung
  OBVIOUS
<1>11. HasMore(w) => up \in 1..Len(Ladder)
  BY Below
<1>12. ~HasMore(w) => walk[w].rung = Len(Ladder)
  BY Below
<1> HIDE DEF at, rung, up
<1>13. rung \in 1..Len(Ladder) /\ rung \in Nat
  <2>1. rung \in 1..Len(Ladder)
    BY <1>3, <1>6, <1>10, <1>11
  <2> QED
    BY <1>3, <2>1, RungStep, Zenon
<1>14. y \in WalkRec
  <2>1. walk[w].new \in SUBSET Lines /\ {} \in SUBSET Lines
    BY <1>1 DEF WalkRec
  <2> QED
    BY <1>2, <1>5, <1>9, <1>13, <2>1 DEF WalkRec, Ats
<1>15. /\ y.at = at /\ y.host = walk[w].host /\ y.rung = rung /\ y.open = {}
       /\ y.new = walk[w].new /\ y.last = report
  OBVIOUS
<1> HIDE DEF y
<1>16. Opened(y)
  BY <1>9, <1>15 DEF Opened
<1>17. Blamed(y)
  <2>1. error # "none"
    BY DEF Errors, Rejections
  <2>2. ASSUME at = "failed", error \in OwnErrors
        PROVE  /\ rung = Len(Ladder)
               /\ LogsIn(DeviceAt[walk[w].host], Ladder[rung]) => Ladder[rung] \in Broken
    <3>1. ~more /\ rung = walk[w].rung
      BY <1>9, <1>10, <2>2
    <3>2. walk[w].rung = Len(Ladder)
      BY <1>7, <1>12, <2>2, <3>1
    <3>3. LogsIn(Device(w), Cred(w)) => Cred(w) \in Broken
      BY <2>2 DEF OwnErrors
    <3> QED
      BY <1>2, <3>1, <3>2, <3>3
  <2> QED
    BY <1>2, <1>9, <1>8, <1>15, <2>1, <2>2 DEF Blamed
<1>18. Well(y)
  BY <1>2, <1>9, <1>13, <1>15, <1>16, <1>17 DEF Well
<1> QED
  BY <1>4, <1>14, <1>15, <1>18, WalkIs

LEMMA FailStep ==
    ASSUME IInv, NEW w \in Walks, walk[w].at # "idle", NEW error \in Errors, Fail(w, error),
           error \notin {"refused", "no handler"}, error = "key material" => Cred(w) \in Broken,
           UNCHANGED <<bastion, agent, key, rekeys, known, lost, firsts>>
    PROVE  IInv'
<1>1. NoLogin \in LoginRec /\ NoLogin.secrets = {}
  BY DEF NoLogin, LoginRec
<1> QED
  BY <1>1, ReportedStep DEF Fail

-----------------------------------------------------------------------------
(* One step of a dial *)

LEMMA StartStep ==
    ASSUME IInv, NEW w \in Walks, NEW h \in Hosts, Start(w, h)
    PROVE  IInv'
<1> DEFINE y == [walk[w] EXCEPT !.at = "auth", !.host = h]
<1>1. walk[w] \in WalkRec /\ Well(walk[w]) /\ walk \in [Walks -> WalkRec]
  BY Here
<1>2. /\ y \in WalkRec /\ y.at = "auth" /\ y.host = h /\ y.open = walk[w].open
      /\ y.rung = walk[w].rung /\ y.last = walk[w].last /\ y.new = walk[w].new
  BY <1>1 DEF WalkRec, Ats
<1>3. walk' = [walk EXCEPT ![w] = y]
  BY <1>1 DEF Start
<1>4. walk[w].at = "idle" /\ Len(Ladder) > 0 /\ UNCHANGED <<bastion, agent, key, rekeys, known, lost, firsts>>
  BY DEF Start, Stays
<1> HIDE DEF y
<1>5. Opened(y)
  BY <1>1, <1>2, <1>4 DEF Well, Opened
<1>6. Blamed(y)
  BY <1>1, <1>2, <1>4 DEF Well, Blamed
<1>7. y.rung \in 1..Len(Ladder)
  <2>1. \A n \in Nat : n > 0 => 1 \in 1..n
    OBVIOUS
  <2>2. Len(Ladder) \in Nat
    BY DialAssumption
  <2>3. y.rung = 1
    BY <1>1, <1>2, <1>4 DEF Well
  <2> QED
    BY <1>4, <2>1, <2>2, <2>3, Zenon
<1>8. Well(y)
  BY <1>2, <1>5, <1>6, <1>7 DEF Well
<1> QED
  BY <1>2, <1>3, <1>4, <1>8, WalkIs

LEMMA BuildAuthStep ==
    ASSUME IInv, NEW w \in Walks, BuildAuth(w)
    PROVE  IInv'
<1>1. /\ walk[w].at = "auth" /\ walk[w] \in WalkRec /\ Opened(walk[w])
      /\ UNCHANGED <<bastion, agent, key, rekeys, known, lost, firsts>>
  BY Here DEF BuildAuth, Stays, Well
<1>2. CASE Fail(w, "key material") /\ Cred(w) \in Broken
  BY <1>1, <1>2, FailStep DEF Errors
<1>3. \A at \in {"reach", "stat"} : \A y \in WalkRec :
          y.at = at /\ y.open = walk[w].open /\ y.hop = walk[w].hop => Opened(y)
  BY <1>1 DEF Opened
<1>4. CASE \E at \in {"reach", "stat"} : Goes(w, at)
  <2>1. PICK at \in {"reach", "stat"} : Goes(w, at)
    BY <1>4
  <2>2. at \in Ats /\ at \notin {"idle", "failed"} /\ walk[w].at \notin {"idle", "failed"}
    BY <1>1 DEF Ats
  <2> QED
    BY <1>1, <1>3, <2>1, <2>2, GoesStep
<1> QED
  BY <1>2, <1>4 DEF BuildAuth

LEMMA StatStep ==
    ASSUME IInv, NEW w \in Walks, Stat(w)
    PROVE  IInv'
<1>1. /\ walk[w].at = "stat" /\ walk[w] \in WalkRec /\ Opened(walk[w])
      /\ UNCHANGED <<bastion, agent, key, rekeys, known, lost, firsts>>
  BY Here DEF Stat, Stays, Well
<1>2. PICK at \in {"load", "create"} : Goes(w, at)
  BY DEF Stat
<1>3. \A y \in WalkRec : y.at = at /\ y.open = walk[w].open /\ y.hop = walk[w].hop => Opened(y)
  BY <1>1 DEF Opened
<1>4. at \in Ats /\ at \notin {"idle", "failed"} /\ walk[w].at \notin {"idle", "failed"}
  BY <1>1 DEF Ats
<1> QED
  BY <1>1, <1>2, <1>3, <1>4, GoesStep

LEMMA LoadStep ==
    ASSUME IInv, NEW w \in Walks, Load(w)
    PROVE  IInv'
<1> DEFINE y == [walk[w] EXCEPT !.at = "reach", !.seen = known.lines]
<1>1. walk[w] \in WalkRec /\ Well(walk[w]) /\ walk \in [Walks -> WalkRec]
  BY Here
<1>2. known.lines \in SUBSET Lines
  BY DEF IInv, Shared
<1>3. /\ y \in WalkRec /\ y.at = "reach" /\ y.host = walk[w].host /\ y.open = walk[w].open
      /\ y.rung = walk[w].rung /\ y.last = walk[w].last /\ y.new = walk[w].new
  BY <1>1, <1>2 DEF WalkRec, Ats
<1>4. walk' = [walk EXCEPT ![w] = y]
  BY <1>1 DEF Load
<1>5. walk[w].at = "load" /\ UNCHANGED <<bastion, agent, key, rekeys, known, lost, firsts>>
  BY DEF Load, Stays
<1> HIDE DEF y
<1>6. Opened(y) /\ Blamed(y)
  BY <1>1, <1>3, <1>5 DEF Well, Opened, Blamed
<1>7. Well(y)
  BY <1>1, <1>3, <1>5, <1>6 DEF Well
<1> QED
  BY <1>3, <1>4, <1>5, <1>7, WalkIs

LEMMA KnownHostsFailStep ==
    ASSUME IInv, NEW w \in Walks, KnownHostsFail(w)
    PROVE  IInv'
<1>1. /\ walk[w].at \in {"create", "load"} /\ UNCHANGED <<bastion, agent, key, rekeys, known, lost, firsts>>
      /\ Fail(w, "known_hosts denied") \/ Fail(w, "known_hosts damaged")
  BY DEF KnownHostsFail, Stays
<1> QED
  BY <1>1, FailStep DEF Errors

LEMMA ConnectStep ==
    ASSUME IInv, NEW w \in Walks, Connect(w)
    PROVE  IInv'
<1> DEFINE hop == IF Bastion # Nothing /\ "bastion" \notin walk[w].open THEN "bastion" ELSE "device"
           y == [walk[w] EXCEPT !.at = "host key", !.hop = hop, !.open = walk[w].open \cup {hop}]
<1>1. walk[w] \in WalkRec /\ Well(walk[w]) /\ walk \in [Walks -> WalkRec]
  BY Here
<1>2. walk[w].at = "reach" /\ UNCHANGED <<bastion, agent, key, rekeys, known, lost, firsts>>
  BY DEF Connect, Stays
<1>3. CASE Fail(w, BastionError)
  <2>1. BastionError \in Errors /\ BastionError \notin {"refused", "no handler", "key material"}
    BY DEF BastionError, Errors
  <2> QED
    BY <1>2, <1>3, <2>1, FailStep
<1>4. CASE walk' = [walk EXCEPT ![w].at = "host key", ![w].hop = hop, ![w].open = @ \cup {hop}]
  <2>1. hop \in {"bastion", "device"} /\ walk[w].open \in SUBSET {"bastion", "device"}
    BY <1>1 DEF WalkRec
  <2>2. walk' = [walk EXCEPT ![w] = y]
    BY <1>1, <1>4
  <2>3. walk[w].open = {} \/ (Bastion # Nothing /\ walk[w].open = {"bastion"})
    BY <1>1, <1>2 DEF Well, Opened
  <2>4. /\ hop = "bastion" => Bastion # Nothing /\ walk[w].open = {}
        /\ hop = "device" => walk[w].open \cup {"device"} = Full
    BY <2>3 DEF Full
  <2> HIDE DEF hop
  <2>5. /\ y \in WalkRec /\ y.at = "host key" /\ y.host = walk[w].host /\ y.hop = hop
        /\ y.open = walk[w].open \cup {hop}
        /\ y.rung = walk[w].rung /\ y.last = walk[w].last /\ y.new = walk[w].new
    BY <1>1, <2>1 DEF WalkRec, Ats
  <2> HIDE DEF y
  <2>6. Opened(y)
    BY <2>4, <2>5 DEF Opened
  <2>7. Blamed(y)
    BY <1>1, <1>2, <2>5 DEF Well, Blamed
  <2>8. Well(y)
    BY <1>1, <1>2, <2>5, <2>6, <2>7 DEF Well
  <2> QED
    BY <1>2, <2>2, <2>5, <2>8, WalkIs
<1> QED
  BY <1>3, <1>4 DEF Connect

LEMMA ConnectFailsStep ==
    ASSUME IInv, NEW w \in Walks, ConnectFails(w)
    PROVE  IInv'
<1>1. /\ walk[w].at \in {"reach", "host key"} /\ UNCHANGED <<bastion, agent, key, rekeys, known, lost, firsts>>
      /\ Fail(w, "unreachable") \/ Fail(w, "algorithms") \/ Fail(w, "closed") \/ Fail(w, "tunnel")
  BY DEF ConnectFails, Stays
<1> QED
  BY <1>1, FailStep DEF Errors

LEMMA KeyMatchesStep ==
    ASSUME IInv, NEW w \in Walks, KeyMatches(w)
    PROVE  IInv'
<1>1. /\ walk[w].at = "host key" /\ walk[w] \in WalkRec /\ Opened(walk[w]) /\ Goes(w, "login")
      /\ UNCHANGED <<bastion, agent, key, rekeys, known, lost, firsts>>
  BY Here DEF KeyMatches, Stays, Well
<1>2. \A y \in WalkRec : y.at = "login" /\ y.open = walk[w].open /\ y.hop = walk[w].hop => Opened(y)
  BY <1>1 DEF Opened
<1>3. "login" \in Ats /\ walk[w].at \notin {"idle", "failed"}
  BY <1>1 DEF Ats
<1> QED
  BY <1>1, <1>2, <1>3, GoesStep

LEMMA KeyMismatchStep ==
    ASSUME IInv, NEW w \in Walks, KeyMismatch(w)
    PROVE  IInv'
<1>1. /\ walk[w].at = "host key" /\ Fail(w, "mismatch")
      /\ UNCHANGED <<bastion, agent, key, rekeys, known, lost, firsts>>
  BY DEF KeyMismatch, Stays
<1> QED
  BY <1>1, FailStep DEF Errors

LEMMA BastionLoginStep ==
    ASSUME IInv, NEW w \in Walks, BastionLogin(w)
    PROVE  IInv'
<1>1. /\ walk[w].at = "login" /\ walk[w].hop = "bastion" /\ walk[w] \in WalkRec /\ Opened(walk[w])
      /\ UNCHANGED <<bastion, agent, key, rekeys, known, lost, firsts>>
  BY Here DEF BastionLogin, Stays, Well
<1>2. CASE Goes(w, "reach")
  <2>1. \A y \in WalkRec : y.at = "reach" /\ y.open = walk[w].open /\ y.hop = walk[w].hop => Opened(y)
    BY <1>1 DEF Opened
  <2>2. "reach" \in Ats /\ walk[w].at \notin {"idle", "failed"}
    BY <1>1 DEF Ats
  <2> QED
    BY <1>1, <1>2, <2>1, <2>2, GoesStep
<1>3. CASE Fail(w, "bastion refused")
  BY <1>1, <1>3, FailStep DEF Errors, Rejections
<1> QED
  BY <1>2, <1>3 DEF BastionLogin

LEMMA LoginStep ==
    ASSUME IInv, NEW w \in Walks, Login(w)
    PROVE  IInv'
<1> DEFINE y == [walk[w] EXCEPT !.at = "connected", !.last = NoReport]
<1>1. walk[w] \in WalkRec /\ Well(walk[w]) /\ walk \in [Walks -> WalkRec]
  BY Here
<1>2. /\ NoReport \in ReportRec /\ NoReport.error = "none" /\ NoReport.outcome = "none"
      /\ NoReport.cred = Nothing
  BY DEF NoReport, NoLogin, ReportRec, LoginRec, Outcomes
<1>3. /\ y \in WalkRec /\ y.at = "connected" /\ y.host = walk[w].host /\ y.open = walk[w].open
      /\ y.rung = walk[w].rung /\ y.last = NoReport /\ y.new = walk[w].new
  BY <1>1, <1>2 DEF WalkRec, Ats
<1>4. walk' = [walk EXCEPT ![w] = y]
  BY <1>1 DEF Login
<1>5. /\ walk[w].at = "login" /\ walk[w].hop = "device"
      /\ UNCHANGED <<bastion, agent, key, rekeys, known, lost, firsts>>
  BY DEF Login, Stays
<1> HIDE DEF y
<1>6. Opened(y)
  BY <1>1, <1>3, <1>5 DEF Well, Opened
<1>7. Blamed(y)
  BY <1>2, <1>3 DEF Blamed
<1>8. Well(y)
  BY <1>1, <1>3, <1>5, <1>6, <1>7 DEF Well
<1> QED
  BY <1>3, <1>4, <1>5, <1>8, WalkIs

\* What a login shows of a credential is the secret it declares.
LEMMA ShownIs ==
    ASSUME NEW c \in Creds, NEW d
    PROVE  {Shown(m) : m \in Answered(d, c)} \subseteq {Method[c]}
<1> SUFFICES ASSUME NEW m \in Answered(d, c)
             PROVE  Shown(m) = Method[c]
  OBVIOUS
<1>1. Method[c] \in Secrets
  BY DialAssumption
<1>2. m \in {Method[c]} \cup {"interactive"} /\ (m = "interactive" => Method[c] = "password")
  BY DEF Answered, Tried, Methods, Given, Answers
<1> QED
  BY <1>1, <1>2 DEF Shown, Secrets

LEMMA LoginRefusedStep ==
    ASSUME IInv, NEW w \in Walks, LoginRefused(w)
    PROVE  IInv'
<1> DEFINE error == LoginError(Device(w), Cred(w))
           secrets == {Shown(m) : m \in Answered(Device(w), Cred(w))}
           login == [at |-> Device(w), secrets |-> secrets]
<1>1. /\ walk[w].at = "login" /\ ~LogsIn(Device(w), Cred(w)) /\ Reported(w, error, login)
      /\ UNCHANGED <<bastion, agent, key, rekeys, known, lost, firsts>>
  BY DEF LoginRefused, Stays
<1>2. Cred(w) \in Creds /\ Method[Cred(w)] \in Secrets /\ Device(w) \in Devices
  BY <1>1, Under
<1>3. secrets \subseteq {Method[Cred(w)]}
  BY <1>2, ShownIs
<1>4. error \in {"no handler", "refused", "agent dead", "agent faulty"}
  BY DEF LoginError
<1>5. error \in Errors /\ error # "key material"
  BY <1>4 DEF Errors, Rejections
<1> HIDE DEF secrets, error
<1>6. login \in LoginRec /\ login.at = Device(w) /\ login.secrets = secrets
  BY <1>2, <1>3 DEF LoginRec
<1> HIDE DEF login
<1> QED
  BY <1>1, <1>3, <1>5, <1>6, ReportedStep

LEMMA LoginCutStep ==
    ASSUME IInv, NEW w \in Walks, LoginCut(w)
    PROVE  IInv'
<1>1. walk[w].at = "login" /\ UNCHANGED <<bastion, agent, key, rekeys, known, lost, firsts>>
  BY DEF LoginCut, Stays
<1>2. Cred(w) \in Creds /\ Method[Cred(w)] \in Secrets /\ Device(w) \in Devices
  BY <1>1, Under
<1>3. PICK error \in {"unreachable", "closed"}, shown \in SUBSET Answered(Device(w), Cred(w)) :
          Reported(w, error, IF shown = {} THEN NoLogin
                             ELSE [at |-> Device(w), secrets |-> {Shown(m) : m \in shown}])
  BY DEF LoginCut
<1> DEFINE secrets == {Shown(m) : m \in shown}
           login == IF shown = {} THEN NoLogin ELSE [at |-> Device(w), secrets |-> secrets]
<1>4. secrets \subseteq {Method[Cred(w)]}
  BY <1>2, ShownIs
<1>5. error \in Errors /\ error \notin {"no handler", "refused", "key material"}
  BY DEF Errors
<1> HIDE DEF secrets
<1>6. login \in LoginRec /\ login.secrets \subseteq {Method[Cred(w)]}
  BY <1>2, <1>4 DEF LoginRec, NoLogin
<1>7. Reported(w, error, login)
  BY <1>3 DEF secrets
<1> HIDE DEF login
<1> QED
  BY <1>1, <1>5, <1>6, <1>7, ReportedStep

-----------------------------------------------------------------------------
(* Steps over known_hosts *)

LEMMA CreateStep ==
    ASSUME IInv, NEW w \in Walks, Create(w)
    PROVE  IInv'
<1> DEFINE y == [walk[w] EXCEPT !.at = "load"]
<1>1. walk[w] \in WalkRec /\ Well(walk[w]) /\ walk \in [Walks -> WalkRec]
  BY Here
<1>2. /\ y \in WalkRec /\ y.at = "load" /\ y.host = walk[w].host /\ y.open = walk[w].open
      /\ y.rung = walk[w].rung /\ y.last = walk[w].last /\ y.new = walk[w].new
  BY <1>1 DEF WalkRec, Ats
<1>3. walk' = [walk EXCEPT ![w] = y]
  BY <1>1 DEF Create, Goes
<1>4. /\ walk[w].at = "create" /\ UNCHANGED <<bastion, agent, key, rekeys, firsts>>
      /\ known' = [file |-> TRUE, lines |-> {}] /\ lost' = (lost \/ known.lines # {})
  BY DEF Create, Stays
<1> HIDE DEF y
<1>5. Opened(y) /\ Blamed(y)
  BY <1>1, <1>2, <1>4 DEF Well, Opened, Blamed
<1>6. Well(y)
  BY <1>1, <1>2, <1>4, <1>5 DEF Well
<1>7. WalksFine' /\ (\A v \in Walks : walk'[v].new = walk[v].new)
  BY <1>2, <1>3, <1>4, <1>6, WalksStep
<1>8. Shared'
  BY <1>4 DEF IInv, Shared
<1>9. OnFile'
  BY <1>4, <1>7 DEF IInv, OnFile
<1> QED
  BY <1>7, <1>8, <1>9 DEF IInv

LEMMA KeyIsNewStep ==
    ASSUME IInv, NEW w \in Walks, KeyIsNew(w)
    PROVE  IInv'
<1> DEFINE line == <<Hop(w), key[Hop(w)]>>
           y == [walk[w] EXCEPT !.at = "login", !.new = walk[w].new \cup {line}]
           z == [walk[w] EXCEPT !.at = "login"]
<1>1. walk[w] \in WalkRec /\ Well(walk[w]) /\ walk \in [Walks -> WalkRec]
  BY Here
<1>2. /\ walk[w].at = "host key" /\ UNCHANGED <<bastion, agent, key, rekeys, lost>>
      /\ firsts' = firsts \cup {[who |-> Device(w), hop |-> walk[w].hop, key |-> key[Hop(w)]]}
  BY DEF KeyIsNew, Stays, ReportedAs
<1>3. walk[w].hop \in {"bastion", "device"} /\ walk[w].host \in Hosts /\ Device(w) \in Devices
  BY <1>1, <1>2, Under DEF WalkRec
<1>4. walk[w].hop = "bastion" => Bastion # Nothing
  BY <1>1, <1>2 DEF Well, Opened
<1>5. Hop(w) \in AllHosts
  BY <1>3, <1>4 DEF Hop, AllHosts
<1>6. key[Hop(w)] \in Keys
  BY <1>5 DEF IInv, Shared
<1>7. line \in Lines
  BY <1>5, <1>6 DEF Lines
<1>8. firsts' \subseteq [who : Devices, hop : {"bastion", "device"}, key : Keys]
  <2>1. firsts \subseteq [who : Devices, hop : {"bastion", "device"}, key : Keys]
    BY DEF IInv, Shared
  <2> DEFINE f == [who |-> Device(w), hop |-> walk[w].hop, key |-> key[Hop(w)]]
  <2>2. f \in [who : Devices, hop : {"bastion", "device"}, key : Keys]
    BY <1>3, <1>6
  <2>3. firsts' = firsts \cup {f}
    BY <1>2
  <2> HIDE DEF f
  <2> QED
    BY <2>1, <2>2, <2>3
<1>9. known.lines \in SUBSET Lines
  BY DEF IInv, Shared
<1>10. CASE /\ known' = [file |-> TRUE, lines |-> known.lines \cup {line}]
           /\ walk' = [walk EXCEPT ![w].at = "login", ![w].new = @ \cup {line}]
  <2> HIDE DEF line
  <2>1. walk[w].new \cup {line} \in SUBSET Lines
    BY <1>1, <1>7 DEF WalkRec
  <2>2. /\ y \in WalkRec /\ y.at = "login" /\ y.host = walk[w].host /\ y.open = walk[w].open
        /\ y.hop = walk[w].hop /\ y.rung = walk[w].rung /\ y.last = walk[w].last
        /\ y.new = walk[w].new \cup {line}
    BY <1>1, <2>1 DEF WalkRec, Ats
  <2>3. walk' = [walk EXCEPT ![w] = y]
    BY <1>1, <1>10
  <2> HIDE DEF y
  <2>4. Opened(y) /\ Blamed(y)
    BY <1>1, <1>2, <2>2 DEF Well, Opened, Blamed
  <2>5. Well(y)
    BY <1>1, <1>2, <2>2, <2>4 DEF Well
  <2>6. WalksFine' /\ (\A v \in Walks : walk'[v].new = IF v = w THEN y.new ELSE walk[v].new)
    BY <1>2, <2>2, <2>3, <2>5, WalksStep
  <2>7. known' \in [file : BOOLEAN, lines : SUBSET Lines]
    <3>1. known.lines \cup {line} \in SUBSET Lines
      BY <1>7, <1>9
    <3> QED
      BY <1>10, <3>1
  <2>8. Shared'
    BY <1>2, <1>8, <2>7 DEF IInv, Shared
  <2>9. OnFile'
    BY <1>2, <1>10, <2>2, <2>6 DEF IInv, OnFile
  <2> QED
    BY <2>6, <2>8, <2>9 DEF IInv
<1>11. CASE known' = known /\ Goes(w, "login")
  <2>1. /\ z \in WalkRec /\ z.at = "login" /\ z.host = walk[w].host /\ z.open = walk[w].open
        /\ z.hop = walk[w].hop /\ z.rung = walk[w].rung /\ z.last = walk[w].last
        /\ z.new = walk[w].new
    BY <1>1 DEF WalkRec, Ats
  <2>2. walk' = [walk EXCEPT ![w] = z]
    BY <1>1, <1>11 DEF Goes
  <2> HIDE DEF z
  <2>3. Opened(z) /\ Blamed(z)
    BY <1>1, <1>2, <2>1 DEF Well, Opened, Blamed
  <2>4. Well(z)
    BY <1>1, <1>2, <2>1, <2>3 DEF Well
  <2>5. WalksFine' /\ (\A v \in Walks : walk'[v].new = walk[v].new)
    BY <1>2, <2>1, <2>2, <2>4, WalksStep
  <2>6. Shared'
    BY <1>2, <1>11, <1>8 DEF IInv, Shared
  <2>7. OnFile'
    BY <1>2, <1>11, <2>5 DEF IInv, OnFile
  <2> QED
    BY <2>5, <2>6, <2>7 DEF IInv
<1> QED
  BY <1>10, <1>11 DEF KeyIsNew, Appended

LEMMA RekeyStep ==
    ASSUME IInv, NEW h \in AllHosts, NEW k \in Keys, Rekey(h, k)
    PROVE  IInv'
<1>1. /\ rekeys < MaxRekeys /\ rekeys' = rekeys + 1 /\ UNCHANGED <<bastion, agent, known, lost, walk, firsts>>
      /\ key' \in [AllHosts -> Keys]
  BY DEF Rekey, IInv, Shared
<1>2. rekeys' \in 0..MaxRekeys
  BY <1>1, DialAssumption DEF IInv, Shared
<1>3. Shared'
  BY <1>1, <1>2 DEF IInv, Shared
<1>4. WalksFine' /\ OnFile'
  BY <1>1, WalksStay DEF IInv, OnFile
<1> QED
  BY <1>3, <1>4 DEF IInv

-----------------------------------------------------------------------------
(* The theorems *)

LEMMA DialInit == Init => IInv
<1> SUFFICES ASSUME Init PROVE IInv
  OBVIOUS
<1>1. /\ NoReport \in ReportRec /\ NoReport.error = "none" /\ NoReport.outcome = "none"
      /\ NoReport.cred = Nothing
  BY DEF NoReport, NoLogin, ReportRec, LoginRec, Outcomes
<1>2. /\ Idle \in WalkRec /\ Idle.at = "idle" /\ Idle.open = {} /\ Idle.rung = 1
      /\ Idle.last = NoReport /\ Idle.new = {}
  BY <1>1 DEF Idle, WalkRec, Ats
<1>3. Well(Idle)
  BY <1>1, <1>2 DEF Well, Opened, Blamed
<1>4. WalksFine
  BY <1>2, <1>3 DEF Init, WalksFine
<1>5. Shared
  <2>1. MaxRekeys \in Nat /\ FirstKey \in [AllHosts -> Keys]
    BY DialAssumption
  <2>2. 0 \in 0..MaxRekeys /\ {} \in SUBSET Lines
    BY <2>1
  <2>3. [file |-> FALSE, lines |-> {}] \in [file : BOOLEAN, lines : SUBSET Lines]
    BY <2>2
  <2> QED
    BY <2>1, <2>2, <2>3 DEF Init, Shared
<1>6. OnFile
  BY <1>2 DEF Init, OnFile
<1> QED
  BY <1>4, <1>5, <1>6 DEF IInv

LEMMA DialStep == IInv /\ [Next]_vars => IInv'
<1> SUFFICES ASSUME IInv, [Next]_vars PROVE IInv'
  OBVIOUS
<1>1. CASE Next
  BY <1>1, StartStep, BuildAuthStep, StatStep, CreateStep, LoadStep, KnownHostsFailStep, ConnectStep,
     ConnectFailsStep, KeyMatchesStep, KeyMismatchStep, KeyIsNewStep, BastionLoginStep, LoginStep,
     LoginRefusedStep, LoginCutStep, RekeyStep DEF Next
<1>2. CASE UNCHANGED vars
  <2>1. WalksFine'
    BY <1>2, WalksStay DEF vars
  <2>2. Shared' /\ OnFile'
    BY <1>2 DEF vars, IInv, Shared, OnFile
  <2> QED
    BY <2>1, <2>2 DEF IInv
<1> QED
  BY <1>1, <1>2

LEMMA DialSound == Spec => []IInv
BY DialInit, DialStep, PTL DEF Spec

\* No way out of a dial, at any rung of any walk, leaves a connection behind,
\* and a walk that succeeds holds just what it needs.  (Dial, dialJump.)
THEOREM DialNoConnectionLeft == Spec => []NoConnectionLeft
<1>1. IInv => TypeOK
  <2> SUFFICES ASSUME IInv PROVE TypeOK
    OBVIOUS
  <2>1. \A w \in Walks : walk[w] \in WalkRec /\ Well(walk[w])
    BY Here
  <2>2. \A w \in Walks :
           /\ walk[w].at \in Ats
           /\ walk[w].at # "idle" => walk[w].host \in Hosts /\ walk[w].rung \in 1..Len(Ladder)
           /\ walk[w].seen \subseteq Lines /\ walk[w].new \subseteq Lines
           /\ walk[w].open \subseteq {"bastion", "device"} /\ walk[w].hop \in {"bastion", "device"}
           /\ walk[w].last.error \in Errors \cup {"none"}
    BY <2>1 DEF WalkRec, ReportRec, Well
  <2>3. known.file \in BOOLEAN /\ known.lines \subseteq Lines
    BY DEF IInv, Shared
  <2>4. firsts \subseteq [who : Devices \cup Hosts, hop : {"bastion", "device"}, key : Keys]
    BY DEF IInv, Shared
  <2> QED
    BY <2>2, <2>3, <2>4 DEF IInv, Shared, TypeOK, Ats
<1>2. IInv => NothingLeftOpen
  BY Here DEF Well, Opened, Full, NothingLeftOpen
<1>3. IInv => NoConnectionLeft
  BY <1>1, <1>2 DEF NoConnectionLeft
<1> QED
  BY <1>3, DialSound, PTL

\* A credential is held against, or set aside, only for what it did itself, but
\* for what Classify cannot tell apart; and a device is shown no more of it
\* than it declares.  (Walk, Classify, applyCredential.)
THEOREM DialCredentialsAreSpared == Spec => []CredentialsAreSpared
<1>1. IInv => CredentialsAreSpared
  <2> SUFFICES ASSUME IInv PROVE CredentialsAreSpared
    OBVIOUS
  <2>1. ASSUME NEW w \in Walks, walk[w].last.error \notin Elsewhere
        PROVE  Deserved(w)
    <3>1. walk[w] \in WalkRec /\ Blamed(walk[w])
      BY Here DEF Well
    <3>2. walk[w].last.error \in Errors \cup {"none"}
      BY <3>1 DEF WalkRec, ReportRec
    <3>3. walk[w].last.outcome = "AuthRejected" => walk[w].last.error \in {"refused", "no handler"}
      BY <2>1, <3>1, <3>2 DEF Blamed, Classify, Rejections, Errors, Elsewhere
    <3>4. walk[w].last.outcome = "KeyMaterial" => walk[w].last.error = "key material"
      BY <2>1, <3>1, <3>2 DEF Blamed, Classify, Rejections, Errors, Elsewhere
    <3> QED
      BY <3>1, <3>3, <3>4 DEF Blamed, Deserved, Device
  <2>2. OneSecretPerRung
    BY Here DEF Well, Blamed, OneSecretPerRung
  <2> QED
    BY <2>1, <2>2 DEF CredentialsAreSpared, BlameIsDeservedUnlessElsewhere
<1> QED
  BY <1>1, DialSound, PTL

\* A walk gives up for a credential that was refused, could not answer or could
\* not be loaded only past the last of the ladder, whatever the agent is like
\* and wherever other dials are cut off.  (Walk.)
THEOREM DialGoodLoginIsReached == Spec => []GoodLoginIsReached
<1>1. IInv => GoodLoginIsReached
  <2> SUFFICES ASSUME IInv, NEW w \in Walks, walk[w].at = "failed",
                      walk[w].last.error \in OwnErrors,
                      NEW i \in DOMAIN Ladder, LogsIn(Device(w), Ladder[i])
               PROVE  Ladder[i] \in Broken \/ i < walk[w].rung
    BY DEF GoodLoginIsReached
  <2>1. /\ walk[w].rung = Len(Ladder)
        /\ LogsIn(DeviceAt[walk[w].host], Ladder[walk[w].rung]) => Ladder[walk[w].rung] \in Broken
    BY Here DEF Well, Blamed
  <2>2. Len(Ladder) \in Nat /\ DOMAIN Ladder = 1..Len(Ladder)
    BY DialAssumption
  <2>3. i = Len(Ladder) \/ i < Len(Ladder)
    BY <2>2, AtLast, Zenon
  <2> QED
    BY <2>1, <2>3 DEF Device
<1> QED
  BY <1>1, DialSound, PTL

\* A key that was trusted and written down stays on file, but for a file made
\* over it, and its news is of the device.  (buildHostKeyCallback, ApplyFor.)
THEOREM DialHostKeysHold == Spec => []HostKeysHold
<1>1. IInv => HostKeysHold
  BY DEF IInv, OnFile, Shared, HostKeysHold, AcceptedKeysPersist, ReportedAgainstTheDevice
<1> QED
  BY <1>1, DialSound, PTL

=============================================================================
