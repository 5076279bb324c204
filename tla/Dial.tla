-------------------------------- MODULE Dial --------------------------------
(***************************************************************************)
(* Dialing a device (internal/dial, internal/sshcore): a walk down the     *)
(* ladder of credentials the resolver gave for it, each rung one dial:     *)
(* authentication methods, known_hosts, perhaps a bastion, the device's    *)
(* host key, its login; and what is reported of it to the resolver and to  *)
(* the run (credres.Walk, Classify).                                       *)
(*                                                                         *)
(* Walks run at once over one known_hosts file.  An error is the kind of   *)
(* its cause, and Classify what the matching on its text makes of it.      *)
(* What the resolver learns is CredResolver's; algorithms and the order of *)
(* methods within x/crypto/ssh are not told apart here.  A dial may fail   *)
(* at any step and need not end: that is CredResolver's too.               *)
(***************************************************************************)
EXTENDS Naturals, Sequences

CONSTANTS
    Walks, Creds,
    Hosts, DeviceAt,   \* strings dialed, and the device that answers there
    Bastion,           \* the jump host, or Nothing
    BastionLogins,     \* what may be wrong with its login
    Keys, FirstKey,    \* host keys, and that of each host at the start
    MaxRekeys,         \* bound on the hosts that change theirs
    Insecure,          \* the policy that checks no host keys; else TOFU
    Method, Holds,     \* per credential: how it logs in, what it holds
    Broken,            \* those whose key cannot be loaded
    AgentStates,       \* what SSH_AUTH_SOCK may lead to
    Offers, Takes,     \* per device: methods asked for, credentials taken
    Ladder,            \* the candidates, in order
    Nothing

Devices == {DeviceAt[h] : h \in Hosts}
AllHosts == Hosts \cup ({Bastion} \ {Nothing})
Secrets == {"agent", "key", "password"}

ASSUME DialAssumption ==
    /\ DOMAIN DeviceAt = Hosts /\ Bastion \notin Hosts
    /\ BastionLogins \subseteq {"taken", "refused", "unreadable", "unparsable", "none"}
    /\ FirstKey \in [AllHosts -> Keys] /\ MaxRekeys \in Nat
    /\ Insecure \in BOOLEAN /\ AgentStates \subseteq {"unset", "dead", "faulty", "live"}
    /\ Method \in [Creds -> Secrets] /\ Holds \in [Creds -> SUBSET Secrets]
    /\ \A c \in Creds : Method[c] \in Holds[c]
    /\ Broken \subseteq Creds
    /\ Offers \in [Devices -> SUBSET {"publickey", "password", "interactive"}]
    /\ Takes \in [Devices -> SUBSET Creds]
    /\ Ladder \in Seq(Creds)

VARIABLES
    bastion,  \* what its login is like
    agent,    \* what the agent is like: dead if its socket has no listener
    key,      \* per host: the key it offers
    rekeys,
    known,    \* the known_hosts file: whether it is there, and its lines
    lost,     \* history: a line went when the file was created over
    walk,     \* per walk: where it is, and the last outcome it reported
    firsts    \* history: the keys reported as new to the run

vars == <<bastion, agent, key, rekeys, known, lost, walk, firsts>>

\* What was shown of a credential, and to which device.
NoLogin == [at |-> "nowhere", secrets |-> {}]
NoReport == [cred |-> Nothing, outcome |-> "none", error |-> "none", login |-> NoLogin]
Idle == [at |-> "idle", host |-> Nothing, rung |-> 1, seen |-> {}, hop |-> "device",
         open |-> {}, new |-> {}, last |-> NoReport]

-----------------------------------------------------------------------------
(* Errors, and what is made of them *)

\* Mutant: a question the credential cannot answer is none of its fault.
Rejections_Answered == {"refused", "bastion refused"}

\* Mutant: a device that hangs up has refused the credential.
Rejections_HungUp == {"refused", "no handler", "bastion refused", "unreachable"}

\* What reads like "unable to authenticate", the bastion's refusal included.
Rejections == {"refused", "no handler", "bastion refused"}

\* By the error's cause first, then by its text: a known_hosts file or a
\* bastion's key that may not be read is a file like the credential's key, and
\* an agent's socket that refuses the connection is a host that does.
Classify(error) ==
    CASE error \in Rejections -> "AuthRejected"
      [] error \in {"key material", "known_hosts denied", "bastion unreadable", "bastion none"} -> "KeyMaterial"
      [] error \in {"mismatch", "known_hosts damaged", "bastion unparsable"} -> "HostKey"
      [] error \in {"unreachable", "agent dead"} -> "Unreachable"
      [] error = "algorithms" -> "AlgoMismatch"
      [] OTHER -> "Other"

Retryable(outcome) == outcome \in {"AuthRejected", "KeyMaterial"}

Elsewhere == {"bastion refused", "bastion unreadable", "bastion none", "known_hosts denied"}

Cred(w) == Ladder[walk[w].rung]
Device(w) == DeviceAt[walk[w].host]
Hop(w) == IF walk[w].hop = "bastion" THEN Bastion ELSE walk[w].host

\* Mutant: the bastion stays when the device fails.
LeftOpen_Bastion(conns) == conns \ {"device"}

\* Every connection of a dial that fails is closed, the bastion last.
LeftOpen(conns) == {}

HasMore(w) == walk[w].rung < Len(Ladder)

\* Walk: the next rung, or the end.
Reported(w, error, login) ==
    LET outcome == Classify(error)
        more == Retryable(outcome) /\ HasMore(w)
    IN  walk' = [walk EXCEPT ![w] =
          [at |-> IF more THEN "auth" ELSE "failed", host |-> walk[w].host,
           rung |-> IF more THEN walk[w].rung + 1 ELSE walk[w].rung,
           seen |-> {}, hop |-> "device", open |-> LeftOpen(walk[w].open), new |-> walk[w].new,
           last |-> [cred |-> Cred(w), outcome |-> outcome, error |-> error, login |-> login]]]

Fail(w, error) == Reported(w, error, NoLogin)
Goes(w, at) == walk' = [walk EXCEPT ![w].at = at]
Stays == UNCHANGED <<bastion, agent, key, rekeys>>

-----------------------------------------------------------------------------
(* A dial *)

Start(w, h) ==
    /\ walk[w].at = "idle" /\ Len(Ladder) > 0
    /\ walk' = [walk EXCEPT ![w].at = "auth", ![w].host = h]
    /\ Stays /\ UNCHANGED <<known, lost, firsts>>

\* applyCredential: what the declared method needs, and no more.
Given(c) == {Method[c]}

\* buildAuthMethods: an agent is left out where none is named, not where it
\* cannot be reached, and keyboard-interactive is always offered.
Methods(c) == {m \in Given(c) : m = "agent" => agent # "unset"} \cup {"interactive"}

BuildAuth(w) ==
    /\ walk[w].at = "auth"
    /\ IF "key" \in Given(Cred(w)) /\ Cred(w) \in Broken
       THEN Fail(w, "key material")
       ELSE Goes(w, IF Insecure THEN "reach" ELSE "stat")
    /\ Stays /\ UNCHANGED <<known, lost, firsts>>

\* os.Stat, and the creation that follows where there is no file.
Stat(w) ==
    /\ walk[w].at = "stat"
    /\ Goes(w, IF known.file THEN "load" ELSE "create")
    /\ Stays /\ UNCHANGED <<known, lost, firsts>>

\* Whatever another walk has put there by now is gone.
Create(w) ==
    /\ walk[w].at = "create"
    /\ known' = [file |-> TRUE, lines |-> {}]
    /\ lost' = (lost \/ known.lines # {})
    /\ Goes(w, "load")
    /\ Stays /\ UNCHANGED firsts

Load(w) ==
    /\ walk[w].at = "load"
    /\ walk' = [walk EXCEPT ![w].at = "reach", ![w].seen = known.lines]
    /\ Stays /\ UNCHANGED <<known, lost, firsts>>

KnownHostsFail(w) ==
    /\ \/ walk[w].at \in {"create", "load"} /\ Fail(w, "known_hosts denied")
       \/ walk[w].at = "load" /\ Fail(w, "known_hosts damaged")
    /\ Stays /\ UNCHANGED <<known, lost, firsts>>

BastionError ==
    CASE bastion = "unreadable" -> "bastion unreadable"
      [] bastion = "unparsable" -> "bastion unparsable"
      [] OTHER -> "bastion none"

\* A connection to the bastion, from it to the device, or to the device.
Connect(w) ==
    /\ walk[w].at = "reach"
    /\ LET hop == IF Bastion # Nothing /\ "bastion" \notin walk[w].open THEN "bastion" ELSE "device"
       IN  IF hop = "bastion" /\ bastion \in {"unreadable", "unparsable", "none"}
           THEN Fail(w, BastionError)
           ELSE walk' = [walk EXCEPT ![w].at = "host key", ![w].hop = hop, ![w].open = @ \cup {hop}]
    /\ Stays /\ UNCHANGED <<known, lost, firsts>>

\* A peer that hangs up during the handshake is "closed": its EOF is reworded,
\* and a disconnect has its own text.
ConnectFails(w) ==
    /\ walk[w].at \in {"reach", "host key"}
    /\ \E error \in {"unreachable", "algorithms", "closed", "tunnel"} :
           /\ error \in {"algorithms", "closed"} => walk[w].at = "host key"
           /\ error = "tunnel" => walk[w].at = "reach" /\ "bastion" \in walk[w].open
           /\ Fail(w, error)
    /\ Stays /\ UNCHANGED <<known, lost, firsts>>

Pinned(w) == {line[2] : line \in {l \in walk[w].seen : l[1] = Hop(w)}}

\* ApplyFor: the device, whatever string it was dialed by.
ReportedAs(w) == Device(w)

\* Mutant: the line is written over the file.
Appended_Over(lines, line) == {line}

Appended(lines, line) == lines \cup {line}

KeyMatches(w) ==
    /\ walk[w].at = "host key" /\ (Insecure \/ key[Hop(w)] \in Pinned(w))
    /\ Goes(w, "login")
    /\ Stays /\ UNCHANGED <<known, lost, firsts>>

KeyMismatch(w) ==
    /\ walk[w].at = "host key" /\ ~Insecure
    /\ Pinned(w) # {} /\ key[Hop(w)] \notin Pinned(w)
    /\ Fail(w, "mismatch")
    /\ Stays /\ UNCHANGED <<known, lost, firsts>>

\* First contact: reported, trusted, and written down if that can be done.
KeyIsNew(w) ==
    /\ walk[w].at = "host key" /\ ~Insecure /\ Pinned(w) = {}
    /\ firsts' = firsts \cup {[who |-> ReportedAs(w), hop |-> walk[w].hop, key |-> key[Hop(w)]]}
    /\ LET line == <<Hop(w), key[Hop(w)]>>
       IN  \/ /\ known' = [file |-> TRUE, lines |-> Appended(known.lines, line)]
              /\ walk' = [walk EXCEPT ![w].at = "login", ![w].new = @ \cup {line}]
           \/ known' = known /\ Goes(w, "login")
    /\ Stays /\ UNCHANGED lost

BastionLogin(w) ==
    /\ walk[w].at = "login" /\ walk[w].hop = "bastion"
    /\ IF bastion = "taken" THEN Goes(w, "reach") ELSE Fail(w, "bastion refused")
    /\ Stays /\ UNCHANGED <<known, lost, firsts>>

Asks(d, m) ==
    CASE m \in {"agent", "key"} -> "publickey" \in Offers[d]
      [] m = "password" -> "password" \in Offers[d]
      [] OTHER -> "interactive" \in Offers[d]

\* What a login would show of the credential: the methods tried, one by one.
Tried(d, c) == {m \in Methods(c) : Asks(d, m)}
Answers(c, m) ==
    CASE m = "agent" -> agent = "live"
      [] m = "interactive" -> "password" \in Given(c)
      [] OTHER -> TRUE
Shown(m) == IF m = "interactive" THEN "password" ELSE m

LogsIn(d, c) ==
    /\ c \in Takes[d]
    /\ \E m \in Tried(d, c) : Answers(c, m) /\ Shown(m) = Method[c]

Answered(d, c) == {m \in Tried(d, c) : Answers(c, m)}

Login(w) ==
    /\ walk[w].at = "login" /\ walk[w].hop = "device" /\ LogsIn(Device(w), Cred(w))
    /\ walk' = [walk EXCEPT ![w].at = "connected", ![w].last = NoReport]
    /\ Stays /\ UNCHANGED <<known, lost, firsts>>

\* The method tried last decides what a refused login reads like, and
\* keyboard-interactive is the last: a question the credential cannot answer
\* ends the handshake, and an agent that fails does where nothing comes after.
LoginError(d, c) ==
    CASE "interactive" \in Tried(d, c) \ Answered(d, c) -> "no handler"
      [] Tried(d, c) = {"agent"} /\ agent = "dead" -> "agent dead"
      [] Tried(d, c) = {"agent"} /\ agent = "faulty" -> "agent faulty"
      [] OTHER -> "refused"

\* Each method the device asks for is refused in turn.
LoginRefused(w) ==
    LET d == Device(w)
        c == Cred(w)
    IN  /\ walk[w].at = "login" /\ walk[w].hop = "device" /\ ~LogsIn(d, c)
        /\ Reported(w, LoginError(d, c), [at |-> d, secrets |-> {Shown(m) : m \in Answered(d, c)}])
        /\ Stays /\ UNCHANGED <<known, lost, firsts>>

\* The peer goes silent or hangs up before the login has come to its end,
\* whatever it has been shown of the credential by then.
LoginCut(w) ==
    LET d == Device(w)
        asked == IF walk[w].hop = "device" THEN Answered(d, Cred(w)) ELSE {}
    IN  /\ walk[w].at = "login"
        /\ \E error \in {"unreachable", "closed"}, shown \in SUBSET asked :
               Reported(w, error, IF shown = {} THEN NoLogin
                                  ELSE [at |-> d, secrets |-> {Shown(m) : m \in shown}])
        /\ Stays /\ UNCHANGED <<known, lost, firsts>>

\* A device is replaced or its key made anew.
Rekey(h, k) ==
    /\ rekeys < MaxRekeys /\ key[h] # k
    /\ rekeys' = rekeys + 1
    /\ key' = [g \in AllHosts |-> IF g = h \/ (g \in Hosts /\ h \in Hosts /\ DeviceAt[g] = DeviceAt[h])
                                  THEN k ELSE key[g]]
    /\ UNCHANGED <<bastion, agent, known, lost, walk, firsts>>

-----------------------------------------------------------------------------
Init ==
    /\ bastion \in BastionLogins /\ agent \in AgentStates
    /\ key = FirstKey /\ rekeys = 0
    /\ known = [file |-> FALSE, lines |-> {}] /\ lost = FALSE
    /\ walk = [w \in Walks |-> Idle]
    /\ firsts = {}

Next ==
    \/ \E w \in Walks :
           \/ \E h \in Hosts : Start(w, h)
           \/ BuildAuth(w) \/ Stat(w) \/ Create(w) \/ Load(w) \/ KnownHostsFail(w)
           \/ Connect(w) \/ ConnectFails(w)
           \/ KeyMatches(w) \/ KeyMismatch(w) \/ KeyIsNew(w)
           \/ BastionLogin(w) \/ Login(w) \/ LoginRefused(w) \/ LoginCut(w)
    \/ \E h \in AllHosts, k \in Keys : Rekey(h, k)

Spec == Init /\ [][Next]_vars

-----------------------------------------------------------------------------
(* What a dial promises *)

Errors == Rejections \cup {"key material", "known_hosts denied", "known_hosts damaged", "mismatch",
    "bastion unreadable", "bastion none", "bastion unparsable", "unreachable", "algorithms", "tunnel",
    "closed", "agent dead", "agent faulty"}
Lines == AllHosts \X Keys

TypeOK ==
    /\ bastion \in BastionLogins /\ agent \in AgentStates
    /\ key \in [AllHosts -> Keys] /\ rekeys \in 0..MaxRekeys
    /\ known.file \in BOOLEAN /\ known.lines \subseteq Lines /\ lost \in BOOLEAN
    /\ \A w \in Walks :
           /\ walk[w].at \in {"idle", "auth", "stat", "create", "load", "reach", "host key",
                              "login", "connected", "failed"}
           /\ walk[w].at # "idle" => walk[w].host \in Hosts /\ walk[w].rung \in 1..Len(Ladder)
           /\ walk[w].seen \subseteq Lines /\ walk[w].new \subseteq Lines
           /\ walk[w].open \subseteq {"bastion", "device"} /\ walk[w].hop \in {"bastion", "device"}
           /\ walk[w].last.error \in Errors \cup {"none"}
    /\ firsts \subseteq [who : Devices \cup Hosts, hop : {"bastion", "device"}, key : Keys]

\* A walk that fails leaves no connection open, to the bastion or the device,
\* wherever it failed; one that succeeds holds the two, or the one it needed
\* (sshcore Dial, Client.Close).
NothingLeftOpen ==
    \A w \in Walks :
        /\ walk[w].at \in {"auth", "stat", "create", "load", "failed"} => walk[w].open = {}
        /\ walk[w].at = "connected" =>
               walk[w].open = {"device"} \cup (IF Bastion = Nothing THEN {} ELSE {"bastion"})

\* Every way out of a dial closes what it opened.
NoConnectionLeft == TypeOK /\ NothingLeftOpen

Deserved(w) ==
    LET r == walk[w].last
    IN  /\ r.outcome = "AuthRejected" => r.login.at = Device(w)
        /\ r.outcome = "KeyMaterial" => r.cred \in Broken

\* "OutcomeAuthRejected: the server refused these credentials. This is the only
\* failure that counts against a credential" (classify.go): a credential is
\* held against only when the device did not log it in, and set aside for the
\* run only when its own key does not load, but for the bastion's own login and
\* for files that may not be read, which Classify does not tell from the
\* credential's.
BlameIsDeservedUnlessElsewhere ==
    \A w \in Walks : walk[w].last.error \notin Elsewhere => Deserved(w)

\* What says something of the credential that was tried, and of no other.
OwnErrors == {"refused", "no handler", "key material"}

\* "Walk BROKE OUT of the ladder after the first candidate" (classify.go): a
\* walk does not give up on a device for a credential that was refused, could
\* not answer or could not be loaded, while one below it is taken there.  It
\* does for an agent that cannot be reached or fails, whose error Classify does
\* not take for the credential's where nothing is tried after it, and for a peer
\* that hangs up or falls silent in the middle of a login: of these nothing is
\* said here.
GoodLoginIsReached ==
    \A w \in Walks : walk[w].at = "failed" /\ walk[w].last.error \in OwnErrors =>
        \A i \in DOMAIN Ladder :
            LogsIn(Device(w), Ladder[i]) => Ladder[i] \in Broken \/ i < walk[w].rung

\* "offering a password alongside a key turns one ladder rung into two
\* authentication attempts" (dial.go applyCredential): of a credential, a
\* device is shown the declared secret and no other.
OneSecretPerRung ==
    \A w \in Walks : LET r == walk[w].last IN r.cred # Nothing => r.login.secrets \subseteq {Method[r.cred]}

\* "accepted keys persist" (hostkey.go): a key trusted on first contact and
\* written down stays on file, whatever other walks write, unless one of them
\* created the file over it.
AcceptedKeysPersist == lost \/ \A w \in Walks : walk[w].new \subseteq known.lines

\* "an event keyed on that address is, to the run model, a second device"
\* (dial.go ApplyFor): a new key is reported against the device.
ReportedAgainstTheDevice == \A f \in firsts : f.who \in Devices

\* A walk asks only what it must: one secret per rung, and no credential blamed
\* for what is not its own.
CredentialsAreSpared == BlameIsDeservedUnlessElsewhere /\ OneSecretPerRung

\* A host key, once trusted, is kept, and its news is of the device.
HostKeysHold == AcceptedKeysPersist /\ ReportedAgainstTheDevice
=============================================================================
