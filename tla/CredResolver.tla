---------------------------- MODULE CredResolver ----------------------------
(***************************************************************************)
(* The credential resolver (internal/credres): concurrent walks of one     *)
(* credential ladder.  Each walk resolves its candidates once, under the   *)
(* lock, then dials without it and reports every answer under it again.    *)
(* What the walks learn from each other -- the promotion, the per-device   *)
(* refusals, the breaker -- is therefore always a step behind what the     *)
(* walks in flight are doing.                                              *)
(*                                                                         *)
(* One resolver serves one method (SSH or SNMP).  The credentials of the   *)
(* other method, disabled ones, and those without the caller's tags are    *)
(* outside InScope.  The binding store is seen through Lookup, Record and  *)
(* Forget only: RecordOf says which record an identity's names lead to.    *)
(* The save a Record or a Forget ends with may fail; memory has changed    *)
(* before it, and the walk ignores the error.                              *)
(***************************************************************************)
EXTENDS Integers, Sequences, FiniteSets

CONSTANTS
    Creds,      \* credential ids of the vault
    Idents,     \* canonical identities of the devices
    Walkers,    \* goroutines that may be walking a ladder
    Records,    \* records of the binding store
    RecordOf,   \* [Idents -> Records]: where an identity's names lead
    InScope,    \* [Idents -> SUBSET Creds]: scope, tags, method, not disabled
    Rank,       \* [Creds -> Nat]: the static order of rank(), no two alike
    CallerPin,  \* [Idents -> Creds \cup {NoCred}]: the credential a session names
    Answers,    \* [Idents -> [Creds -> SUBSET Outcomes]]: what a dial may return
    Untimed,    \* [Idents -> SUBSET Creds]: the dials that have no deadline
    NoCred,     \* the empty credential id
    StoredPins, \* what the binding store may hold when the run starts
    BreakerThreshold, \* after defaults; not positive disables the breaker
    MaxPerHost,       \* after defaults; not positive means no cap
    Promotion,  \* ~DisablePromotion
    MaxWalks,   \* bound on walks begun
    MaxResets   \* bound on calls of ResetRun

\* OutcomeUnreachable stands for every outcome that ends a ladder and says
\* nothing of the credential (AlgoMismatch, HostKey, Other).
Outcomes == {"Success", "AuthRejected", "KeyMaterial", "NoAnswer", "Unreachable"}
\* Mutant: silence breaks the ladder off.
Retryable_RefusalsOnly(o) == o \in {"AuthRejected", "KeyMaterial"}

Retryable(o) == o \in {"AuthRejected", "KeyMaterial", "NoAnswer"}

ASSUME CredResolverAssumption ==
    /\ IsFiniteSet(Walkers) /\ IsFiniteSet(Idents) /\ IsFiniteSet(Creds)
    /\ NoCred \notin Creds
    /\ RecordOf \in [Idents -> Records]
    /\ InScope \in [Idents -> SUBSET Creds]
    /\ Rank \in [Creds -> Nat] /\ \A a, b \in Creds : Rank[a] = Rank[b] => a = b
    /\ StoredPins \subseteq [Records -> Creds \cup {NoCred}]
    /\ CallerPin \in [Idents -> Creds \cup {NoCred}]
    /\ Answers \in [Idents -> [Creds -> SUBSET Outcomes]]
    /\ Untimed \in [Idents -> SUBSET Creds]
    /\ BreakerThreshold \in Int /\ MaxPerHost \in Int
    /\ Promotion \in BOOLEAN
    /\ MaxWalks \in Nat /\ MaxResets \in Nat

VARIABLES
    promoted,   \* Resolver.promoted
    negative,   \* Resolver.negative
    rejects,    \* Resolver.rejects
    parked,     \* the keys of Resolver.parked
    pin,        \* the credential of each binding record
    walk,       \* the call of Walk each goroutine is in
    walks, resets,  \* calls so far, for the bounds
    refused,    \* history: refusals of a credential by a device since a login there
    failed      \* history: devices a walk that began did not open

learned == <<promoted, negative, rejects, parked, pin>>
vars == <<promoted, negative, rejects, parked, pin, walk, walks, resets, refused, failed>>

\* A walk that is not one: between two calls of Walk.
Idle == [at |-> "idle"]
CredsIn(s) == {s[i] : i \in 1..Len(s)}

TypeOK ==
    /\ promoted \in Creds \cup {NoCred}
    /\ negative \in [Idents -> SUBSET Creds]
    /\ rejects \in [Creds -> SUBSET Idents]
    /\ parked \in SUBSET Creds
    /\ pin \in [Records -> Creds \cup {NoCred}]
    /\ walk \in [Walkers -> {Idle}
          \cup [at : {"dialing"}, ident : Idents, list : Seq(Creds) \ {<<>>}]
          \cup [at : {"answered"}, ident : Idents, list : Seq(Creds) \ {<<>>},
                outcome : Outcomes]]
    /\ walks \in 0..MaxWalks /\ resets \in 0..MaxResets
    /\ refused \in [Idents -> [Creds -> Nat]]
    /\ failed \in SUBSET Idents

-----------------------------------------------------------------------------
(* Resolve                                                                 *)

\* Mutant: a parked credential is offered as before.
Eligible_OffersParked(d) == InScope[d] \ negative[d]

Eligible(d) == InScope[d] \ (parked \cup negative[d])

\* A pin somebody wrote on the session outranks a learned one, where it is
\* eligible at all.
Pinned(d) == IF CallerPin[d] \in Eligible(d) THEN CallerPin[d] ELSE pin[RecordOf[d]]

\* Pin first, then promotion, then the static order.
Place(d, c) ==
    IF c = Pinned(d) THEN 0
    ELSE IF Promotion /\ c = promoted THEN 1 ELSE 2 + Rank[c]

Ascending(d, s) == \A i, j \in DOMAIN s : i < j => Place(d, s[i]) < Place(d, s[j])

\* The eligible credentials in order; there is exactly one such sequence.
Orders(d) == {s \in [1..Cardinality(Eligible(d)) -> Eligible(d)] : Ascending(d, s)}

Capped(s) == IF MaxPerHost > 0 /\ Len(s) > MaxPerHost THEN SubSeq(s, 1, MaxPerHost) ELSE s

Init ==
    /\ promoted = NoCred
    /\ negative = [d \in Idents |-> {}]
    /\ rejects = [c \in Creds |-> {}]
    /\ parked = {}
    /\ pin \in StoredPins
    /\ walk = [w \in Walkers |-> Idle]
    /\ walks = 0 /\ resets = 0
    /\ refused = [d \in Idents |-> [c \in Creds |-> 0]]
    /\ failed = {}

Begin(w) ==
    /\ walk[w] = Idle
    /\ walks < MaxWalks
    /\ walks' = walks + 1

\* Walk on device d resolves, and has someone to try.
Resolve(w, d) ==
    /\ Begin(w)
    /\ \E s \in Orders(d) :
          /\ s # <<>>
          /\ walk' = [walk EXCEPT ![w] = [at |-> "dialing", ident |-> d, list |-> Capped(s)]]
    /\ UNCHANGED <<learned, resets, refused, failed>>

\* Nobody to try (ErrNoCandidates), or the vault cannot be read.
ResolveNone(w) ==
    /\ Begin(w)
    /\ UNCHANGED <<learned, walk, resets, refused, failed>>

-----------------------------------------------------------------------------
(* The dial, and Report                                                    *)

\* dial(cand.Cred) returns; nothing is locked meanwhile.
Dial(w) ==
    /\ walk[w].at = "dialing"
    /\ \E o \in Answers[walk[w].ident][Head(walk[w].list)] :
          walk' = [walk EXCEPT ![w] = [at |-> "answered", ident |-> walk[w].ident,
                                       list |-> walk[w].list, outcome |-> o]]
    /\ UNCHANGED <<learned, walks, resets, refused, failed>>

ReportSuccess(d, c) ==
    /\ rejects' = [rejects EXCEPT ![c] = {}]
    /\ negative' = [negative EXCEPT ![d] = {}]
    /\ promoted' = IF Promotion THEN c ELSE promoted
    /\ pin' = [pin EXCEPT ![RecordOf[d]] = c]
    /\ refused' = [refused EXCEPT ![d] = [k \in Creds |-> 0]]
    /\ UNCHANGED parked

\* Mutant: the pin outlives its refusal.
ReportRejected_KeepsPin(d, c) ==
    /\ negative' = [negative EXCEPT ![d] = @ \cup {c}]
    /\ rejects' = [rejects EXCEPT ![c] = @ \cup {d}]
    /\ parked' = IF BreakerThreshold > 0 /\ Cardinality(rejects'[c]) >= BreakerThreshold
                 THEN parked \cup {c} ELSE parked
    /\ refused' = [refused EXCEPT ![d][c] = @ + 1]
    /\ UNCHANGED <<promoted, pin>>

ReportRejected(d, c) ==
    /\ negative' = [negative EXCEPT ![d] = @ \cup {c}]
    /\ rejects' = [rejects EXCEPT ![c] = @ \cup {d}]
    /\ parked' = IF BreakerThreshold > 0 /\ Cardinality(rejects'[c]) >= BreakerThreshold
                 THEN parked \cup {c} ELSE parked
    /\ pin' = IF pin[RecordOf[d]] = c THEN [pin EXCEPT ![RecordOf[d]] = NoCred] ELSE pin
    /\ refused' = [refused EXCEPT ![d][c] = @ + 1]
    /\ UNCHANGED promoted

ReportKeyMaterial(c) ==
    /\ parked' = parked \cup {c}
    /\ UNCHANGED <<promoted, negative, rejects, pin, refused>>

Inconclusive == UNCHANGED <<learned, refused>>

Report(d, c, o) ==
    \/ o = "Success" /\ ReportSuccess(d, c)
    \/ o = "AuthRejected" /\ ReportRejected(d, c)
    \/ o = "KeyMaterial" /\ ReportKeyMaterial(c)
    \/ o \in {"NoAnswer", "Unreachable"} /\ Inconclusive

\* Mutant: a credential that got no answer is tried again.
NextCandidate_RetriesSilence(w) ==
    /\ walk[w].at = "answered"
    /\ Retryable(walk[w].outcome) /\ Tail(walk[w].list) # <<>>
    /\ Report(walk[w].ident, Head(walk[w].list), walk[w].outcome)
    /\ walk' = [walk EXCEPT ![w] =
                   [at |-> "dialing", ident |-> walk[w].ident,
                    list |-> IF walk[w].outcome = "NoAnswer" THEN walk[w].list
                             ELSE Tail(walk[w].list)]]
    /\ UNCHANGED <<walks, resets, failed>>

\* The walk reports and goes on to its next candidate.
NextCandidate(w) ==
    /\ walk[w].at = "answered"
    /\ Retryable(walk[w].outcome) /\ Tail(walk[w].list) # <<>>
    /\ Report(walk[w].ident, Head(walk[w].list), walk[w].outcome)
    /\ walk' = [walk EXCEPT ![w] = [at |-> "dialing", ident |-> walk[w].ident,
                                    list |-> Tail(walk[w].list)]]
    /\ UNCHANGED <<walks, resets, failed>>

\* The walk reports and returns: authenticated, out of candidates, or broken
\* off because no other credential would fare better.
Return(w) ==
    /\ walk[w].at = "answered"
    /\ ~Retryable(walk[w].outcome) \/ Tail(walk[w].list) = <<>>
    /\ Report(walk[w].ident, Head(walk[w].list), walk[w].outcome)
    /\ walk' = [walk EXCEPT ![w] = Idle]
    /\ failed' = IF walk[w].outcome = "Success" THEN failed ELSE failed \cup {walk[w].ident}
    /\ UNCHANGED <<walks, resets>>

\* Per-run state goes, bindings stay.  Walks in flight keep their lists.
ResetRun ==
    /\ resets < MaxResets
    /\ resets' = resets + 1
    /\ promoted' = NoCred
    /\ negative' = [d \in Idents |-> {}]
    /\ rejects' = [c \in Creds |-> {}]
    /\ parked' = {}
    /\ refused' = [d \in Idents |-> [c \in Creds |-> 0]]
    /\ UNCHANGED <<pin, walk, walks, failed>>

\* Every walk of the run is over.
Rest ==
    /\ walks = MaxWalks /\ \A w \in Walkers : walk[w] = Idle
    /\ UNCHANGED vars

WalkStep(w) == Dial(w) \/ NextCandidate(w) \/ Return(w)

Next ==
    \/ \E w \in Walkers : WalkStep(w) \/ ResolveNone(w) \/ \E d \in Idents : Resolve(w, d)
    \/ ResetRun
    \/ Rest

Spec == Init /\ [][Next]_vars
\* The walk is in a dial that may never return.
Hanging(w) == walk[w].at = "dialing" /\ Head(walk[w].list) \in Untimed[walk[w].ident]

(* The lock is held for map operations and a file write, and most dials     *)
(* have a deadline: an SNMP request its timeout, a direct SSH dial one for   *)
(* the connection and its handshake (sshcore.Dial).  Untimed are those that  *)
(* have none: through a bastion, whose handshake ssh.Dial does not bound and *)
(* whose channel takes no SetDeadline, and with an agent that never answers. *)
FairSpec == Spec /\ \A w \in Walkers : WF_vars(~Hanging(w) /\ WalkStep(w))

-----------------------------------------------------------------------------
(* Properties                                                              *)

\* The walks that still have credential c to try (or to report), anywhere.
Holders(c) == {w \in Walkers : walk[w] # Idle /\ c \in CredsIn(walk[w].list)}
HoldersAt(d, c) == {w \in Holders(c) : walk[w].ident = d}

\* The lockout guard: since it last logged in anywhere, a credential has been
\* refused by fewer distinct devices than the threshold plus the walks that
\* may be in flight when it is parked.  (BreakerThreshold, credres.go.)
LockoutBound ==
    BreakerThreshold > 0 =>
        \A c \in Creds : Cardinality(rejects[c]) < BreakerThreshold + Cardinality(Walkers)

\* The negative cache: one device refuses one credential, between two logins
\* there, at most once for each goroutine.  Only walks that resolved before
\* the first refusal was reported can repeat it.
RepeatsBounded == \A d \in Idents, c \in Creds : refused[d][c] <= Cardinality(Walkers)

\* How often logins may be refused, in all and by one device: what the breaker
\* and the negative cache promise of walks that overlap.
RefusalsBounded == TypeOK /\ LockoutBound /\ RepeatsBounded

\* A learned pin is never a credential every name of the device has refused
\* since: the pin is dropped with the refusal, and a login that sets it
\* clears the refusals, whatever walks of the same device overlap.  (Report.)
PinNotRefused ==
    \A d \in Idents : pin[RecordOf[d]] # NoCred =>
        \E e \in Idents : RecordOf[e] = RecordOf[d] /\ pin[RecordOf[d]] \notin negative[e]

\* A credential nobody ever refused, and whose key loads, stays in the run
\* whatever dead hosts and failed handshakes it meets.  (classify.go.)
Blameless(c) ==
    \A d \in Idents : Answers[d][c] \cap {"AuthRejected", "KeyMaterial"} = {}
NeverBlamed ==
    \A c \in Creds : Blameless(c) => c \notin parked /\ \A d \in Idents : c \notin negative[d]

\* A device a blameless credential always opens is opened by every walk that
\* began, when all its credentials fit the cap and none breaks the ladder off:
\* refusals, broken keys, silence and reordering never cost the device.  (Walk.)
Welcoming(d) ==
    /\ \E c \in InScope[d] : Blameless(c) /\ Answers[d][c] = {"Success"}
    /\ \A c \in InScope[d] : \A o \in Answers[d][c] : o # "Unreachable"
    /\ MaxPerHost > 0 => Cardinality(InScope[d]) <= MaxPerHost
LoginIsFound == \A d \in Idents : Welcoming(d) => d \notin failed

\* Silence and refusals of other credentials cost no credential its place, and
\* no device its login.
GoodLoginIsFound == NeverBlamed /\ LoginIsFound

\* Every walk ends, whatever its ladder answers and whatever becomes of the
\* others, unless a dial of its own that has no deadline never returns: no
\* candidate is tried for ever, and none keeps another walk waiting.  (Walk.)
WalkEnds == \A w \in Walkers : []<>(walk[w] = Idle) \/ <>[]Hanging(w)
=============================================================================
