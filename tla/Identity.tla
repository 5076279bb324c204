------------------------------ MODULE Identity ------------------------------
(***************************************************************************)
(* What makes two reported strings one device: internal/normalize, and the *)
(* crawler operators that only combine its functions.                      *)
(*                                                                         *)
(* A name is the sequence of its labels, already lower-cased and without a *)
(* trailing dot (normalize.Identifier); an address is one opaque label, for *)
(* its dots are not label separators.  <<>> is the empty string.           *)
(* A configured domain suffix is one label, however many dots it has.      *)
(* DNS is what the resolver answers during one crawl: Resolvable is the    *)
(* names with an address record, PTR the confirmed reverse records of      *)
(* shared (100.64/10) addresses.                                           *)
(***************************************************************************)
EXTENDS Naturals, Sequences

CONSTANTS Labels,       \* labels, whole addresses and domain suffixes
          AddrLabels,   \* the labels that parse as an address
          Domains,      \* configured suffixes, in order
          Resolvable,   \* names that have a forward record
          PTR           \* shared address -> its forward-confirmed name

Names == Seq(Labels) \ {<<>>}

ASSUME IdentityAssumption ==
    /\ AddrLabels \subseteq Labels
    /\ Domains \in Seq(Labels)
    /\ Resolvable \subseteq Names
    /\ \A a \in DOMAIN PTR : PTR[a] \in Names

IsAddr(n) == Len(n) = 1 /\ n[1] \in AddrLabels

\* The labels of a are the first labels of b, or all of them.
LabelPrefix(a, b) == Len(a) <= Len(b) /\ \A k \in 1..Len(a) : a[k] = b[k]

\* normalize.SameDevice: equal, or one name's labels are a prefix of the
\* other's; an address is compared whole.
SameDevice(a, b) ==
    /\ a # <<>> /\ b # <<>>
    /\ \/ a = b
       \/ ~IsAddr(a) /\ ~IsAddr(b) /\ (LabelPrefix(a, b) \/ LabelPrefix(b, a))

\* a is b, or a less qualified form of b.
Within(a, b) == SameDevice(a, b) /\ Len(a) <= Len(b)

\* normalize.ShortName, the key of the crawler's and the binding store's index.
ShortName(n) == n[1]

\* normalize.StripSuffixes: drop the configured suffix, if the name ends in one.
StripSuffixes(n) ==
    IF Len(n) > 1 /\ \E d \in DOMAIN Domains : Domains[d] = n[Len(n)]
    THEN SubSeq(n, 1, Len(n) - 1)
    ELSE n

\* normalize.ResolveWith: a shared address becomes its confirmed PTR name.
ResolveName(n) == IF n \in DOMAIN PTR THEN PTR[n] ELSE n

\* Crawler.resolveViaDomains: a name that does not resolve is completed with
\* the first suffix that makes it resolve.
Completing(n) == {d \in DOMAIN Domains : Append(n, Domains[d]) \in Resolvable}

ResolveViaDomains(n) ==
    IF IsAddr(n) \/ n \in Resolvable \/ Completing(n) = {}
    THEN n
    ELSE LET d == CHOOSE d \in Completing(n) : \A e \in Completing(n) : d <= e
         IN  Append(n, Domains[d])

\* What is dialed for a reported string (Crawler.admit).
DialString(reported) == ResolveViaDomains(ResolveName(reported))

\* mostQualified: drop an identity that is a strict label-prefix of another.
MostQualified(ids) ==
    {a \in ids : ~\E b \in ids : Len(b) > Len(a) /\ SameDevice(a, b)}

\* The claims left when a device registers id: less specific forms go
\* (supersedeLocked).
Superseded(claims, id) ==
    {c \in claims : ~(Len(c) < Len(id) /\ SameDevice(c, id))}
=============================================================================
