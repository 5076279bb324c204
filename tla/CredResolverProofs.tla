------------------------- MODULE CredResolverProofs -------------------------
(***************************************************************************)
(* Proofs about CredResolver, for every vault, set of devices, number of   *)
(* goroutines, threshold, cap and outcome of a dial: the failed logins of  *)
(* one credential are bounded by the breaker and the walks in flight, and  *)
(* a credential that opens a device is found.                              *)
(***************************************************************************)
EXTENDS CredResolver, FiniteSetTheorems, TLAPS

-----------------------------------------------------------------------------
(* Walks and their lists                                                   *)

\* No credential is twice in what a walk has left to try.
NoneTwice(s) == \A i, j \in 1..Len(s) : s[i] = s[j] => i = j
Distinct == \A w \in Walkers : walk[w] # Idle => NoneTwice(walk[w].list)

LEMMA WalkShape ==
    ASSUME TypeOK, NEW w \in Walkers, walk[w] # Idle
    PROVE  /\ walk[w].at \in {"dialing", "answered"}
           /\ walk[w].ident \in Idents
           /\ walk[w].list \in Seq(Creds) /\ walk[w].list # <<>>
           /\ walk[w].at = "answered" => walk[w].outcome \in Outcomes
<1>1. walk[w] \in [at : {"dialing"}, ident : Idents, list : Seq(Creds) \ {<<>>}]
         \cup [at : {"answered"}, ident : Idents, list : Seq(Creds) \ {<<>>},
               outcome : Outcomes]
  BY DEF TypeOK
<1> QED
  BY <1>1

LEMMA AtWork ==
    ASSUME NEW w \in Walkers, walk[w].at \in {"dialing", "answered"}
    PROVE  walk[w] # Idle
BY DEF Idle

\* Eligible credentials are finitely many credentials of the vault.
LEMMA EligibleType ==
    ASSUME NEW d \in Idents
    PROVE  /\ Eligible(d) \subseteq Creds
           /\ IsFiniteSet(Eligible(d)) /\ Cardinality(Eligible(d)) \in Nat
<1>1. Eligible(d) \in SUBSET Creds
  BY CredResolverAssumption DEF Eligible
<1>2. IsFiniteSet(Eligible(d))
  BY <1>1, CredResolverAssumption, FS_Subset
<1> QED
  BY <1>1, <1>2, FS_CardinalityType

\* What Resolve returns: eligible credentials, none of them twice.
LEMMA ResolvedList ==
    ASSUME NEW d \in Idents, NEW s \in Orders(d), s # <<>>
    PROVE  /\ Capped(s) \in Seq(Creds) /\ Capped(s) # <<>>
           /\ CredsIn(Capped(s)) \subseteq Eligible(d)
           /\ NoneTwice(Capped(s))
<1> DEFINE n == Cardinality(Eligible(d))
<1>1. n \in Nat /\ Eligible(d) \subseteq Creds
  BY EligibleType
<1>2. s \in [1..n -> Eligible(d)] /\ Ascending(d, s)
  BY DEF Orders
<1> HIDE DEF n
<1>3. s \in Seq(Eligible(d)) /\ Len(s) = n /\ DOMAIN s = 1..n
  BY <1>1, <1>2
<1>4. n > 0
  BY <1>1, <1>3
<1>5. ASSUME NEW c \in Creds
      PROVE  Place(d, c) \in Nat
  BY <1>5, CredResolverAssumption DEF Place
<1>6. NoneTwice(s)
  <2> SUFFICES ASSUME NEW i \in 1..n, NEW j \in 1..n, s[i] = s[j], i # j
               PROVE  FALSE
    BY <1>3 DEF NoneTwice
  <2>1. Place(d, s[i]) \in Nat /\ Place(d, s[i]) = Place(d, s[j])
    BY <1>1, <1>2, <1>5
  <2>2. i < j \/ j < i
    BY <1>1
  <2>3. Place(d, s[i]) < Place(d, s[j]) \/ Place(d, s[j]) < Place(d, s[i])
    BY <1>2, <1>3, <2>2 DEF Ascending
  <2> QED
    BY <2>1, <2>3
<1>7. CASE MaxPerHost > 0 /\ Len(s) > MaxPerHost
  <2>1. MaxPerHost \in 1..n
    BY <1>1, <1>3, <1>7, CredResolverAssumption
  <2>2. Capped(s) = SubSeq(s, 1, MaxPerHost)
    BY <1>7 DEF Capped
  <2>3. /\ SubSeq(s, 1, MaxPerHost) \in Seq(Eligible(d))
        /\ Len(SubSeq(s, 1, MaxPerHost)) = MaxPerHost
        /\ \A i \in 1..MaxPerHost : SubSeq(s, 1, MaxPerHost)[i] = s[i]
    BY <1>1, <1>3, <2>1
  <2>4. Capped(s) \in Seq(Creds) /\ Capped(s) # <<>>
    BY <1>1, <2>1, <2>2, <2>3
  <2>5. NoneTwice(Capped(s))
    BY <1>1, <1>3, <1>6, <2>1, <2>2, <2>3 DEF NoneTwice
  <2>6. CredsIn(Capped(s)) \subseteq Eligible(d)
    BY <2>2, <2>3 DEF CredsIn
  <2> QED
    BY <2>4, <2>5, <2>6
<1>8. CASE ~(MaxPerHost > 0 /\ Len(s) > MaxPerHost)
  <2>1. Capped(s) = s
    BY <1>8 DEF Capped
  <2>2. s \in Seq(Creds)
    BY <1>1, <1>3
  <2>3. CredsIn(s) \subseteq Eligible(d)
    BY <1>3 DEF CredsIn
  <2> QED
    BY <1>6, <2>1, <2>2, <2>3
<1> QED
  BY <1>7, <1>8

\* Going on to the next candidate leaves the list one shorter.
LEMMA TailOfList ==
    ASSUME NEW s \in Seq(Creds), s # <<>>, NoneTwice(s)
    PROVE  /\ Head(s) \in Creds /\ Head(s) \in CredsIn(s)
           /\ Tail(s) \in Seq(Creds)
           /\ CredsIn(Tail(s)) \subseteq CredsIn(s) \ {Head(s)}
           /\ NoneTwice(Tail(s))
<1>1. Len(s) \in Nat /\ Len(s) > 0 /\ Head(s) = s[1] /\ 1 \in 1..Len(s)
  OBVIOUS
<1>2. /\ Tail(s) \in Seq(Creds) /\ Len(Tail(s)) = Len(s) - 1
      /\ \A i \in 1..Len(Tail(s)) : Tail(s)[i] = s[i + 1] /\ i + 1 \in 1..Len(s) /\ i + 1 # 1
  BY <1>1
<1>3. CredsIn(Tail(s)) \subseteq CredsIn(s) \ {Head(s)}
  BY <1>1, <1>2 DEF CredsIn, NoneTwice
<1>4. NoneTwice(Tail(s))
  BY <1>1, <1>2 DEF NoneTwice
<1> QED
  BY <1>1, <1>2, <1>3, <1>4 DEF CredsIn

-----------------------------------------------------------------------------
(* Types                                                                   *)

TypeInv == TypeOK /\ Distinct

LEMMA TypeInit == Init => TypeInv
<1> SUFFICES ASSUME Init PROVE TypeInv
  OBVIOUS
<1>1. \A w \in Walkers : walk[w] = Idle
  BY DEF Init
<1>2. TypeOK
  BY CredResolverAssumption DEF Init, TypeOK
<1> QED
  BY <1>1, <1>2 DEF TypeInv, Distinct

\* What any report leaves behind has its type.
LEMMA ReportTypes ==
    ASSUME TypeOK, NEW d \in Idents, NEW c \in Creds, NEW o \in Outcomes, Report(d, c, o)
    PROVE  /\ promoted' \in Creds \cup {NoCred}
           /\ negative' \in [Idents -> SUBSET Creds]
           /\ rejects' \in [Creds -> SUBSET Idents]
           /\ parked' \in SUBSET Creds
           /\ pin' \in [Records -> Creds \cup {NoCred}]
           /\ refused' \in [Idents -> [Creds -> Nat]]
<1>1. CASE ReportSuccess(d, c)
  BY <1>1, CredResolverAssumption DEF ReportSuccess, TypeOK
<1>2. CASE ReportRejected(d, c)
  <2>1. refused' \in [Idents -> [Creds -> Nat]]
    <3>1. refused[d] \in [Creds -> Nat] /\ refused[d][c] + 1 \in Nat
      BY DEF TypeOK
    <3>2. refused' = [refused EXCEPT ![d] = [refused[d] EXCEPT ![c] = refused[d][c] + 1]]
      BY <1>2 DEF ReportRejected
    <3> QED
      BY <3>1, <3>2 DEF TypeOK
  <2>2. negative' \in [Idents -> SUBSET Creds] /\ rejects' \in [Creds -> SUBSET Idents]
    BY <1>2 DEF ReportRejected, TypeOK
  <2>3. parked' \in SUBSET Creds
    BY <1>2 DEF ReportRejected, TypeOK
  <2>4. pin' \in [Records -> Creds \cup {NoCred}] /\ promoted' \in Creds \cup {NoCred}
    BY <1>2 DEF ReportRejected, TypeOK
  <2> QED
    BY <2>1, <2>2, <2>3, <2>4
<1>3. CASE ReportKeyMaterial(c)
  BY <1>3 DEF ReportKeyMaterial, TypeOK
<1>4. CASE Inconclusive
  BY <1>4 DEF Inconclusive, learned, TypeOK
<1> QED
  BY <1>1, <1>2, <1>3, <1>4 DEF Report

LEMMA TypeStep ==
    ASSUME TypeInv, [Next]_vars
    PROVE  TypeInv'
<1> USE DEF TypeInv
<1>1. ASSUME NEW w \in Walkers, NEW d \in Idents, Resolve(w, d)
      PROVE  TypeInv'
  <2>1. PICK s \in Orders(d) :
          /\ s # <<>>
          /\ walk' = [walk EXCEPT ![w] = [at |-> "dialing", ident |-> d, list |-> Capped(s)]]
    BY <1>1 DEF Resolve
  <2>2. Capped(s) \in Seq(Creds) \ {<<>>} /\ NoneTwice(Capped(s))
    BY <2>1, ResolvedList
  <2>3. walks' \in 0..MaxWalks
    BY <1>1, CredResolverAssumption DEF Resolve, Begin, TypeOK
  <2>4. TypeOK'
    BY <1>1, <2>1, <2>2, <2>3 DEF Resolve, learned, TypeOK
  <2>5. Distinct'
    BY <2>1, <2>2 DEF Distinct, TypeOK
  <2> QED
    BY <2>4, <2>5
<1>2. ASSUME NEW w \in Walkers, ResolveNone(w)
      PROVE  TypeInv'
  <2>1. walks' \in 0..MaxWalks
    BY <1>2, CredResolverAssumption DEF ResolveNone, Begin, TypeOK
  <2> QED
    BY <1>2, <2>1 DEF ResolveNone, learned, TypeOK, Distinct
<1>3. ASSUME NEW w \in Walkers, Dial(w)
      PROVE  TypeInv'
  <2>1. walk[w] # Idle
    BY <1>3 DEF Dial, Idle
  <2>2. /\ walk[w].ident \in Idents
        /\ walk[w].list \in Seq(Creds) \ {<<>>} /\ NoneTwice(walk[w].list)
    BY <2>1, WalkShape DEF Distinct
  <2>3. Head(walk[w].list) \in Creds
    BY <2>2, TailOfList
  <2>4. Answers[walk[w].ident][Head(walk[w].list)] \subseteq Outcomes
    BY <2>2, <2>3, CredResolverAssumption
  <2>5. PICK o \in Outcomes :
          walk' = [walk EXCEPT ![w] = [at |-> "answered", ident |-> walk[w].ident,
                                       list |-> walk[w].list, outcome |-> o]]
    BY <1>3, <2>4 DEF Dial
  <2>6. TypeOK'
    BY <1>3, <2>2, <2>5 DEF Dial, learned, TypeOK
  <2>7. Distinct'
    BY <2>2, <2>5 DEF Distinct, TypeOK
  <2> QED
    BY <2>6, <2>7
<1>4. ASSUME NEW w \in Walkers, NextCandidate(w) \/ Return(w)
      PROVE  TypeInv'
  <2>1. walk[w] # Idle /\ walk[w].at = "answered"
    BY <1>4 DEF NextCandidate, Return, Idle
  <2>2. /\ walk[w].ident \in Idents /\ walk[w].outcome \in Outcomes
        /\ walk[w].list \in Seq(Creds) \ {<<>>} /\ NoneTwice(walk[w].list)
    BY <2>1, WalkShape DEF Distinct
  <2>3. /\ Head(walk[w].list) \in Creds /\ Tail(walk[w].list) \in Seq(Creds)
        /\ NoneTwice(Tail(walk[w].list))
    BY <2>2, TailOfList
  <2>4. Report(walk[w].ident, Head(walk[w].list), walk[w].outcome)
    BY <1>4 DEF NextCandidate, Return
  <2>5. /\ promoted' \in Creds \cup {NoCred}
        /\ negative' \in [Idents -> SUBSET Creds]
        /\ rejects' \in [Creds -> SUBSET Idents]
        /\ parked' \in SUBSET Creds
        /\ pin' \in [Records -> Creds \cup {NoCred}]
        /\ refused' \in [Idents -> [Creds -> Nat]]
    BY <2>2, <2>3, <2>4, ReportTypes
  <2>6. CASE NextCandidate(w)
    <3>1. TypeOK'
      BY <2>2, <2>3, <2>5, <2>6 DEF NextCandidate, TypeOK
    <3>2. Distinct'
      BY <2>3, <2>6 DEF NextCandidate, Distinct, TypeOK
    <3> QED
      BY <3>1, <3>2
  <2>7. CASE Return(w)
    <3>1. TypeOK'
      BY <2>2, <2>5, <2>7 DEF Return, TypeOK
    <3>2. Distinct'
      BY <2>7 DEF Return, Distinct, TypeOK
    <3> QED
      BY <3>1, <3>2
  <2> QED
    BY <1>4, <2>6, <2>7
<1>5. CASE ResetRun
  <2>1. resets' \in 0..MaxResets
    BY <1>5, CredResolverAssumption DEF ResetRun, TypeOK
  <2> QED
    BY <1>5, <2>1 DEF ResetRun, TypeOK, Distinct
<1>6. CASE UNCHANGED vars
  BY <1>6 DEF vars, TypeOK, Distinct
<1> QED
  BY <1>1, <1>2, <1>3, <1>4, <1>5, <1>6 DEF Next, WalkStep, Rest

\* Every variable of the resolver keeps its type, and no walk ever has an
\* empty list to dial from.  (Walk.)
THEOREM CredTypeOK == Spec => []TypeOK
<1>1. TypeInv /\ [Next]_vars => TypeInv'
  BY TypeStep
<1>2. TypeInv => TypeOK
  BY DEF TypeInv
<1> QED
  BY TypeInit, <1>1, <1>2, PTL DEF Spec

-----------------------------------------------------------------------------
(* Who still holds a credential                                            *)

LEMMA HoldersFinite ==
    ASSUME NEW d, NEW c
    PROVE  /\ IsFiniteSet(Holders(c)) /\ IsFiniteSet(HoldersAt(d, c))
           /\ Cardinality(Holders(c)) \in 0..Cardinality(Walkers)
           /\ Cardinality(HoldersAt(d, c)) \in 0..Cardinality(Walkers)
           /\ Cardinality(Walkers) \in Nat
<1>1. Holders(c) \in SUBSET Walkers /\ HoldersAt(d, c) \in SUBSET Walkers
  BY DEF Holders, HoldersAt
<1>2. /\ IsFiniteSet(Holders(c)) /\ IsFiniteSet(HoldersAt(d, c))
      /\ Cardinality(Holders(c)) <= Cardinality(Walkers)
      /\ Cardinality(HoldersAt(d, c)) <= Cardinality(Walkers)
  BY <1>1, CredResolverAssumption, FS_Subset
<1>3. /\ Cardinality(Walkers) \in Nat /\ Cardinality(Holders(c)) \in Nat
      /\ Cardinality(HoldersAt(d, c)) \in Nat
  BY <1>2, CredResolverAssumption, FS_CardinalityType
<1> QED
  BY <1>2, <1>3

\* A smaller set counts no more, and one without a member of it fewer.
LEMMA CountsLess ==
    ASSUME NEW S, IsFiniteSet(S), NEW T \in SUBSET S
    PROVE  /\ Cardinality(T) \in Nat /\ Cardinality(S) \in Nat
           /\ Cardinality(T) <= Cardinality(S)
           /\ \A x \in S \ T : Cardinality(T) <= Cardinality(S) - 1
<1>1. IsFiniteSet(T) /\ Cardinality(T) <= Cardinality(S)
  BY FS_Subset
<1>2. Cardinality(T) \in Nat /\ Cardinality(S) \in Nat
  BY <1>1, FS_CardinalityType
<1>3. ASSUME NEW x \in S \ T
      PROVE  Cardinality(T) <= Cardinality(S) - 1
  <2>1. Cardinality(S) # Cardinality(T)
    BY <1>3, FS_Subset
  <2> QED
    BY <1>1, <1>2, <2>1
<1> QED
  BY <1>1, <1>2, <1>3

\* Resolving hands out nothing that is parked, nor anything this device has
\* refused.  (Resolve.)
LEMMA ResolveHolders ==
    ASSUME TypeInv, NEW w \in Walkers, NEW d \in Idents, Resolve(w, d), NEW c \in Creds
    PROVE  /\ c \in parked => Holders(c)' \subseteq Holders(c)
           /\ \A e \in Idents :
                 c \in negative[e] => HoldersAt(e, c)' \subseteq HoldersAt(e, c)
<1>1. PICK s \in Orders(d) :
        /\ s # <<>>
        /\ walk' = [walk EXCEPT ![w] = [at |-> "dialing", ident |-> d, list |-> Capped(s)]]
  BY DEF Resolve
<1>2. CredsIn(Capped(s)) \subseteq Eligible(d)
  BY <1>1, ResolvedList
<1>3. \A v \in Walkers : v # w => walk'[v] = walk[v]
  BY <1>1 DEF TypeInv, TypeOK
<1>4. walk'[w].ident = d /\ CredsIn(walk'[w].list) \subseteq Eligible(d)
  BY <1>1, <1>2 DEF TypeInv, TypeOK
<1>5. c \in Eligible(d) => c \notin parked /\ c \notin negative[d]
  BY DEF Eligible
<1> QED
  BY <1>3, <1>4, <1>5 DEF Holders, HoldersAt

\* A report lets go of the credential it is about.  (Walk.)
LEMMA ReportHolders ==
    ASSUME TypeInv, NEW w \in Walkers, NextCandidate(w) \/ Return(w)
    PROVE  \E d \in Idents, c \in Creds, o \in Outcomes :
             /\ Report(d, c, o)
             /\ w \in Holders(c) \ Holders(c)' /\ w \in HoldersAt(d, c) \ HoldersAt(d, c)'
             /\ \A k \in Creds : Holders(k)' \subseteq Holders(k)
             /\ \A k \in Creds, e \in Idents : HoldersAt(e, k)' \subseteq HoldersAt(e, k)
<1>1. walk[w] # Idle /\ walk[w].at = "answered"
  BY DEF NextCandidate, Return, Idle
<1>2. /\ walk[w].ident \in Idents /\ walk[w].outcome \in Outcomes
      /\ walk[w].list \in Seq(Creds) /\ walk[w].list # <<>> /\ NoneTwice(walk[w].list)
  BY <1>1, WalkShape DEF TypeInv, Distinct
<1>3. /\ Head(walk[w].list) \in Creds /\ Head(walk[w].list) \in CredsIn(walk[w].list)
      /\ CredsIn(Tail(walk[w].list)) \subseteq CredsIn(walk[w].list) \ {Head(walk[w].list)}
  BY <1>2, TailOfList
<1>4. \A v \in Walkers : v # w => walk'[v] = walk[v]
  BY DEF NextCandidate, Return, TypeInv, TypeOK
<1>5. \/ walk'[w] = Idle
      \/ walk'[w].ident = walk[w].ident /\ walk'[w].list = Tail(walk[w].list)
  <2>1. CASE NextCandidate(w)
    BY <2>1 DEF NextCandidate, TypeInv, TypeOK
  <2>2. CASE Return(w)
    BY <2>2 DEF Return, TypeInv, TypeOK
  <2> QED
    BY <2>1, <2>2
<1>6. PICK d \in Idents, c \in Creds, o \in Outcomes :
        /\ d = walk[w].ident /\ c = Head(walk[w].list) /\ o = walk[w].outcome
        /\ Report(d, c, o)
  <2>1. Report(walk[w].ident, Head(walk[w].list), walk[w].outcome)
    BY DEF NextCandidate, Return
  <2> QED
    BY <1>2, <1>3, <2>1
<1>7. \A k \in Creds : Holders(k)' \subseteq Holders(k)
  BY <1>1, <1>3, <1>4, <1>5 DEF Holders
<1>8. \A k \in Creds, e \in Idents : HoldersAt(e, k)' \subseteq HoldersAt(e, k)
  BY <1>1, <1>3, <1>4, <1>5 DEF Holders, HoldersAt
<1>9. w \in Holders(c) \ Holders(c)'
  BY <1>1, <1>3, <1>5, <1>6 DEF Holders
<1>10. w \in HoldersAt(d, c) \ HoldersAt(d, c)'
  BY <1>6, <1>9 DEF HoldersAt
<1> QED
  BY <1>6, <1>7, <1>8, <1>9, <1>10

\* Every other step leaves all lists alone.
LEMMA SameHolders ==
    ASSUME TypeInv,
           \/ \E w \in Walkers : ResolveNone(w) \/ Dial(w)
           \/ ResetRun
           \/ UNCHANGED vars
    PROVE  /\ \A c \in Creds : Holders(c)' = Holders(c)
           /\ \A c \in Creds, e \in Idents : HoldersAt(e, c)' = HoldersAt(e, c)
<1>1. CASE walk' = walk
  BY <1>1 DEF Holders, HoldersAt
<1>2. ASSUME NEW w \in Walkers, Dial(w)
      PROVE  /\ \A c \in Creds : Holders(c)' = Holders(c)
             /\ \A c \in Creds, e \in Idents : HoldersAt(e, c)' = HoldersAt(e, c)
  <2>1. walk[w] # Idle
    BY <1>2 DEF Dial, Idle
  <2>2. /\ walk'[w] # Idle
        /\ walk'[w].ident = walk[w].ident /\ walk'[w].list = walk[w].list
        /\ \A v \in Walkers : v # w => walk'[v] = walk[v]
    BY <1>2 DEF Dial, Idle, TypeInv, TypeOK
  <2> QED
    BY <2>1, <2>2 DEF Holders, HoldersAt
<1> QED
  BY <1>1, <1>2 DEF ResolveNone, ResetRun, vars

-----------------------------------------------------------------------------
(* The breaker                                                             *)

\* A credential that is not parked has stayed below the threshold; one that is
\* can only be refused by walks that hold it already, and each once.
BreakerInv ==
    BreakerThreshold > 0 =>
        \A c \in Creds :
            /\ c \notin parked => Cardinality(rejects[c]) < BreakerThreshold
            /\ c \in parked => Cardinality(rejects[c]) + Cardinality(Holders(c))
                                 < BreakerThreshold + Cardinality(Walkers)

LEMMA RejectsFinite ==
    ASSUME TypeOK, NEW c \in Creds
    PROVE  /\ IsFiniteSet(rejects[c]) /\ Cardinality(rejects[c]) \in Nat
           /\ \A d \in Idents :
                /\ Cardinality(rejects[c] \cup {d}) \in Nat
                /\ Cardinality(rejects[c] \cup {d}) <= Cardinality(rejects[c]) + 1
<1>1. IsFiniteSet(rejects[c])
  BY CredResolverAssumption, FS_Subset DEF TypeOK
<1>2. Cardinality(rejects[c]) \in Nat
  BY <1>1, FS_CardinalityType
<1>3. \A d \in Idents : Cardinality(rejects[c] \cup {d})
        = IF d \in rejects[c] THEN Cardinality(rejects[c]) ELSE Cardinality(rejects[c]) + 1
  BY <1>1, FS_AddElement
<1> QED
  BY <1>1, <1>2, <1>3

LEMMA BreakerReport ==
    ASSUME TypeInv, BreakerInv, BreakerThreshold > 0,
           NEW w \in Walkers, NextCandidate(w) \/ Return(w), NEW k \in Creds
    PROVE  /\ k \notin parked' => Cardinality(rejects'[k]) < BreakerThreshold
           /\ k \in parked' => Cardinality(rejects'[k]) + Cardinality(Holders(k)')
                                 < BreakerThreshold + Cardinality(Walkers)
<1> USE DEF TypeInv
<1>1. PICK d \in Idents, c \in Creds, o \in Outcomes :
        /\ Report(d, c, o)
        /\ w \in Holders(c) \ Holders(c)'
        /\ \A l \in Creds : Holders(l)' \subseteq Holders(l)
  BY ReportHolders
<1> DEFINE r == Cardinality(rejects[k])
           h == Cardinality(Holders(k))
           g == Cardinality(Holders(k)')
           W == Cardinality(Walkers)
<1>2. /\ h \in Nat /\ g \in Nat /\ W \in Nat /\ r \in Nat /\ BreakerThreshold \in Int
      /\ h <= W /\ g <= h
      /\ k = c => g <= h - 1
  <2>1. IsFiniteSet(Holders(k)) /\ h \in 0..W /\ W \in Nat
    BY HoldersFinite
  <2>2. g \in Nat /\ g <= h
    BY <1>1, <2>1, CountsLess
  <2>3. k = c => w \in Holders(k) \ Holders(k)'
    BY <1>1
  <2>4. k = c => g <= h - 1
    BY <1>1, <2>1, <2>3, CountsLess
  <2> QED
    BY <2>1, <2>2, <2>4, RejectsFinite, CredResolverAssumption
<1>3. /\ k \notin parked => r < BreakerThreshold
      /\ k \in parked => r + h < BreakerThreshold + W
  BY DEF BreakerInv
<1>4. CASE ReportSuccess(d, c)
  <2>1. parked' = parked /\ (rejects'[k] = rejects[k] \/ rejects'[k] = {})
    BY <1>4 DEF ReportSuccess, TypeOK
  <2>2. Cardinality(rejects'[k]) \in Nat /\ Cardinality(rejects'[k]) <= r
    <3>1. CASE rejects'[k] = rejects[k]
      <4>1. Cardinality(rejects'[k]) = r
        BY <3>1
      <4> HIDE DEF r
      <4> QED
        BY <1>2, <4>1
    <3>2. CASE rejects'[k] = {}
      <4>1. Cardinality(rejects'[k]) = 0
        BY <3>2, FS_EmptySet
      <4> HIDE DEF r
      <4> QED
        BY <1>2, <4>1
    <3> QED
      BY <2>1, <3>1, <3>2
  <2> HIDE DEF r, h, g, W
  <2> QED
    BY <1>2, <1>3, <2>1, <2>2 DEF g, W
<1>5. CASE ReportRejected(d, c)
  <2>1. CASE k = c
    <3>1. rejects'[k] = rejects[k] \cup {d}
      BY <1>5, <2>1 DEF ReportRejected, TypeOK
    <3>2. Cardinality(rejects'[k]) \in Nat /\ Cardinality(rejects'[k]) <= r + 1
      BY <3>1, RejectsFinite
    <3>3. /\ k \in parked => k \in parked'
          /\ k \notin parked => (k \in parked' <=> Cardinality(rejects'[k]) >= BreakerThreshold)
      BY <1>5, <2>1 DEF ReportRejected, TypeOK
    <3> HIDE DEF r, h, g, W
    <3> QED
      BY <1>2, <1>3, <2>1, <3>2, <3>3 DEF g, W
  <2>2. CASE k # c
    <3>1. rejects'[k] = rejects[k] /\ (k \in parked' <=> k \in parked)
      BY <1>5, <2>2 DEF ReportRejected, TypeOK
    <3>2. Cardinality(rejects'[k]) = r
      BY <3>1
    <3> HIDE DEF r, h, g, W
    <3> QED
      BY <1>2, <1>3, <3>1, <3>2 DEF g, W
  <2> QED
    BY <2>1, <2>2
<1>6. CASE ReportKeyMaterial(c) \/ Inconclusive
  <2>1. /\ rejects' = rejects
        /\ k \in parked' => k \in parked \/ k = c
        /\ k \notin parked' => k \notin parked
    BY <1>6 DEF ReportKeyMaterial, Inconclusive, learned
  <2>2. Cardinality(rejects'[k]) = r
    BY <2>1
  <2> HIDE DEF r, h, g, W
  <2> QED
    BY <1>2, <1>3, <2>1, <2>2 DEF g, W
<1> QED
  BY <1>1, <1>4, <1>5, <1>6 DEF Report

LEMMA BreakerStep ==
    ASSUME TypeInv, BreakerInv, [Next]_vars
    PROVE  BreakerInv'
<1> SUFFICES ASSUME BreakerThreshold > 0, NEW k \in Creds
             PROVE  /\ k \notin parked' => Cardinality(rejects'[k]) < BreakerThreshold
                    /\ k \in parked' => Cardinality(rejects'[k]) + Cardinality(Holders(k)')
                                          < BreakerThreshold + Cardinality(Walkers)
  BY DEF BreakerInv
<1>1. /\ k \notin parked => Cardinality(rejects[k]) < BreakerThreshold
      /\ k \in parked => Cardinality(rejects[k]) + Cardinality(Holders(k))
                           < BreakerThreshold + Cardinality(Walkers)
  BY DEF BreakerInv
<1>2. ASSUME NEW w \in Walkers, NEW d \in Idents, Resolve(w, d)
      PROVE  /\ k \notin parked' => Cardinality(rejects'[k]) < BreakerThreshold
             /\ k \in parked' => Cardinality(rejects'[k]) + Cardinality(Holders(k)')
                                   < BreakerThreshold + Cardinality(Walkers)
  <2>1. rejects' = rejects /\ parked' = parked
    BY <1>2 DEF Resolve, learned
  <2>2. CASE k \in parked
    <3>1. Holders(k)' \subseteq Holders(k)
      BY <1>2, <2>2, ResolveHolders
    <3>2. IsFiniteSet(Holders(k)) /\ Cardinality(Walkers) \in Nat
      BY HoldersFinite
    <3>3. /\ Cardinality(Holders(k)') \in Nat /\ Cardinality(Holders(k)) \in Nat
          /\ Cardinality(Holders(k)') <= Cardinality(Holders(k))
      BY <3>1, <3>2, CountsLess
    <3>4. Cardinality(rejects[k]) \in Nat /\ BreakerThreshold \in Int
      BY RejectsFinite, CredResolverAssumption DEF TypeInv
    <3> QED
      BY <1>1, <2>1, <2>2, <3>2, <3>3, <3>4
  <2>3. CASE k \notin parked
    BY <1>1, <2>1, <2>3
  <2> QED
    BY <2>2, <2>3
<1>3. ASSUME NEW w \in Walkers, NextCandidate(w) \/ Return(w)
      PROVE  /\ k \notin parked' => Cardinality(rejects'[k]) < BreakerThreshold
             /\ k \in parked' => Cardinality(rejects'[k]) + Cardinality(Holders(k)')
                                   < BreakerThreshold + Cardinality(Walkers)
  BY <1>3, BreakerReport
<1>4. CASE ResetRun
  <2>1. parked' = {} /\ rejects'[k] = {}
    BY <1>4 DEF ResetRun
  <2>2. Cardinality(rejects'[k]) = 0
    BY <2>1, FS_EmptySet
  <2> QED
    BY <2>1, <2>2
<1>5. CASE (\E w \in Walkers : ResolveNone(w) \/ Dial(w)) \/ UNCHANGED vars
  <2>1. Holders(k)' = Holders(k)
    BY <1>5, SameHolders
  <2>2. rejects' = rejects /\ parked' = parked
    BY <1>5 DEF ResolveNone, Dial, learned, vars
  <2> QED
    BY <1>1, <2>1, <2>2
<1> QED
  BY <1>2, <1>3, <1>4, <1>5 DEF Next, WalkStep, Rest

\* The lockout guard: a credential is refused by fewer distinct devices,
\* between two of its logins, than the threshold plus the number of goroutines
\* -- however many devices there are and whatever they answer.  (Report.)
THEOREM CredLockoutBound == Spec => []LockoutBound
<1>1. Init => TypeInv /\ BreakerInv
  <2> SUFFICES ASSUME Init PROVE BreakerInv
    BY TypeInit
  <2>1. \A c \in Creds : c \notin parked /\ Cardinality(rejects[c]) = 0
    BY FS_EmptySet DEF Init
  <2> QED
    BY <2>1 DEF BreakerInv
<1>2. TypeInv /\ BreakerInv /\ [Next]_vars => (TypeInv /\ BreakerInv)'
  BY TypeStep, BreakerStep
<1>3. TypeInv /\ BreakerInv => LockoutBound
  <2> SUFFICES ASSUME TypeInv, BreakerInv, BreakerThreshold > 0, NEW c \in Creds
               PROVE  Cardinality(rejects[c]) < BreakerThreshold + Cardinality(Walkers)
    BY DEF LockoutBound
  <2>1. /\ Cardinality(rejects[c]) \in Nat /\ BreakerThreshold \in Int
        /\ Cardinality(Walkers) \in Nat /\ Cardinality(Holders(c)) \in Nat
    <3>1. Cardinality(Walkers) \in Nat /\ Cardinality(Holders(c)) \in 0..Cardinality(Walkers)
      BY HoldersFinite
    <3> QED
      BY <3>1, RejectsFinite, CredResolverAssumption DEF TypeInv
  <2>2. CASE c \in parked
    BY <2>1, <2>2 DEF BreakerInv
  <2>3. CASE c \notin parked
    BY <2>1, <2>3 DEF BreakerInv
  <2> QED
    BY <2>2, <2>3
<1> QED
  BY <1>1, <1>2, <1>3, PTL DEF Spec

-----------------------------------------------------------------------------
(* The negative cache                                                      *)

\* What a device has refused since it last let somebody in is what it is not
\* offered; walks that resolved before can repeat a refusal, each once.
RepeatInv ==
    \A d \in Idents, c \in Creds :
        /\ c \notin negative[d] => refused[d][c] = 0
        /\ c \in negative[d] =>
              refused[d][c] + Cardinality(HoldersAt(d, c)) <= Cardinality(Walkers)

LEMMA RepeatReport ==
    ASSUME TypeInv, RepeatInv, NEW w \in Walkers, NextCandidate(w) \/ Return(w),
           NEW e \in Idents, NEW k \in Creds
    PROVE  /\ k \notin negative'[e] => refused'[e][k] = 0
           /\ k \in negative'[e] =>
                refused'[e][k] + Cardinality(HoldersAt(e, k)') <= Cardinality(Walkers)
<1>1. PICK d \in Idents, c \in Creds, o \in Outcomes :
        /\ Report(d, c, o)
        /\ w \in HoldersAt(d, c) \ HoldersAt(d, c)'
        /\ \A l \in Creds, i \in Idents : HoldersAt(i, l)' \subseteq HoldersAt(i, l)
  BY ReportHolders
<1> DEFINE n == refused[e][k]
           h == Cardinality(HoldersAt(e, k))
           g == Cardinality(HoldersAt(e, k)')
           W == Cardinality(Walkers)
<1>2. /\ h \in Nat /\ g \in Nat /\ W \in Nat /\ n \in Nat
      /\ h <= W /\ g <= h
      /\ e = d /\ k = c => g <= h - 1
  <2>1. IsFiniteSet(HoldersAt(e, k)) /\ h \in 0..W /\ W \in Nat
    BY HoldersFinite
  <2>2. g \in Nat /\ g <= h
    BY <1>1, <2>1, CountsLess
  <2>3. e = d /\ k = c => w \in HoldersAt(e, k) \ HoldersAt(e, k)'
    BY <1>1
  <2>4. e = d /\ k = c => g <= h - 1
    BY <1>1, <2>1, <2>3, CountsLess
  <2>5. n \in Nat
    BY DEF TypeInv, TypeOK
  <2> QED
    BY <2>1, <2>2, <2>4, <2>5
<1>3. /\ k \notin negative[e] => n = 0
      /\ k \in negative[e] => n + h <= W
  BY DEF RepeatInv
<1>4. CASE ReportSuccess(d, c)
  <2>1. CASE e = d
    BY <1>4, <2>1 DEF ReportSuccess, TypeInv, TypeOK
  <2>2. CASE e # d
    <3>1. negative'[e] = negative[e] /\ refused'[e][k] = n
      BY <1>4, <2>2 DEF ReportSuccess, TypeInv, TypeOK
    <3> HIDE DEF n, h, g, W
    <3> QED
      BY <1>2, <1>3, <3>1 DEF g, W
  <2> QED
    BY <2>1, <2>2
<1>5. CASE ReportRejected(d, c)
  <2>1. CASE e = d /\ k = c
    <3>1. refused'[e][k] = n + 1 /\ k \in negative'[e]
      <4>1. refused[d] \in [Creds -> Nat]
        BY DEF TypeInv, TypeOK
      <4>2. refused' = [refused EXCEPT ![d] = [refused[d] EXCEPT ![c] = refused[d][c] + 1]]
        BY <1>5 DEF ReportRejected
      <4>3. refused'[d] = [refused[d] EXCEPT ![c] = refused[d][c] + 1]
        BY <4>2 DEF TypeInv, TypeOK
      <4>4. refused'[d][c] = refused[d][c] + 1
        BY <4>1, <4>3
      <4>5. c \in negative'[d]
        BY <1>5 DEF ReportRejected, TypeInv, TypeOK
      <4> QED
        BY <2>1, <4>4, <4>5
    <3> HIDE DEF n, h, g, W
    <3> QED
      BY <1>2, <1>3, <2>1, <3>1 DEF g, W
  <2>2. CASE ~(e = d /\ k = c)
    <3>1. refused'[e][k] = n
      <4>1. refused[d] \in [Creds -> Nat]
        BY DEF TypeInv, TypeOK
      <4>2. refused' = [refused EXCEPT ![d] = [refused[d] EXCEPT ![c] = refused[d][c] + 1]]
        BY <1>5 DEF ReportRejected
      <4>3. e # d => refused'[e] = refused[e]
        BY <4>2 DEF TypeInv, TypeOK
      <4>4. refused'[d] = [refused[d] EXCEPT ![c] = refused[d][c] + 1]
        BY <4>2 DEF TypeInv, TypeOK
      <4>5. e = d => refused'[e][k] = refused[e][k]
        BY <2>2, <4>1, <4>4
      <4> QED
        BY <4>3, <4>5
    <3>2. k \in negative'[e] <=> k \in negative[e]
      BY <1>5, <2>2 DEF ReportRejected, TypeInv, TypeOK
    <3> HIDE DEF n, h, g, W
    <3> QED
      BY <1>2, <1>3, <3>1, <3>2 DEF g, W
  <2> QED
    BY <2>1, <2>2
<1>6. CASE ReportKeyMaterial(c) \/ Inconclusive
  <2>1. negative' = negative /\ refused' = refused
    BY <1>6 DEF ReportKeyMaterial, Inconclusive, learned
  <2>2. refused'[e][k] = n
    BY <2>1
  <2> HIDE DEF n, h, g, W
  <2> QED
    BY <1>2, <1>3, <2>1, <2>2 DEF g, W
<1> QED
  BY <1>1, <1>4, <1>5, <1>6 DEF Report

LEMMA RepeatStep ==
    ASSUME TypeInv, RepeatInv, [Next]_vars
    PROVE  RepeatInv'
<1> SUFFICES ASSUME NEW e \in Idents, NEW k \in Creds
             PROVE  /\ k \notin negative'[e] => refused'[e][k] = 0
                    /\ k \in negative'[e] =>
                         refused'[e][k] + Cardinality(HoldersAt(e, k)') <= Cardinality(Walkers)
  BY DEF RepeatInv
<1>1. /\ k \notin negative[e] => refused[e][k] = 0
      /\ k \in negative[e] =>
           refused[e][k] + Cardinality(HoldersAt(e, k)) <= Cardinality(Walkers)
  BY DEF RepeatInv
<1>2. ASSUME NEW w \in Walkers, NEW d \in Idents, Resolve(w, d), k \in negative[e]
      PROVE  refused[e][k] + Cardinality(HoldersAt(e, k)') <= Cardinality(Walkers)
  <2>1. HoldersAt(e, k)' \subseteq HoldersAt(e, k)
    BY <1>2, ResolveHolders
  <2>2. IsFiniteSet(HoldersAt(e, k)) /\ Cardinality(Walkers) \in Nat
    BY HoldersFinite
  <2>3. /\ Cardinality(HoldersAt(e, k)') \in Nat /\ Cardinality(HoldersAt(e, k)) \in Nat
        /\ Cardinality(HoldersAt(e, k)') <= Cardinality(HoldersAt(e, k))
    BY <2>1, <2>2, CountsLess
  <2>4. refused[e][k] \in Nat
    BY DEF TypeInv, TypeOK
  <2> QED
    BY <1>1, <1>2, <2>2, <2>3, <2>4
<1>3. ASSUME NEW w \in Walkers, NEW d \in Idents, Resolve(w, d)
      PROVE  negative' = negative /\ refused' = refused
  BY <1>3 DEF Resolve, learned
<1>4. CASE ResetRun
  BY <1>4 DEF ResetRun
<1>5. CASE (\E w \in Walkers : ResolveNone(w) \/ Dial(w)) \/ UNCHANGED vars
  <2>1. HoldersAt(e, k)' = HoldersAt(e, k)
    BY <1>5, SameHolders
  <2>2. negative' = negative /\ refused' = refused
    BY <1>5 DEF ResolveNone, Dial, learned, vars
  <2> QED
    BY <1>1, <2>1, <2>2
<1>6. CASE \E w \in Walkers : NextCandidate(w) \/ Return(w)
  BY <1>6, RepeatReport
<1>7. CASE \E w \in Walkers, d \in Idents : Resolve(w, d)
  BY <1>1, <1>2, <1>3, <1>7
<1> QED
  BY <1>4, <1>5, <1>6, <1>7 DEF Next, WalkStep, Rest

\* One device refuses one credential at most once per goroutine between two
\* logins there.  (Resolve, Report.)
THEOREM CredRepeatsBounded == Spec => []RepeatsBounded
<1>1. Init => TypeInv /\ RepeatInv
  <2> SUFFICES ASSUME Init PROVE RepeatInv
    BY TypeInit
  <2> QED
    BY DEF Init, RepeatInv
<1>2. TypeInv /\ RepeatInv /\ [Next]_vars => (TypeInv /\ RepeatInv)'
  BY TypeStep, RepeatStep
<1>3. TypeInv /\ RepeatInv => RepeatsBounded
  <2> SUFFICES ASSUME TypeInv, RepeatInv, NEW d \in Idents, NEW c \in Creds
               PROVE  refused[d][c] <= Cardinality(Walkers)
    BY DEF RepeatsBounded
  <2>1. /\ Cardinality(HoldersAt(d, c)) \in 0..Cardinality(Walkers)
        /\ Cardinality(Walkers) \in Nat
    BY HoldersFinite
  <2>2. refused[d][c] \in Nat
    BY DEF TypeInv, TypeOK
  <2> QED
    BY <2>1, <2>2 DEF RepeatInv
<1> QED
  BY <1>1, <1>2, <1>3, PTL DEF Spec

-----------------------------------------------------------------------------
(* Pins                                                                    *)

LEMMA PinReport ==
    ASSUME TypeInv, PinNotRefused, NEW d \in Idents, NEW c \in Creds, NEW o \in Outcomes,
           Report(d, c, o)
    PROVE  PinNotRefused'
<1> USE DEF PinNotRefused, TypeInv, TypeOK
<1>1. \A e \in Idents : RecordOf[e] \in Records
  BY CredResolverAssumption
<1>2. CASE ReportSuccess(d, c)
  <2> SUFFICES ASSUME NEW a \in Idents, pin'[RecordOf[a]] # NoCred
               PROVE  \E e \in Idents : /\ RecordOf[e] = RecordOf[a]
                                        /\ pin'[RecordOf[a]] \notin negative'[e]
    OBVIOUS
  <2>1. CASE RecordOf[a] = RecordOf[d]
    <3>1. negative'[d] = {}
      BY <1>2 DEF ReportSuccess
    <3> QED
      BY <2>1, <3>1
  <2>2. CASE RecordOf[a] # RecordOf[d]
    <3>1. pin'[RecordOf[a]] = pin[RecordOf[a]]
      BY <1>1, <1>2, <2>2 DEF ReportSuccess
    <3>2. PICK e \in Idents : RecordOf[e] = RecordOf[a] /\ pin[RecordOf[a]] \notin negative[e]
      BY <3>1
    <3>3. negative'[e] = negative[e]
      BY <1>2, <2>2, <3>2 DEF ReportSuccess
    <3> QED
      BY <3>1, <3>2, <3>3
  <2> QED
    BY <2>1, <2>2
<1>3. CASE ReportRejected(d, c)
  <2> SUFFICES ASSUME NEW a \in Idents, pin'[RecordOf[a]] # NoCred
               PROVE  \E e \in Idents : /\ RecordOf[e] = RecordOf[a]
                                        /\ pin'[RecordOf[a]] \notin negative'[e]
    OBVIOUS
  <2>1. /\ pin'[RecordOf[a]] = pin[RecordOf[a]]
        /\ RecordOf[a] = RecordOf[d] => pin[RecordOf[a]] # c
    BY <1>1, <1>3 DEF ReportRejected
  <2>2. PICK e \in Idents : RecordOf[e] = RecordOf[a] /\ pin[RecordOf[a]] \notin negative[e]
    BY <2>1
  <2>3. negative'[e] = IF e = d THEN negative[e] \cup {c} ELSE negative[e]
    BY <1>3 DEF ReportRejected
  <2> QED
    BY <2>1, <2>2, <2>3
<1>4. CASE ReportKeyMaterial(c) \/ Inconclusive
  <2>1. pin' = pin /\ negative' = negative
    BY <1>4 DEF ReportKeyMaterial, Inconclusive, learned
  <2> QED
    BY <2>1
<1> QED
  BY <1>2, <1>3, <1>4 DEF Report

\* A learned pin is never a credential that every name of its device has
\* refused since, however the walks of the device overlap.  (Report.)
THEOREM CredPinNotRefused == Spec => []PinNotRefused
<1>1. Init => TypeInv /\ PinNotRefused
  <2> SUFFICES ASSUME Init PROVE PinNotRefused
    BY TypeInit
  <2> QED
    BY DEF Init, PinNotRefused
<1>2. ASSUME TypeInv, PinNotRefused, [Next]_vars
      PROVE  PinNotRefused'
  <2>1. CASE \E w \in Walkers : NextCandidate(w) \/ Return(w)
    BY <1>2, <2>1, ReportHolders, PinReport
  <2>2. CASE ResetRun
    BY <2>2 DEF ResetRun, PinNotRefused
  <2>3. CASE UNCHANGED <<pin, negative>>
    BY <1>2, <2>3 DEF PinNotRefused
  <2> QED
    BY <1>2, <2>1, <2>2, <2>3
    DEF Next, WalkStep, Rest, Resolve, ResolveNone, Dial, learned, vars
<1>3. TypeInv /\ PinNotRefused /\ [Next]_vars => (TypeInv /\ PinNotRefused)'
  BY <1>2, TypeStep
<1> QED
  BY <1>1, <1>3, PTL DEF Spec

\* A credential's refusals in one run are bounded by the breaker's threshold
\* and the walks in flight, on the whole estate and on each device.  (Resolve,
\* Report.)
THEOREM CredRefusalsBounded == Spec => []RefusalsBounded
<1>1. TypeOK /\ LockoutBound /\ RepeatsBounded => RefusalsBounded
  BY DEF RefusalsBounded
<1> QED
  BY <1>1, CredTypeOK, CredLockoutBound, CredRepeatsBounded, PTL

-----------------------------------------------------------------------------
(* Good logins                                                             *)

\* A walk tries what its device's scope holds, and every credential that
\* always opens a device nothing breaks off is still among what a walk of it
\* has left; what it heard, the device may answer.
Opens(d, c) == c \in InScope[d] /\ Blameless(c) /\ Answers[d][c] = {"Success"}
Hopeful(x) ==
    /\ CredsIn(x.list) \subseteq InScope[x.ident]
    /\ Welcoming(x.ident) => \A c \in Creds : Opens(x.ident, c) => c \in CredsIn(x.list)
    /\ x.at = "answered" => x.outcome \in Answers[x.ident][Head(x.list)]
HopeInv ==
    /\ NeverBlamed /\ LoginIsFound
    /\ \A w \in Walkers : walk[w] # Idle => Hopeful(walk[w])

\* A list of as many eligible credentials as there are, none twice, holds all.
LEMMA AllListed ==
    ASSUME NEW d \in Idents, NEW s \in Orders(d)
    PROVE  CredsIn(s) = Eligible(d) /\ Len(s) = Cardinality(Eligible(d))
<1> DEFINE E == Eligible(d)
           n == Cardinality(E)
<1>1. n \in Nat /\ E \subseteq Creds /\ IsFiniteSet(E)
  BY EligibleType
<1>2. s \in [1..n -> E] /\ Ascending(d, s)
  BY DEF Orders
<1>3. Cardinality(1..n) = n /\ IsFiniteSet(1..n)
  BY <1>1, FS_Interval
<1> HIDE DEF n
<1>4. Len(s) = n /\ DOMAIN s = 1..n
  BY <1>1, <1>2
<1>5. ASSUME NEW c \in Creds
      PROVE  Place(d, c) \in Nat
  BY <1>5, CredResolverAssumption DEF Place
<1>6. \A i, j \in 1..n : s[i] = s[j] => i = j
  <2> SUFFICES ASSUME NEW i \in 1..n, NEW j \in 1..n, s[i] = s[j], i # j
               PROVE  FALSE
    OBVIOUS
  <2>1. Place(d, s[i]) \in Nat /\ Place(d, s[i]) = Place(d, s[j])
    BY <1>1, <1>2, <1>5
  <2>2. i < j \/ j < i
    BY <1>1
  <2>3. Place(d, s[i]) < Place(d, s[j]) \/ Place(d, s[j]) < Place(d, s[i])
    BY <1>2, <1>4, <2>2 DEF Ascending
  <2> QED
    BY <2>1, <2>3
<1> HIDE DEF E
<1>7. s \in Injection(1..n, E)
  BY <1>2, <1>6 DEF Injection, IsInjective
<1>8. s \in Surjection(1..n, E)
  BY <1>1, <1>3, <1>7, FS_Injection DEF n
<1>9. \A c \in E : \E i \in 1..n : s[i] = c
  BY <1>8 DEF Surjection
<1>10. CredsIn(s) = E
  BY <1>2, <1>4, <1>9 DEF CredsIn
<1> QED
  BY <1>4, <1>10 DEF E, n

\* What a walk resolves holds every credential that opens its device.
LEMMA ResolvedHope ==
    ASSUME NeverBlamed, NEW d \in Idents, NEW s \in Orders(d), s # <<>>
    PROVE  /\ CredsIn(Capped(s)) \subseteq InScope[d]
           /\ Welcoming(d) => \A c \in Creds : Opens(d, c) => c \in CredsIn(Capped(s))
<1>1. CredsIn(Capped(s)) \subseteq InScope[d]
  BY ResolvedList DEF Eligible
<1>2. ASSUME Welcoming(d), NEW c \in Creds, Opens(d, c)
      PROVE  c \in CredsIn(Capped(s))
  <2>1. c \in Eligible(d)
    BY <1>2 DEF NeverBlamed, Opens, Eligible
  <2>2. c \in CredsIn(s) /\ Len(s) = Cardinality(Eligible(d))
    BY <2>1, AllListed
  <2>3. InScope[d] \in SUBSET Creds /\ IsFiniteSet(InScope[d])
    BY CredResolverAssumption, FS_Subset
  <2>4. Eligible(d) \subseteq InScope[d]
    BY DEF Eligible
  <2>5. Cardinality(Eligible(d)) <= Cardinality(InScope[d])
    BY <2>3, <2>4, FS_Subset
  <2>6. Cardinality(Eligible(d)) \in Nat /\ Cardinality(InScope[d]) \in Nat
    BY <2>3, EligibleType, FS_CardinalityType
  <2>7. ~(MaxPerHost > 0 /\ Len(s) > MaxPerHost)
    BY <1>2, <2>2, <2>5, <2>6, CredResolverAssumption DEF Welcoming
  <2>8. Capped(s) = s
    BY <2>7 DEF Capped
  <2> QED
    BY <2>2, <2>8
<1> QED
  BY <1>1, <1>2

\* No report blames a blameless credential.
LEMMA BlameReport ==
    ASSUME TypeOK, NeverBlamed, NEW d \in Idents, NEW c \in Creds, NEW o \in Answers[d][c],
           Report(d, c, o)
    PROVE  NeverBlamed'
<1> USE DEF TypeOK
<1>1. CASE ReportSuccess(d, c)
  <2>1. parked' = parked /\ negative' = [negative EXCEPT ![d] = {}]
    BY <1>1 DEF ReportSuccess
  <2> QED
    BY <2>1 DEF NeverBlamed, Blameless
<1>2. CASE o = "AuthRejected" /\ ReportRejected(d, c)
  <2>1. ~Blameless(c)
    BY <1>2 DEF Blameless
  <2>2. parked' \subseteq parked \cup {c} /\ negative' = [negative EXCEPT ![d] = @ \cup {c}]
    BY <1>2 DEF ReportRejected
  <2> QED
    BY <2>1, <2>2 DEF NeverBlamed, Blameless
<1>3. CASE o = "KeyMaterial" /\ ReportKeyMaterial(c)
  <2>1. ~Blameless(c)
    BY <1>3 DEF Blameless
  <2>2. parked' = parked \cup {c} /\ negative' = negative
    BY <1>3 DEF ReportKeyMaterial
  <2> QED
    BY <2>1, <2>2 DEF NeverBlamed, Blameless
<1>4. CASE Inconclusive
  BY <1>4 DEF Inconclusive, learned, NeverBlamed, Blameless
<1> QED
  BY <1>1, <1>2, <1>3, <1>4 DEF Report

\* A step of one walk that leaves it hopeful, or ends it.
LEMMA OthersHope ==
    ASSUME TypeOK, HopeInv, NEW w \in Walkers, NEW x, x = Idle \/ Hopeful(x),
           walk' = [walk EXCEPT ![w] = x], NeverBlamed', LoginIsFound'
    PROVE  HopeInv'
<1>1. \A v \in Walkers : walk'[v] = IF v = w THEN x ELSE walk[v]
  BY DEF TypeOK
<1>2. ASSUME NEW v \in Walkers, walk'[v] # Idle PROVE Hopeful(walk'[v])
  BY <1>1, <1>2 DEF HopeInv
<1> QED
  BY <1>2 DEF HopeInv, Hopeful, Opens, Welcoming, Blameless

\* A walk that has tried everything has nothing left to try.
LEMMA NoneLeft == CredsIn(<<>>) = {}
<1>1. Len(<<>>) = 0
  OBVIOUS
<1>2. 1..0 = {}
  OBVIOUS
<1>3. \A i : i \notin 1..Len(<<>>)
  BY <1>1, <1>2
<1> QED
  BY <1>3 DEF CredsIn

LEMMA AnswerHope ==
    ASSUME TypeInv, HopeInv, NEW w \in Walkers, NextCandidate(w) \/ Return(w)
    PROVE  HopeInv'
<1> DEFINE d == walk[w].ident
           s == walk[w].list
           o == walk[w].outcome
<1>1. walk[w] # Idle /\ walk[w].at = "answered"
  BY DEF NextCandidate, Return, Idle
<1>2. d \in Idents /\ s \in Seq(Creds) /\ s # <<>> /\ NoneTwice(s)
  BY <1>1, WalkShape DEF TypeInv, Distinct
<1>3. /\ Head(s) \in Creds /\ Head(s) \in CredsIn(s) /\ Tail(s) \in Seq(Creds)
      /\ CredsIn(Tail(s)) \subseteq CredsIn(s)
  BY <1>2, TailOfList
<1>4. /\ o \in Answers[d][Head(s)] /\ CredsIn(s) \subseteq InScope[d]
      /\ Welcoming(d) => \A c \in Creds : Opens(d, c) => c \in CredsIn(s)
  BY <1>1 DEF HopeInv, Hopeful
<1>5. NeverBlamed'
  <2>1. Report(d, Head(s), o)
    BY DEF NextCandidate, Return
  <2> QED
    BY <1>2, <1>3, <1>4, <2>1, BlameReport DEF HopeInv, TypeInv
\* What opens the device, and is not what was tried, is in the rest.
<1>6. \A c \in CredsIn(s) : c = Head(s) \/ c \in CredsIn(Tail(s))
  <2> SUFFICES ASSUME NEW i \in 1..Len(s), s[i] # Head(s)
               PROVE  s[i] \in CredsIn(Tail(s))
    BY DEF CredsIn
  <2>1. Head(s) = s[1] /\ Len(s) \in Nat /\ Len(Tail(s)) = Len(s) - 1
        /\ \A k \in 1..Len(Tail(s)) : Tail(s)[k] = s[k + 1]
    BY <1>2
  <2>2. i # 1
    BY <2>1
  <2>3. i - 1 \in 1..Len(Tail(s)) /\ (i - 1) + 1 = i
    BY <2>1, <2>2
  <2>4. Tail(s)[i - 1] = s[i]
    BY <2>1, <2>3
  <2> QED
    BY <2>3, <2>4 DEF CredsIn
<1>7. Opens(d, Head(s)) => o = "Success"
  BY <1>4 DEF Opens
<1>8. CASE NextCandidate(w)
  <2> DEFINE x == [at |-> "dialing", ident |-> d, list |-> Tail(s)]
  <2>1. Retryable(o) /\ walk' = [walk EXCEPT ![w] = x] /\ failed' = failed
    BY <1>8 DEF NextCandidate
  <2>2. ~Opens(d, Head(s))
    BY <1>7, <2>1 DEF Retryable
  <2>3. Hopeful(x)
    BY <1>3, <1>4, <1>6, <2>2 DEF Hopeful
  <2>4. LoginIsFound'
    BY <2>1 DEF HopeInv, LoginIsFound, Welcoming, Blameless
  <2> HIDE DEF x
  <2> QED
    BY <1>5, <2>1, <2>3, <2>4, OthersHope DEF TypeInv
<1>9. CASE Return(w)
  <2>1. /\ ~Retryable(o) \/ Tail(s) = <<>>
        /\ walk' = [walk EXCEPT ![w] = Idle]
        /\ failed' = IF o = "Success" THEN failed ELSE failed \cup {d}
    BY <1>9 DEF Return
  <2>2. ASSUME o # "Success", Welcoming(d)
        PROVE  FALSE
    <3>1. PICK c \in InScope[d] : Blameless(c) /\ Answers[d][c] = {"Success"}
      BY <2>2 DEF Welcoming
    <3>2. c \in Creds /\ Opens(d, c)
      BY <1>2, <3>1, CredResolverAssumption DEF Opens
    <3>3. c \in CredsIn(s) /\ c # Head(s)
      BY <1>4, <1>7, <2>2, <3>2
    <3>4. c \in CredsIn(Tail(s))
      BY <1>6, <3>3
    <3>5. Tail(s) # <<>>
      BY <3>4, NoneLeft
    <3>6. o \in Outcomes
      BY <1>1, WalkShape DEF TypeInv
    <3>7. o = "Unreachable"
      BY <2>1, <2>2, <3>5, <3>6 DEF Retryable, Outcomes
    <3>8. Head(s) \in InScope[d]
      BY <1>3, <1>4
    <3> QED
      BY <1>4, <2>2, <3>7, <3>8 DEF Welcoming
  <2>3. \A e \in Idents : Welcoming(e) => e \notin failed'
    BY <2>1, <2>2 DEF HopeInv, LoginIsFound
  <2>4. LoginIsFound'
    BY <2>3 DEF LoginIsFound, Welcoming, Blameless
  <2> QED
    BY <1>5, <2>1, <2>4, OthersHope DEF TypeInv
<1> QED
  BY <1>8, <1>9

LEMMA HopeStep == ASSUME TypeInv, HopeInv, [Next]_vars PROVE HopeInv'
<1>1. ASSUME NEW w \in Walkers, NEW d \in Idents, Resolve(w, d)
      PROVE  HopeInv'
  <2>1. PICK s \in Orders(d) :
          /\ s # <<>>
          /\ walk' = [walk EXCEPT ![w] = [at |-> "dialing", ident |-> d, list |-> Capped(s)]]
    BY <1>1 DEF Resolve
  <2>2. UNCHANGED <<learned, failed>>
    BY <1>1 DEF Resolve
  <2> DEFINE x == [at |-> "dialing", ident |-> d, list |-> Capped(s)]
  <2>3. Hopeful(x)
    BY <2>1, ResolvedHope DEF Hopeful, HopeInv
  <2>4. NeverBlamed' /\ LoginIsFound'
    BY <2>2 DEF learned, HopeInv, NeverBlamed, LoginIsFound, Welcoming, Blameless
  <2>5. walk' = [walk EXCEPT ![w] = x]
    BY <2>1
  <2> HIDE DEF x
  <2> QED
    BY <2>3, <2>4, <2>5, OthersHope DEF TypeInv
<1>2. ASSUME NEW w \in Walkers, Dial(w)
      PROVE  HopeInv'
  <2>1. walk[w] # Idle
    BY <1>2 DEF Dial, Idle
  <2>2. PICK o \in Answers[walk[w].ident][Head(walk[w].list)] :
          walk' = [walk EXCEPT ![w] = [at |-> "answered", ident |-> walk[w].ident,
                                       list |-> walk[w].list, outcome |-> o]]
    BY <1>2 DEF Dial
  <2> DEFINE x == [at |-> "answered", ident |-> walk[w].ident, list |-> walk[w].list, outcome |-> o]
  <2>3. Hopeful(x)
    BY <2>1 DEF Hopeful, HopeInv
  <2>4. UNCHANGED <<learned, failed>>
    BY <1>2 DEF Dial
  <2>5. NeverBlamed' /\ LoginIsFound'
    BY <2>4 DEF learned, HopeInv, NeverBlamed, LoginIsFound, Welcoming, Blameless
  <2>6. walk' = [walk EXCEPT ![w] = x]
    BY <2>2
  <2> HIDE DEF x
  <2> QED
    BY <2>3, <2>5, <2>6, OthersHope DEF TypeInv
<1>3. ASSUME NEW w \in Walkers, NextCandidate(w) \/ Return(w)
      PROVE  HopeInv'
  BY <1>3, AnswerHope
<1>4. CASE ResetRun
  <2>1. /\ walk' = walk /\ failed' = failed
        /\ negative' = [d \in Idents |-> {}] /\ parked' = {}
    BY <1>4 DEF ResetRun
  <2> QED
    BY <2>1 DEF HopeInv, Hopeful, Opens, NeverBlamed, LoginIsFound, Welcoming, Blameless
<1>5. CASE UNCHANGED <<learned, walk, failed>>
  BY <1>5 DEF learned, HopeInv, Hopeful, Opens, NeverBlamed, LoginIsFound, Welcoming, Blameless
<1> QED
  BY <1>1, <1>2, <1>3, <1>4, <1>5 DEF Next, WalkStep, Rest, ResolveNone, vars, learned

\* A credential no device ever refuses and whose key loads is never parked nor
\* struck off a device, and a device it always opens is opened by every walk
\* that ends, when the cap leaves room for all its credentials and none breaks
\* the ladder off: whatever the other credentials and devices answer.  (Walk.)
THEOREM CredGoodLoginIsFound == Spec => []GoodLoginIsFound
<1>1. Init => TypeInv /\ HopeInv
  <2> SUFFICES ASSUME Init PROVE HopeInv
    BY TypeInit
  <2> QED
    BY DEF Init, HopeInv, NeverBlamed, LoginIsFound
<1>2. TypeInv /\ HopeInv /\ [Next]_vars => (TypeInv /\ HopeInv)'
  BY TypeStep, HopeStep
<1>3. HopeInv => GoodLoginIsFound
  BY DEF HopeInv, GoodLoginIsFound
<1> QED
  BY <1>1, <1>2, <1>3, PTL DEF Spec

=============================================================================
