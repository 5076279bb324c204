--------------------------- MODULE BindingsProofs ---------------------------
(***************************************************************************)
(* Proofs about Bindings, for any strings, devices, files and number of    *)
(* records: the index and the records agree, and as long as what resolvers *)
(* and crawls assert is true, no record ever spans two devices and no      *)
(* device's own name leads to another's credential; names found to be of   *)
(* one device stay together until the store is opened again.               *)
(***************************************************************************)
EXTENDS Bindings, FiniteSetTheorems, TLAPS

-----------------------------------------------------------------------------
(* Least and greatest members                                              *)

\* A set of naturals has a least member: the intervals 0..x of its members
\* below a given one are subsets of a finite set, and one has none below it.
LEMMA LeastNat ==
    ASSUME NEW T, T \subseteq Nat, T # {}
    PROVE  \E x \in T : \A y \in T : x <= y
<1>1. PICK t \in T : t \in Nat
  OBVIOUS
<1> DEFINE S == 0..t
           U == {0..x : x \in {y \in T : y <= t}}
<1>2. IsWellFoundedOn(StrictSubsetOrdering(S), SUBSET S)
  <2>1. IsFiniteSet(S)
    BY <1>1, FS_Interval
  <2> QED
    BY <2>1, FS_StrictSubsetOrderingWellFounded, FS_FiniteSubsetsOfFinite
<1>3. U \subseteq SUBSET S /\ U # {}
  BY <1>1
<1>4. PICK u \in U : \A v \in U : <<v, u>> \notin StrictSubsetOrdering(S)
  <2> HIDE DEF U, S
  <2> QED
    BY <1>2, <1>3, WFMin
<1>5. PICK x \in T : x <= t /\ u = 0..x
  OBVIOUS
<1>6. ASSUME NEW y \in T, ~(x <= y)
      PROVE  FALSE
  <2>1. 0..y \in U /\ 0..y \subseteq S /\ u \subseteq S
    BY <1>1, <1>5, <1>6
  <2>2. 0..y \subseteq u /\ 0..y # u
    BY <1>5, <1>6
  <2>3. <<0..y, u>> \in StrictSubsetOrdering(S)
    BY <2>1, <2>2 DEF StrictSubsetOrdering
  <2> QED
    BY <1>4, <2>1, <2>3
<1> QED
  BY <1>6

\* A finite set of naturals has a greatest member.
LEMMA GreatestNat ==
    ASSUME NEW T, T \subseteq Nat, T # {}, IsFiniteSet(T)
    PROVE  \E x \in T : \A y \in T : y <= x
<1> DEFINE Above(x) == {y \in T : x < y}
           U == {Above(x) : x \in T}
<1>1. IsWellFoundedOn(StrictSubsetOrdering(T), SUBSET T)
  BY FS_StrictSubsetOrderingWellFounded, FS_FiniteSubsetsOfFinite
<1>2. U \subseteq SUBSET T /\ U # {}
  OBVIOUS
<1>3. PICK u \in U : \A v \in U : <<v, u>> \notin StrictSubsetOrdering(T)
  <2> HIDE DEF U
  <2> QED
    BY <1>1, <1>2, WFMin
<1>4. PICK x \in T : u = Above(x)
  OBVIOUS
<1>5. ASSUME NEW y \in T, ~(y <= x)
      PROVE  FALSE
  <2>0. x \in Nat /\ y \in Nat /\ x < y
    BY <1>5
  <2>1. Above(y) \in U /\ Above(y) \subseteq u /\ y \in u /\ y \notin Above(y)
    <3>1. Above(y) \in U
      OBVIOUS
    <3>2. y \in Above(x) /\ y \notin Above(y)
      BY <2>0
    <3>3. ASSUME NEW z \in T, y < z PROVE x < z
      <4>1. z \in Nat
        OBVIOUS
      <4> QED
        BY <4>1, <3>3, <2>0
    <3>4. Above(y) \subseteq Above(x)
      BY <3>3
    <3> QED
      BY <3>1, <3>2, <3>4, <1>4
  <2>2. <<Above(y), u>> \in StrictSubsetOrdering(T)
    BY <2>1, <1>4 DEF StrictSubsetOrdering
  <2> QED
    BY <1>3, <2>1, <2>2
<1> QED
  BY <1>5

\* The image of a finite set is finite.
LEMMA ImageFinite ==
    ASSUME NEW S, IsFiniteSet(S), NEW f
    PROVE  IsFiniteSet({f[x] : x \in S})
<1> DEFINE T == {f[x] : x \in S}
           g == [x \in S |-> f[x]]
<1>1. g \in Surjection(S, T)
  BY DEF Surjection
<1> HIDE DEF T, g
<1>2. IsFiniteSet(T)
  BY <1>1, FS_Surjection
<1> QED
  BY <1>2 DEF T

\* FirstMet picks a member of the set.
LEMMA FirstMetIn ==
    ASSUME NEW met, NEW S, S # {}, \A r \in S : met[r] \in Nat
    PROVE  FirstMet(met, S) \in S
<1> DEFINE T == {met[r] : r \in S}
<1>1. PICK x \in T : \A y \in T : x <= y
  <2>1. T \subseteq Nat /\ T # {}
    OBVIOUS
  <2> HIDE DEF T
  <2> QED
    BY <2>1, LeastNat
<1>2. PICK r \in S : x = met[r]
  OBVIOUS
<1>3. \A q \in S : met[r] <= met[q]
  BY <1>1, <1>2
<1> QED
  BY <1>2, <1>3 DEF FirstMet

LEMMA MinIn ==
    ASSUME NEW T, T \subseteq Nat, T # {}
    PROVE  Min(T) \in T
<1>1. \E x \in T : \A y \in T : x <= y
  BY LeastNat
<1> QED
  BY <1>1 DEF Min

\* Best picks one of the strings it is given.
LEMMA BestIn ==
    ASSUME NEW S, S \subseteq Strings, S # {}
    PROVE  Best(S) \in S
<1>1. \A n \in S : Rank(n) \in 0..2 /\ Alpha[n] \in Nat
  BY BindingsAssumption DEF Rank
<1> DEFINE T == {2 - Rank(n) : n \in S}
<1>2. PICK x \in T : \A y \in T : x <= y
  <2>1. T \subseteq Nat /\ T # {}
    BY <1>1
  <2> HIDE DEF T
  <2> QED
    BY <2>1, LeastNat
<1>3. PICK top \in S : x = 2 - Rank(top)
  OBVIOUS
<1>4. \A m \in S : Rank(m) <= Rank(top)
  <2> SUFFICES ASSUME NEW m \in S PROVE Rank(m) <= Rank(top)
    OBVIOUS
  <2>1. 2 - Rank(m) \in T
    OBVIOUS
  <2>2. 2 - Rank(top) <= 2 - Rank(m)
    BY <2>1, <1>2, <1>3
  <2> QED
    BY <2>2, <1>1
<1> DEFINE E == {n \in S : Rank(n) = Rank(top)}
           A == {Alpha[n] : n \in E}
<1>5. PICK a \in A : \A b \in A : a <= b
  <2>1. A \subseteq Nat /\ A # {}
    BY <1>1
  <2> HIDE DEF A
  <2> QED
    BY <2>1, LeastNat
<1>6. PICK n \in E : a = Alpha[n]
  OBVIOUS
<1>7. \A m \in S : Rank(m) < Rank(n) \/ (Rank(m) = Rank(n) /\ Alpha[n] <= Alpha[m])
  <2> SUFFICES ASSUME NEW m \in S
               PROVE  Rank(m) < Rank(n) \/ (Rank(m) = Rank(n) /\ Alpha[n] <= Alpha[m])
    OBVIOUS
  <2>1. CASE Rank(m) = Rank(top)
    BY <2>1, <1>5, <1>6
  <2>2. CASE Rank(m) # Rank(top)
    BY <2>2, <1>1, <1>4, <1>6
  <2> QED
    BY <2>1, <2>2
<1> QED
  BY <1>6, <1>7 DEF Best

-----------------------------------------------------------------------------
(* The inductive invariant                                                 *)

\* A pin of a known device sits with an address or qualified name of it.
PinKnown(b) ==
    b.pin # NoPin /\ b.pin.box # Unsure =>
        \E m \in StrongIn(b.aliases) \ Refused : b.pin.box = Owner[m]

\* A label that could merge records is an alias, so it is in the index.
LabelKnown(b) ==
    Strong(b.canonical) /\ b.canonical \notin Refused => b.canonical \in b.aliases

MemorySound ==
    \A r \in Live :
        OneBox(recs[r].aliases) /\ LabelKnown(recs[r]) /\ PinKnown(recs[r])

\* What the load of a record will assert is of one device.
FileSound ==
    \A b \in file :
        /\ OneBox(b.aliases) /\ OneBox((b.aliases \cup {b.canonical}) \ Refused)
        /\ PinKnown(b)

IInv == TypeOK /\ IndexExact /\ MemorySound /\ FileSound

\* What an operation hands to bind.
Askable(c, names, at) ==
    /\ names \subseteq Strings /\ names # {}
    /\ \A n \in names : at[n] \in Nat
    /\ OneBox(names) /\ StrongIn(names) \cap Refused = {}
    /\ c \in Strings \cup {NoName}
    /\ c = NoName \/ c \in Refused \/ c \in names

-----------------------------------------------------------------------------
(* The names of a request                                                  *)

LEMMA FormsType ==
    ASSUME NEW id \in Strings
    PROVE  /\ Forms(id) \subseteq Strings
           /\ StrongIn(Forms(id)) \subseteq {id} \ Refused
           /\ id \notin Refused => id \in Forms(id)
BY BindingsAssumption DEF Forms, StrongIn, Strong

LEMMA NamesType ==
    ASSUME NEW ids \in Seq(Strings)
    PROVE  /\ Names(ids) \subseteq Strings
           /\ \A n \in Names(ids) : At(ids)[n] \in Nat
           /\ StrongIn(Names(ids)) \cap Refused = {}
<1>1. \A i \in DOMAIN ids : ids[i] \in Strings /\ i \in Nat
  OBVIOUS
<1>2. Names(ids) \subseteq Strings
  BY <1>1, FormsType DEF Names
<1>3. StrongIn(Names(ids)) \cap Refused = {}
  <2> SUFFICES ASSUME NEW n \in Names(ids), Strong(n) PROVE n \notin Refused
    BY DEF StrongIn
  <2>1. PICK i \in DOMAIN ids : n \in Forms(ids[i])
    BY DEF Names
  <2> QED
    BY <2>1, <1>1, FormsType DEF StrongIn
<1>4. ASSUME NEW n \in Names(ids) PROVE At(ids)[n] \in Nat
  <2> DEFINE T == {IF ids[i] = n THEN 2 * i ELSE 2 * i + 1 :
                      i \in {j \in DOMAIN ids : n \in Forms(ids[j])}}
  <2>1. T \subseteq Nat
    BY <1>1
  <2>2. T # {}
    <3>1. PICK i \in DOMAIN ids : n \in Forms(ids[i])
      BY DEF Names
    <3>2. (IF ids[i] = n THEN 2 * i ELSE 2 * i + 1) \in T
      BY <3>1
    <3> QED
      BY <3>2
  <2>3. Min(T) \in T
    <3> HIDE DEF T
    <3> QED
      BY <2>1, <2>2, MinIn
  <2>4. At(ids)[n] = Min(T)
    BY DEF At
  <2> QED
    BY <2>1, <2>3, <2>4
<1> QED
  BY <1>2, <1>3, <1>4

LEMMA AskedIsAskable ==
    ASSUME NEW ids \in Targets \cup Folds, Names(ids) # {},
           NEW c \in Strings \cup {NoName}, c = NoName \/ c \in Refused \/ c \in Names(ids)
    PROVE  Askable(c, Names(ids), At(ids))
<1>1. ids \in Seq(Strings)
  BY BindingsAssumption
<1> QED
  BY <1>1, NamesType, TruthfulAssumption DEF Askable

LEMMA LoadIsAskable ==
    ASSUME IInv, NEW b \in file, LoadNames(b) # {}
    PROVE  /\ Askable(b.canonical, LoadNames(b), LoadAt(b))
           /\ StrongIn(b.aliases) \ Refused \subseteq StrongIn(LoadNames(b))
<1>1. b \in Bodies /\ b.canonical \in Strings /\ b.aliases \subseteq Strings
  BY DEF IInv, TypeOK, Bodies
<1>2. LoadNames(b) \subseteq Strings
  BY <1>1, FormsType DEF LoadNames
<1>3. StrongIn(LoadNames(b)) \subseteq (b.aliases \cup {b.canonical}) \ Refused
  <2> SUFFICES ASSUME NEW n \in LoadNames(b), Strong(n)
               PROVE  n \in (b.aliases \cup {b.canonical}) \ Refused
    BY DEF StrongIn
  <2>1. PICK id \in b.aliases \cup {b.canonical} : n \in Forms(id)
    BY DEF LoadNames
  <2> QED
    BY <2>1, <1>1, FormsType DEF StrongIn
<1>4. OneBox(LoadNames(b))
  <2>1. OneBox((b.aliases \cup {b.canonical}) \ Refused)
    BY DEF IInv, FileSound
  <2>2. StrongIn(LoadNames(b)) \subseteq StrongIn((b.aliases \cup {b.canonical}) \ Refused)
    BY <1>3 DEF StrongIn
  <2> QED
    BY <2>1, <2>2 DEF OneBox
<1>5. \A n \in LoadNames(b) : LoadAt(b)[n] \in Nat
  BY <1>2, BindingsAssumption DEF LoadAt
<1>6. b.canonical \in Refused \/ b.canonical \in LoadNames(b)
  BY <1>1, FormsType DEF LoadNames
<1>7. StrongIn(b.aliases) \ Refused \subseteq StrongIn(LoadNames(b))
  <2> SUFFICES ASSUME NEW n \in b.aliases, Strong(n), n \notin Refused
               PROVE  n \in LoadNames(b)
    BY DEF StrongIn
  <2> QED
    BY <1>1, FormsType DEF LoadNames
<1> QED
  BY <1>1, <1>2, <1>3, <1>4, <1>5, <1>6, <1>7 DEF Askable

-----------------------------------------------------------------------------
(* The records bind joins                                                  *)

\* Every record of the group is reached by one of the names that decide.
LEMMA GroupReached ==
    ASSUME IInv, NEW names, names \subseteq Strings, NEW r \in Group(names)
    PROVE  /\ r \in Live
           /\ \E n \in names : index[n] = r /\ n \in recs[r].aliases
           /\ \/ \E m \in StrongIn(names) : m \in recs[r].aliases
              \/ Group(names) = {r} /\ (Stub(r) \/ StrongIn(names) = {})
<1>1. \A n \in names : index[n] \in Slots \cup {NoSlot}
  BY DEF IInv, TypeOK
<1>2. \A n \in names : index[n] # NoSlot =>
          index[n] \in Live /\ n \in recs[index[n]].aliases
  BY <1>1 DEF IInv, IndexExact
<1>3. CASE Hits(StrongIn(names)) # {}
  <2>1. PICK m \in StrongIn(names) : index[m] = r /\ r # NoSlot
    BY <1>3 DEF Group, Hits
  <2> QED
    BY <2>1, <1>2 DEF StrongIn
<1>4. CASE Hits(StrongIn(names)) = {}
  <2>1. Group(names) = WeakMatch(names)
    BY <1>4 DEF Group
  <2>2. r \in Hits(WeakIn(names)) /\ Hits(WeakIn(names)) = {r}
        /\ (Stub(r) \/ StrongIn(names) = {})
    BY <2>1 DEF WeakMatch
  <2>3. PICK n \in WeakIn(names) : index[n] = r /\ r # NoSlot
    BY <2>2 DEF Hits
  <2>4. Group(names) = {r}
    BY <2>1, <2>2 DEF WeakMatch
  <2> QED
    BY <2>2, <2>3, <2>4, <1>2 DEF WeakIn
<1> QED
  BY <1>3, <1>4

LEMMA GroupFinite ==
    ASSUME NEW names, names \subseteq Strings
    PROVE  IsFiniteSet(Group(names))
<1>1. \A S \in SUBSET names : IsFiniteSet(Hits(S))
  <2> SUFFICES ASSUME NEW S \in SUBSET names PROVE IsFiniteSet(Hits(S))
    OBVIOUS
  <2>1. IsFiniteSet(S)
    BY BindingsAssumption, FS_Subset
  <2>2. IsFiniteSet({index[n] : n \in S})
    BY <2>1, ImageFinite
  <2> QED
    BY <2>2, FS_Subset DEF Hits
<1>2. IsFiniteSet(Hits(StrongIn(names))) /\ IsFiniteSet(Hits(WeakIn(names)))
  BY <1>1 DEF StrongIn, WeakIn
<1>3. Group(names) \subseteq Hits(StrongIn(names)) \cup Hits(WeakIn(names))
  BY DEF Group, WeakMatch
<1> QED
  BY <1>2, <1>3, FS_Union, FS_Subset

LEMMA MetType ==
    ASSUME IInv, NEW c, NEW names, NEW at, Askable(c, names, at)
    PROVE  /\ DOMAIN Met(names, at) = Group(names)
           /\ \A r \in Group(names) : Met(names, at)[r] \in Nat
<1> DEFINE deciding == IF Hits(StrongIn(names)) # {} THEN StrongIn(names) ELSE WeakIn(names)
<1>1. Met(names, at) = [r \in Group(names) |->
                           Min({at[n] : n \in {m \in deciding : index[m] = r}})]
  BY DEF Met
<1>2. ASSUME NEW r \in Group(names)
      PROVE  Met(names, at)[r] \in Nat
  <2> DEFINE T == {at[n] : n \in {m \in deciding : index[m] = r}}
  <2>1. T \subseteq Nat
    BY DEF Askable, StrongIn, WeakIn
  <2>2. \E m \in deciding : index[m] = r
    BY DEF Group, WeakMatch, Hits
  <2>3. T # {}
    BY <2>2
  <2>4. Min(T) \in T
    <3> HIDE DEF T
    <3> QED
      BY <2>1, <2>3, MinIn
  <2>5. Met(names, at)[r] = Min(T)
    BY <1>1
  <2> QED
    BY <2>1, <2>4, <2>5
<1> QED
  BY <1>1, <1>2

\* The record that supplies the time, and the one that supplies the pin, are
\* among those merged.
LEMMA MergedFrom ==
    ASSUME IInv, NEW c, NEW names, NEW at, Askable(c, names, at), Group(names) # {}
    PROVE  /\ Latest(Met(names, at)) \in Group(names)
           /\ MergedPin(Met(names, at)) # NoPin =>
                  \E r \in Group(names) : MergedPin(Met(names, at)) = recs[r].pin
<1> DEFINE met == Met(names, at)
           newest == {r \in DOMAIN met : \A q \in DOMAIN met : recs[q].ok <= recs[r].ok}
<1>1. DOMAIN met = Group(names) /\ \A r \in Group(names) : met[r] \in Nat
  BY MetType
<1>2. \A r \in Group(names) : recs[r] \in Bodies /\ recs[r].ok \in Nat
  BY GroupReached DEF IInv, TypeOK, Live, Bodies, Askable
<1>3. newest # {}
  <2> DEFINE T == {recs[r].ok : r \in Group(names)}
  <2>1. T \subseteq Nat /\ T # {}
    BY <1>2
  <2>2. IsFiniteSet(T)
    <3> DEFINE f == [r \in Group(names) |-> recs[r].ok]
    <3>1. IsFiniteSet(Group(names))
      BY GroupFinite DEF Askable
    <3>2. IsFiniteSet({f[r] : r \in Group(names)})
      <4> HIDE DEF f
      <4> QED
        BY <3>1, ImageFinite
    <3>3. {f[r] : r \in Group(names)} = T
      OBVIOUS
    <3> QED
      BY <3>2, <3>3
  <2>3. PICK x \in T : \A y \in T : y <= x
    <3> HIDE DEF T
    <3> QED
      BY <2>1, <2>2, GreatestNat
  <2>4. PICK r \in Group(names) : x = recs[r].ok
    OBVIOUS
  <2>5. \A q \in Group(names) : recs[q].ok <= recs[r].ok
    BY <2>3, <2>4
  <2> QED
    BY <2>4, <2>5, <1>1
<1>4. Latest(met) \in Group(names)
  <2>1. newest \subseteq Group(names) /\ \A r \in newest : met[r] \in Nat
    BY <1>1
  <2>2. Latest(met) = FirstMet(met, newest)
    BY DEF Latest
  <2> HIDE DEF met, newest
  <2> QED
    BY <1>3, <2>1, <2>2, FirstMetIn
<1>5. ASSUME MergedPin(met) # NoPin
      PROVE  \E r \in Group(names) : MergedPin(met) = recs[r].pin
  <2> DEFINE holders == {r \in DOMAIN met : recs[r].pin # NoPin /\ met[Latest(met)] <= met[r]}
  <2>1. holders # {} /\ MergedPin(met) = recs[FirstMet(met, holders)].pin
    BY <1>5 DEF MergedPin
  <2>2. holders \subseteq Group(names) /\ \A r \in holders : met[r] \in Nat
    BY <1>1
  <2>3. FirstMet(met, holders) \in holders
    <3> HIDE DEF met, holders
    <3> QED
      BY <2>1, <2>2, FirstMetIn
  <2> QED
    BY <2>1, <2>2, <2>3
<1> QED
  BY <1>4, <1>5

-----------------------------------------------------------------------------
(* What bind returns                                                       *)

\* The slot is that of a record of the group, or an empty one.
LEMMA BoundShape ==
    ASSUME IInv, HasRoom, NEW c, NEW names, NEW at, Askable(c, names, at),
           NEW b, b = Bound(c, names, at)
    PROVE  /\ b.slot \in Slots
           /\ b.slot \in Group(names) \/ (Group(names) = {} /\ b.slot \notin Live)
           /\ b.gone = Group(names) \ {b.slot}
           /\ b.leads = Attached(names) \cup Repointed(names, b.slot)
           /\ b.body.aliases = AliasesOf(Group(names)) \cup Attached(names)
           /\ b.body.aliases \subseteq Strings
           /\ StrongIn(names) \subseteq b.body.aliases
<1>1. /\ b.slot = IF Group(names) = {} THEN Fresh ELSE FirstMet(Met(names, at), Group(names))
      /\ b.gone = Group(names) \ {b.slot}
      /\ b.leads = Attached(names) \cup Repointed(names, b.slot)
      /\ b.body.aliases = AliasesOf(Group(names)) \cup Attached(names)
  BY DEF Bound
<1>2. Group(names) \subseteq Live /\ Live \subseteq Slots
  BY GroupReached DEF Live, Askable
<1>3. ASSUME Group(names) = {}
      PROVE  b.slot \in Slots /\ b.slot \notin Live
  <2>0. \E r \in Slots : recs[r] = NoRecord
    BY DEF HasRoom, Live
  <2>1. Fresh \in Slots /\ recs[Fresh] = NoRecord
    BY <2>0 DEF Fresh
  <2>2. b.slot = Fresh
    BY <1>1, <1>3
  <2> QED
    BY <1>3, <2>1, <2>2 DEF Live
<1>4. ASSUME Group(names) # {}
      PROVE  b.slot \in Slots /\ b.slot \in Group(names)
  <2>0. \A r \in Group(names) : Met(names, at)[r] \in Nat
    BY MetType
  <2>1. FirstMet(Met(names, at), Group(names)) \in Group(names)
    BY <1>4, <2>0, FirstMetIn
  <2>2. b.slot = FirstMet(Met(names, at), Group(names))
    BY <1>1, <1>4
  <2> QED
    BY <1>2, <2>1, <2>2
<1>5. \A r \in Live : recs[r].aliases \subseteq Strings
  BY DEF IInv, TypeOK, Live, Bodies
<1>6. AliasesOf(Group(names)) \cup Attached(names) \subseteq Strings
  BY <1>2, <1>5 DEF AliasesOf, Attached, Askable, StrongIn, WeakIn
<1> QED
  BY <1>1, <1>3, <1>4, <1>6 DEF Attached

\* All addresses and qualified names of the group, and those asked for, are of
\* one device.
LEMMA BoundOneBox ==
    ASSUME IInv, NEW c, NEW names, NEW at, Askable(c, names, at)
    PROVE  OneBox(AliasesOf(Group(names)) \cup Attached(names))
<1> DEFINE all == AliasesOf(Group(names)) \cup Attached(names)
<1>1. \A r \in Group(names) : OneBox(recs[r].aliases)
  BY GroupReached DEF IInv, MemorySound, Askable
<1>2. \A n \in Attached(names) : Strong(n) => n \in StrongIn(names)
  BY DEF Attached, StrongIn, WeakIn
<1>3. OneBox(names)
  BY DEF Askable
<1>4. CASE \E r \in Group(names) : Group(names) = {r} /\ (Stub(r) \/ StrongIn(names) = {})
  <2>1. PICK r \in Group(names) : Group(names) = {r} /\ (Stub(r) \/ StrongIn(names) = {})
    BY <1>4
  <2>2. AliasesOf(Group(names)) = recs[r].aliases
    BY <2>1 DEF AliasesOf
  <2>3. CASE Stub(r)
    <3>1. StrongIn(all) \subseteq StrongIn(names)
      BY <2>2, <2>3, <1>2 DEF Stub, StrongIn
    <3> QED
      BY <3>1, <1>3 DEF OneBox
  <2>4. CASE StrongIn(names) = {}
    <3>1. StrongIn(all) \subseteq StrongIn(recs[r].aliases)
      BY <2>2, <2>4, <1>2 DEF StrongIn
    <3> QED
      BY <3>1, <1>1, <2>1 DEF OneBox
  <2> QED
    BY <2>1, <2>3, <2>4
<1>5. CASE \A r \in Group(names) : \E m \in StrongIn(names) : m \in recs[r].aliases
  <2>1. ASSUME NEW n \in StrongIn(all)
        PROVE  \E m \in StrongIn(names) : Owner[n] = Owner[m]
    <3>1. CASE n \in Attached(names)
      BY <3>1, <1>2, <2>1 DEF StrongIn
    <3>2. CASE n \in AliasesOf(Group(names))
      <4>1. PICK r \in Group(names) : n \in recs[r].aliases
        BY <3>2 DEF AliasesOf
      <4>2. PICK m \in StrongIn(names) : m \in recs[r].aliases
        BY <1>5
      <4>3. n \in StrongIn(recs[r].aliases) /\ m \in StrongIn(recs[r].aliases)
        BY <4>1, <4>2, <2>1 DEF StrongIn
      <4> QED
        BY <4>2, <4>3, <1>1 DEF OneBox
    <3> QED
      BY <3>1, <3>2, <2>1 DEF StrongIn
  <2>2. \A m, n \in StrongIn(names) : Owner[m] = Owner[n]
    BY <1>3 DEF OneBox
  <2>3. \A m, n \in StrongIn(all) : Owner[m] = Owner[n]
    BY <2>1, <2>2
  <2> QED
    BY <2>3 DEF OneBox
<1> QED
  BY <1>4, <1>5, GroupReached DEF Askable

LEMMA BoundLabel ==
    ASSUME IInv, HasRoom, NEW c, NEW names, NEW at, Askable(c, names, at),
           NEW b, b = Bound(c, names, at)
    PROVE  b.body.canonical \in Strings /\ LabelKnown(b.body)
<1> DEFINE aliases == AliasesOf(Group(names)) \cup Attached(names)
           labels == ({recs[r].canonical : r \in Group(names)} \cup {c} \cup aliases) \ {NoName}
<1>1. b.body.canonical = Label(labels, names, at) /\ b.body.aliases = aliases
  BY DEF Bound
<1>2. \A r \in Group(names) : recs[r].canonical \in Strings /\ LabelKnown(recs[r])
  BY GroupReached DEF IInv, TypeOK, MemorySound, Live, Bodies, Askable
<1>3. aliases \subseteq Strings
  BY BoundShape, <1>1
<1>4. labels \subseteq Strings
  BY <1>2, <1>3 DEF Askable
<1>5. \A n \in labels : Strong(n) /\ n \notin Refused => n \in aliases
  <2> SUFFICES ASSUME NEW n \in labels, Strong(n), n \notin Refused
               PROVE  n \in aliases
    OBVIOUS
  <2>1. CASE n = c
    BY <2>1 DEF Askable, Attached, StrongIn
  <2>2. CASE \E r \in Group(names) : n = recs[r].canonical
    BY <2>2, <1>2 DEF LabelKnown, AliasesOf
  <2> QED
    BY <2>1, <2>2
<1>6. CASE labels # {}
  <2>1. Best(labels) \in labels
    <3> HIDE DEF labels
    <3> QED
      BY <1>4, <1>6, BestIn
  <2>2. b.body.canonical \in labels
    BY <2>1, <1>1, <1>6 DEF Label
  <2> QED
    BY <2>2, <1>1, <1>4, <1>5 DEF LabelKnown
<1>7. CASE labels = {}
  <2>1. PICK n \in names : \A m \in names : at[n] <= at[m]
    <3> DEFINE T == {at[n] : n \in names}
    <3>1. T \subseteq Nat /\ T # {}
      BY DEF Askable
    <3>2. PICK x \in T : \A y \in T : x <= y
      <4> HIDE DEF T
      <4> QED
        BY <3>1, LeastNat
    <3> QED
      BY <3>2
  <2>2. b.body.canonical \in names
    BY <2>1, <1>1, <1>7 DEF Label
  <2>3. Strong(b.body.canonical) => b.body.canonical \in aliases
    BY <2>2 DEF Attached, StrongIn
  <2> QED
    BY <2>2, <2>3, <1>1 DEF LabelKnown, Askable
<1> QED
  BY <1>6, <1>7

LEMMA BoundPin ==
    ASSUME IInv, HasRoom, NEW c, NEW names, NEW at, Askable(c, names, at),
           NEW b, b = Bound(c, names, at)
    PROVE  /\ b.body.pin \in Pins \cup {NoPin} /\ b.body.ok \in Nat
           /\ PinKnown(b.body)
<1>1. /\ b.body.pin = IF Group(names) = {} THEN NoPin ELSE MergedPin(Met(names, at))
      /\ b.body.ok = IF Group(names) = {} THEN 0 ELSE recs[Latest(Met(names, at))].ok
      /\ b.body.aliases = AliasesOf(Group(names)) \cup Attached(names)
  BY DEF Bound
<1>2. \A r \in Group(names) : /\ recs[r].pin \in Pins \cup {NoPin} /\ recs[r].ok \in Nat
                              /\ PinKnown(recs[r])
  BY GroupReached DEF IInv, TypeOK, MemorySound, Live, Bodies, Askable
<1>3. CASE b.body.pin = NoPin
  BY <1>1, <1>2, <1>3, MergedFrom DEF PinKnown
<1>4. CASE b.body.pin # NoPin
  <2>1. Group(names) # {} /\ b.body.pin = MergedPin(Met(names, at))
    BY <1>1, <1>4
  <2>2. PICK r \in Group(names) : b.body.pin = recs[r].pin
    BY <2>1, <1>4, MergedFrom
  <2>3. recs[r].aliases \subseteq b.body.aliases
    BY <1>1 DEF AliasesOf
  <2>4. PinKnown(b.body)
    BY <2>2, <2>3, <1>2 DEF PinKnown, StrongIn
  <2> QED
    BY <2>1, <2>2, <2>4, <1>1, <1>2, MergedFrom
<1> QED
  BY <1>3, <1>4

-----------------------------------------------------------------------------
(* The steps                                                               *)

\* What the alias set alone must satisfy.
RecsType ==
    /\ recs \in [Slots -> Bodies \cup {NoRecord}]
    /\ \A r \in Live : recs[r].canonical # NoName
    /\ index \in [Strings -> Slots \cup {NoSlot}]
SetSound == RecsType /\ IndexExact /\ MemorySound

\* Putting bind's result in place, with whatever pin, keeps the set sound.
LEMMA PlacedKeeps ==
    ASSUME IInv, HasRoom, NEW c, NEW names, NEW at, Askable(c, names, at),
           NEW b, b = Bound(c, names, at),
           NEW body \in Bodies, PinKnown(body),
           body.aliases = b.body.aliases, body.canonical = b.body.canonical,
           Placed(b, body)
    PROVE  SetSound'
<1> DEFINE t == b.slot
           group == Group(names)
<1>1. /\ t \in Slots
      /\ t \in group \/ (group = {} /\ t \notin Live)
      /\ b.gone = group \ {t}
      /\ b.leads = Attached(names) \cup Repointed(names, t)
      /\ body.aliases = AliasesOf(group) \cup Attached(names)
      /\ body.aliases \subseteq Strings
  BY BoundShape
<1>2. body.canonical \in Strings /\ LabelKnown(body) /\ OneBox(body.aliases)
  <2>1. b.body.canonical \in Strings /\ LabelKnown(b.body)
    BY BoundLabel
  <2>2. OneBox(AliasesOf(group) \cup Attached(names))
    BY BoundOneBox
  <2> QED
    BY <2>1, <2>2, <1>1 DEF LabelKnown
<1>3. /\ recs' = [r \in Slots |-> IF r = t THEN body
                                  ELSE IF r \in group \ {t} THEN NoRecord ELSE recs[r]]
      /\ index' = [n \in Strings |-> IF n \in b.leads THEN t ELSE index[n]]
  BY <1>1 DEF Placed
<1>4. body # NoRecord
  BY BindingsAssumption
<1>5. Live' = {t} \cup (Live \ group)
  BY <1>1, <1>3, <1>4 DEF Live
<1>6. recs'[t] = body /\ \A r \in Live \ group : r # t => recs'[r] = recs[r]
  BY <1>1, <1>3 DEF Live
<1>7. RecsType'
  <2>1. recs' \in [Slots -> Bodies \cup {NoRecord}]
    BY <1>1, <1>3 DEF IInv, TypeOK
  <2>2. \A r \in Live' : recs'[r].canonical # NoName
    BY <1>2, <1>5, <1>6, BindingsAssumption DEF IInv, TypeOK
  <2>3. index' \in [Strings -> Slots \cup {NoSlot}]
    BY <1>1, <1>3 DEF IInv, TypeOK
  <2> QED
    BY <2>1, <2>2, <2>3 DEF RecsType, Live
<1>8. MemorySound'
  <2>1. \A r \in Live' : OneBox(recs'[r].aliases) /\ LabelKnown(recs'[r]) /\ PinKnown(recs'[r])
    BY <1>2, <1>5, <1>6 DEF IInv, MemorySound
  <2> QED
    BY <2>1 DEF MemorySound
<1>9. IndexExact'
  <2>0. \A n \in Strings, r \in Slots :
            index[n] = r <=> r \in Live /\ n \in recs[r].aliases
    BY DEF IInv, IndexExact
  <2>1. group \subseteq Live /\ Live \subseteq Slots
    BY GroupReached DEF Live, Askable
  <2>2. SUFFICES ASSUME NEW n \in Strings, NEW r \in Slots
                 PROVE  index'[n] = r <=> r \in Live' /\ n \in recs'[r].aliases
    BY DEF IndexExact
  <2>3. CASE r = t
    <3>1. n \in body.aliases => index'[n] = t
      <4>1. ASSUME n \in AliasesOf(group)
            PROVE  n \in b.leads \/ index[n] = t
        <5>1. PICK q \in group : n \in recs[q].aliases
          BY <4>1 DEF AliasesOf
        <5>2. CASE q = t
          BY <5>1, <5>2, <2>0, <2>1
        <5>3. CASE q # t
          BY <5>1, <5>3, <1>1 DEF Repointed, AliasesOf
        <5> QED
          BY <5>2, <5>3
      <4> QED
        BY <4>1, <1>1, <1>3
    <3>2. index'[n] = t => n \in body.aliases
      <4>1. CASE n \in b.leads
        BY <4>1, <1>1 DEF Repointed, AliasesOf
      <4>2. CASE n \notin b.leads /\ index[n] = t
        <5>1. t \in Live /\ n \in recs[t].aliases
          BY <4>2, <2>0, <1>1
        <5> QED
          BY <5>1, <1>1 DEF AliasesOf
      <4> QED
        BY <4>1, <4>2, <1>3
    <3> QED
      BY <2>3, <3>1, <3>2, <1>5, <1>6
  <2>4. CASE r # t /\ r \in group
    <3>1. r \notin Live'
      BY <2>4, <1>5
    <3>2. index'[n] # r
      <4>1. CASE n \in b.leads
        BY <4>1, <2>4, <1>3
      <4>2. CASE n \notin b.leads
        <5>1. index[n] = r => n \in Repointed(names, t)
          BY <2>0, <2>4 DEF Repointed, AliasesOf
        <5> QED
          BY <5>1, <4>2, <1>1, <1>3
      <4> QED
        BY <4>1, <4>2
    <3> QED
      BY <3>1, <3>2
  <2>5. CASE r # t /\ r \notin group
    <3>1. index[n] = r => n \notin b.leads
      <4> SUFFICES ASSUME index[n] = r, n \in b.leads PROVE FALSE
        OBVIOUS
      <4>0. r # NoSlot
        BY BindingsAssumption
      <4>1. CASE n \in StrongIn(names)
        BY <4>0, <4>1, <2>5 DEF Group, Hits
      <4>2. CASE n \in Attached(names) /\ n \notin StrongIn(names)
        BY <4>0, <4>2 DEF Attached
      <4>3. CASE n \in Repointed(names, t)
        <5>1. PICK q \in group \ {t} : n \in recs[q].aliases
          BY <4>3 DEF Repointed, AliasesOf
        <5>2. index[n] = q
          BY <5>1, <2>0, <2>1
        <5> QED
          BY <5>2, <2>5
      <4> QED
        BY <4>1, <4>2, <4>3, <1>1
    <3>2. index'[n] = r <=> index[n] = r
      BY <3>1, <2>5, <1>3
    <3>3. r \in Live' <=> r \in Live
      BY <2>5, <1>5
    <3>4. r \in Live => recs'[r] = recs[r]
      BY <2>5, <1>6
    <3> QED
      BY <3>2, <3>3, <3>4, <2>0
  <2> QED
    BY <2>3, <2>4, <2>5
<1> QED
  BY <1>7, <1>8, <1>9 DEF SetSound

\* What is saved, or stays when the save fails, is sound.
LEMMA SavedKeeps ==
    ASSUME IInv, SetSound', Saved
    PROVE  /\ file' \subseteq Bodies /\ \A b \in file' : b.canonical # NoName
           /\ FileSound'
<1>1. CASE file' = file
  BY <1>1 DEF IInv, TypeOK, FileSound
<1>2. CASE file' = Stored(recs')
  <2>1. \A b \in file' : \E r \in Live' : b = recs'[r]
    BY <1>2 DEF Stored, Live
  <2>2. \A r \in Live' : /\ recs'[r] \in Bodies /\ recs'[r].canonical # NoName
                         /\ OneBox(recs'[r].aliases) /\ LabelKnown(recs'[r])
                         /\ PinKnown(recs'[r])
    BY DEF SetSound, RecsType, MemorySound, Live
  <2>3. ASSUME NEW b \in Bodies, OneBox(b.aliases), LabelKnown(b)
        PROVE  OneBox((b.aliases \cup {b.canonical}) \ Refused)
    <3>1. StrongIn((b.aliases \cup {b.canonical}) \ Refused) \subseteq StrongIn(b.aliases)
      BY <2>3 DEF LabelKnown, StrongIn
    <3> QED
      BY <3>1, <2>3 DEF OneBox
  <2> QED
    BY <2>1, <2>2, <2>3 DEF FileSound
<1> QED
  BY <1>1, <1>2 DEF Saved

\* An alias set with no records is sound.
LEMMA OpenedKeeps ==
    ASSUME NEW f, Opened(f)
    PROVE  SetSound'
<1>1. Live' = {}
  BY DEF Opened, Live
<1>2. RecsType' /\ MemorySound'
  BY <1>1 DEF Opened, RecsType, MemorySound
<1>3. IndexExact'
  BY <1>1, BindingsAssumption DEF Opened, IndexExact
<1> QED
  BY <1>2, <1>3 DEF SetSound

LEMMA InitSound ==
    ASSUME Init
    PROVE  IInv
<1>1. SetSound
  BY BindingsAssumption DEF Init, SetSound, RecsType, Live, IndexExact, MemorySound
<1>2. /\ file \subseteq Bodies /\ loading = file
      /\ \A b \in file : b.canonical # NoName
      /\ now \in 0..MaxTime /\ restarts \in 0..MaxRestarts
  <2>1. file \in FilesAtStart /\ loading = file /\ now = 0 /\ restarts = 0
    BY DEF Init
  <2>2. file \subseteq Bodies /\ 0 \in 0..MaxTime /\ 0 \in 0..MaxRestarts
    BY <2>1, BindingsAssumption
  <2>3. \A b \in file : b.canonical # NoName
    BY <2>1, TruthfulAssumption
  <2> QED
    BY <2>1, <2>2, <2>3
<1>3. \A b \in file : /\ OneBox(b.aliases \cup {b.canonical})
                      /\ b.pin # NoPin => b.pin.box = Unsure
  BY TruthfulAssumption DEF Init
<1>4. FileSound
  <2> SUFFICES ASSUME NEW b \in file
               PROVE  /\ OneBox(b.aliases)
                      /\ OneBox((b.aliases \cup {b.canonical}) \ Refused)
                      /\ PinKnown(b)
    BY DEF FileSound
  <2>1. OneBox(b.aliases \cup {b.canonical})
    BY <1>3
  <2>2. OneBox(b.aliases) /\ OneBox((b.aliases \cup {b.canonical}) \ Refused)
    BY <2>1 DEF OneBox, StrongIn
  <2> QED
    BY <2>2, <1>3 DEF PinKnown
<1> QED
  BY <1>1, <1>2, <1>4 DEF IInv, TypeOK, SetSound, RecsType

LEMMA LoadKeeps ==
    ASSUME IInv, LoadNext
    PROVE  IInv'
<1>1. PICK b \in loading :
        /\ loading' = loading \ {b}
        /\ IF LoadNames(b) = {} THEN UNCHANGED <<recs, index>>
           ELSE LET new == Bound(b.canonical, LoadNames(b), LoadAt(b))
                    body == new.body
                IN  Placed(new,
                        IF b.ok > body.ok THEN [body EXCEPT !.pin = b.pin, !.ok = b.ok]
                        ELSE IF body.pin = NoPin THEN [body EXCEPT !.pin = b.pin]
                        ELSE body)
  BY DEF LoadNext
<1>2. UNCHANGED <<file, now, restarts>> /\ HasRoom
  BY DEF LoadNext
<1>3. b \in file /\ b \in Bodies /\ PinKnown(b)
  BY DEF IInv, TypeOK, FileSound
<1>4. SetSound'
  <2>1. CASE LoadNames(b) = {}
    BY <2>1, <1>1 DEF IInv, TypeOK, SetSound, RecsType, Live, IndexExact, MemorySound
  <2>2. CASE LoadNames(b) # {}
    <3> DEFINE new == Bound(b.canonical, LoadNames(b), LoadAt(b))
               body == IF b.ok > new.body.ok THEN [new.body EXCEPT !.pin = b.pin, !.ok = b.ok]
                       ELSE IF new.body.pin = NoPin THEN [new.body EXCEPT !.pin = b.pin]
                       ELSE new.body
    <3>1. Askable(b.canonical, LoadNames(b), LoadAt(b))
      BY <1>3, <2>2, LoadIsAskable
    <3>2. Placed(new, body)
      BY <1>1, <2>2
    <3>3. \E al, ca, pi, o :
            new.body = [aliases |-> al, canonical |-> ca, pin |-> pi, ok |-> o]
      BY DEF Bound
    <3>4. /\ new.body.aliases \subseteq Strings /\ new.body.canonical \in Strings
          /\ new.body.pin \in Pins \cup {NoPin} /\ new.body.ok \in Nat
          /\ PinKnown(new.body) /\ StrongIn(LoadNames(b)) \subseteq new.body.aliases
      <4> HIDE DEF new
      <4>1. new = Bound(b.canonical, LoadNames(b), LoadAt(b))
        BY DEF new
      <4> QED
        BY <4>1, <3>1, <1>2, BoundShape, BoundLabel, BoundPin
    <3> HIDE DEF new
    <3>5. /\ body \in Bodies /\ body.aliases = new.body.aliases
          /\ body.canonical = new.body.canonical
          /\ body.pin = b.pin \/ body.pin = new.body.pin
      BY <3>3, <3>4, <1>3 DEF Bodies
    <3>6. PinKnown(body)
      <4>1. CASE body.pin = b.pin
        <5>1. StrongIn(b.aliases) \ Refused \subseteq StrongIn(LoadNames(b))
          BY <1>3, <2>2, LoadIsAskable
        <5>2. StrongIn(b.aliases) \ Refused \subseteq StrongIn(body.aliases) \ Refused
          BY <5>1, <3>4, <3>5 DEF StrongIn
        <5> HIDE DEF body
        <5> QED
          BY <4>1, <5>2, <1>3 DEF PinKnown
      <4>2. CASE body.pin = new.body.pin
        <5> HIDE DEF body
        <5> QED
          BY <4>2, <3>4, <3>5 DEF PinKnown
      <4> QED
        BY <4>1, <4>2, <3>5
    <3>7. new = Bound(b.canonical, LoadNames(b), LoadAt(b))
      BY DEF new
    <3> HIDE DEF body
    <3> QED
      BY <3>1, <3>2, <3>5, <3>6, <3>7, <1>2, PlacedKeeps
  <2> QED
    BY <2>1, <2>2
<1>5. FileSound'
  BY <1>2 DEF IInv, FileSound
<1> QED
  BY <1>1, <1>2, <1>4, <1>5 DEF IInv, TypeOK, SetSound, RecsType

LEMMA RecordKeeps ==
    ASSUME IInv, NEW c \in Creds, NEW ids \in Targets, Record(c, ids)
    PROVE  IInv'
<1> DEFINE names == Names(ids)
           b == Bound(NoName, names, At(ids))
           pin == [cred |-> c, box |-> BoxOf(names)]
           body == [aliases |-> b.body.aliases, canonical |-> b.body.canonical,
                    pin |-> pin, ok |-> now + 1]
<1>1. /\ HasRoom /\ now < MaxTime /\ now' = now + 1 /\ Saved
      /\ UNCHANGED <<loading, restarts>> /\ loading = {}
  BY DEF Record, IsOpen
<1>2. now \in Nat /\ now' \in 0..MaxTime
  BY <1>1, BindingsAssumption DEF IInv, TypeOK
<1>3. SetSound'
  <2>1. CASE names = {}
    <3>1. UNCHANGED <<recs, index>>
      BY <2>1 DEF Record
    <3> QED
      BY <3>1 DEF IInv, TypeOK, SetSound, RecsType, Live, IndexExact, MemorySound
  <2>2. CASE names # {}
    <3>1. Askable(NoName, names, At(ids))
      BY <2>2, AskedIsAskable
    <3>2. Placed(b, body)
      BY <2>2 DEF Record
    <3> HIDE DEF b
    <3>3. b = Bound(NoName, names, At(ids))
      BY DEF b
    <3> HIDE DEF names
    <3>4. /\ b.body.aliases \subseteq Strings /\ b.body.canonical \in Strings
          /\ StrongIn(names) \subseteq b.body.aliases
      BY <3>1, <3>3, <1>1, BoundShape, BoundLabel
    <3>5. /\ BoxOf(names) \in Boxes \cup {Unsure}
          /\ BoxOf(names) # Unsure => \E m \in StrongIn(names) : BoxOf(names) = Owner[m]
      BY <3>1, BindingsAssumption DEF BoxOf, Askable, StrongIn
    <3>6. /\ body \in Bodies /\ body.aliases = b.body.aliases
          /\ body.canonical = b.body.canonical
          /\ body.pin = [cred |-> c, box |-> BoxOf(names)]
      <4>1. pin \in Pins
        BY <3>5 DEF Pins
      <4> HIDE DEF pin
      <4>2. now + 1 \in Nat
        BY <1>2
      <4>3. body \in Bodies
        BY <4>1, <4>2, <3>4 DEF Bodies
      <4> QED
        BY <4>3 DEF pin
    <3>7. PinKnown(body)
      <4>1. StrongIn(names) \subseteq StrongIn(body.aliases) \ Refused
        BY <3>1, <3>4, <3>6 DEF StrongIn, Askable
      <4> HIDE DEF body
      <4> QED
        BY <4>1, <3>5, <3>6 DEF PinKnown
    <3> HIDE DEF body
    <3> QED
      BY <3>1, <3>2, <3>3, <3>6, <3>7, <1>1, PlacedKeeps
  <2> QED
    BY <2>1, <2>2
<1>4. /\ file' \subseteq Bodies /\ \A d \in file' : d.canonical # NoName
      /\ FileSound'
  BY <1>1, <1>3, SavedKeeps
<1> QED
  BY <1>1, <1>2, <1>3, <1>4 DEF IInv, TypeOK, SetSound, RecsType

LEMMA BindKeeps ==
    ASSUME IInv, NEW ids \in Folds, Bind(ids)
    PROVE  IInv'
<1> DEFINE names == Names(ids)
           b == Bound(ids[1], names, At(ids))
<1>1. /\ HasRoom /\ names # {} /\ Placed(b, b.body) /\ Saved
      /\ UNCHANGED <<loading, now, restarts>> /\ loading = {}
  BY DEF Bind, IsOpen
<1>2. ids[1] \in Strings /\ (ids[1] \in Refused \/ ids[1] \in names)
  <2>1. 1 \in DOMAIN ids /\ ids[1] \in Strings
    BY BindingsAssumption
  <2> QED
    BY <2>1, FormsType DEF Names
<1>3. Askable(ids[1], names, At(ids))
  BY <1>1, <1>2, AskedIsAskable
<1>4. \E al, ca, pi, o :
        b.body = [aliases |-> al, canonical |-> ca, pin |-> pi, ok |-> o]
  BY DEF Bound
<1>5. SetSound'
  <2> HIDE DEF b
  <2>1. b = Bound(ids[1], names, At(ids))
    BY DEF b
  <2> HIDE DEF names
  <2>2. /\ b.body.aliases \subseteq Strings /\ b.body.canonical \in Strings
        /\ b.body.pin \in Pins \cup {NoPin} /\ b.body.ok \in Nat /\ PinKnown(b.body)
    BY <2>1, <1>1, <1>3, BoundShape, BoundLabel, BoundPin
  <2>3. b.body \in Bodies
    BY <2>2, <1>4 DEF Bodies
  <2> QED
    BY <2>1, <2>2, <2>3, <1>1, <1>3, PlacedKeeps
<1>6. /\ file' \subseteq Bodies /\ \A d \in file' : d.canonical # NoName
      /\ FileSound'
  BY <1>1, <1>5, SavedKeeps
<1> QED
  BY <1>1, <1>5, <1>6 DEF IInv, TypeOK, SetSound, RecsType

LEMMA ForgetKeeps ==
    ASSUME IInv, NEW ids \in Targets, Forget(ids)
    PROVE  IInv'
<1> DEFINE known == {n \in Names(ids) : index[n] # NoSlot}
           first == CHOOSE n \in known : \A m \in known : At(ids)[n] <= At(ids)[m]
<1>1. /\ known # {} /\ recs' = [recs EXCEPT ![index[first]].pin = NoPin]
      /\ Saved /\ UNCHANGED <<index, loading, now, restarts>> /\ loading = {}
  BY DEF Forget, IsOpen
<1>2. Names(ids) \subseteq Strings /\ \A n \in known : At(ids)[n] \in Nat
  <2>1. ids \in Seq(Strings)
    BY BindingsAssumption
  <2> QED
    BY <2>1, NamesType
<1>3. first \in known
  <2> DEFINE T == {At(ids)[n] : n \in known}
  <2>1. T \subseteq Nat /\ T # {}
    BY <1>1, <1>2
  <2>2. PICK x \in T : \A y \in T : x <= y
    <3> HIDE DEF T
    <3> QED
      BY <2>1, LeastNat
  <2>3. PICK n \in known : x = At(ids)[n]
    OBVIOUS
  <2>4. \A m \in known : At(ids)[n] <= At(ids)[m]
    BY <2>2, <2>3
  <2> QED
    BY <2>4
<1> DEFINE r == index[first]
<1>4. r \in Live /\ recs[r] \in Bodies
  <2> HIDE DEF first
  <2> QED
    BY <1>2, <1>3 DEF IInv, TypeOK, IndexExact, Live
<1> HIDE DEF first, r
<1>5. recs' = [recs EXCEPT ![r].pin = NoPin]
  BY <1>1 DEF r
<1>6. /\ recs'[r] \in Bodies /\ recs'[r].aliases = recs[r].aliases
      /\ recs'[r].canonical = recs[r].canonical /\ recs'[r].pin = NoPin
      /\ \A q \in Slots \ {r} : recs'[q] = recs[q]
  BY <1>4, <1>5 DEF IInv, TypeOK, Live, Bodies
<1>7. recs' \in [Slots -> Bodies \cup {NoRecord}]
  BY <1>4, <1>5, <1>6 DEF IInv, TypeOK, Live
<1>8. Live' = Live
  BY <1>4, <1>6, BindingsAssumption DEF Live
<1>9. SetSound'
  <2>1. \A q \in Live : /\ recs'[q].aliases = recs[q].aliases
                        /\ recs'[q].canonical = recs[q].canonical
                        /\ recs'[q].pin \in {recs[q].pin, NoPin}
    BY <1>6 DEF Live
  <2>2. IndexExact'
    BY <1>1, <1>8, <2>1 DEF IInv, IndexExact
  <2>3. MemorySound'
    <3>1. ASSUME NEW q \in Live'
          PROVE  /\ OneBox(recs'[q].aliases) /\ LabelKnown(recs'[q])
                 /\ PinKnown(recs'[q])
      <4>1. /\ OneBox(recs[q].aliases) /\ LabelKnown(recs[q]) /\ PinKnown(recs[q])
        BY <3>1, <1>8 DEF IInv, MemorySound
      <4> QED
        BY <4>1, <2>1, <1>8 DEF LabelKnown, PinKnown
    <3> QED
      BY <3>1 DEF MemorySound
  <2>4. \A q \in Live' : recs'[q].canonical # NoName
    BY <2>1, <1>8 DEF IInv, TypeOK
  <2> QED
    BY <1>1, <1>7, <2>2, <2>3, <2>4 DEF SetSound, RecsType, IInv, TypeOK
<1>10. /\ file' \subseteq Bodies /\ \A d \in file' : d.canonical # NoName
       /\ FileSound'
  BY <1>1, <1>9, SavedKeeps
<1> QED
  BY <1>1, <1>9, <1>10 DEF IInv, TypeOK, SetSound, RecsType

LEMMA RestartKeeps ==
    ASSUME IInv, Restart
    PROVE  IInv'
<1>1. /\ restarts < MaxRestarts /\ restarts' = restarts + 1
      /\ Opened(file) /\ UNCHANGED <<file, now>>
  BY DEF Restart
<1>2. SetSound' /\ loading' = file
  BY <1>1, OpenedKeeps DEF Opened
<1>3. restarts' \in 0..MaxRestarts
  BY <1>1, BindingsAssumption DEF IInv, TypeOK
<1> QED
  BY <1>1, <1>2, <1>3 DEF IInv, TypeOK, FileSound, SetSound, RecsType

LEMMA NoteKeeps ==
    ASSUME IInv, NoteContext
    PROVE  IInv'
<1>1. UNCHANGED <<recs, index, loading, now, restarts>> /\ Saved /\ loading = {}
  BY DEF NoteContext, Saved, IsOpen
<1>2. SetSound'
  BY <1>1 DEF IInv, TypeOK, SetSound, RecsType, Live, IndexExact, MemorySound
<1>3. /\ file' \subseteq Bodies /\ \A d \in file' : d.canonical # NoName
      /\ FileSound'
  BY <1>1, <1>2, SavedKeeps
<1> QED
  BY <1>1, <1>2, <1>3 DEF IInv, TypeOK, SetSound, RecsType

LEMMA NextKeeps ==
    ASSUME IInv, [Next]_vars
    PROVE  IInv'
<1>1. CASE LoadNext
  BY <1>1, LoadKeeps
<1>2. CASE Restart
  BY <1>2, RestartKeeps
<1>6. CASE NoteContext
  BY <1>6, NoteKeeps
<1>3. ASSUME NEW ids \in Targets, (\E c \in Creds : Record(c, ids)) \/ Forget(ids)
      PROVE  IInv'
  BY <1>3, RecordKeeps, ForgetKeeps
<1>4. ASSUME NEW ids \in Folds, Bind(ids)
      PROVE  IInv'
  BY <1>4, BindKeeps
<1>5. CASE UNCHANGED vars
  BY <1>5 DEF vars, IInv, TypeOK, Live, IndexExact, MemorySound, FileSound
<1> QED
  BY <1>1, <1>2, <1>3, <1>4, <1>5, <1>6 DEF Next

-----------------------------------------------------------------------------
(* Names stay together                                                     *)

\* Strings that lead to one record lead to one record afterwards.
Together ==
    \A m, n \in Strings :
        index[m] # NoSlot /\ index[m] = index[n] => index'[m] = index'[n]

\* A record that bind does not join keeps every string that led to it: none of
\* them is a name of the request, nor an alias of a record that is joined.
LEMMA OthersKept ==
    ASSUME IInv, HasRoom, NEW c, NEW names, NEW at, Askable(c, names, at),
           NEW b, b = Bound(c, names, at),
           NEW m \in Strings, index[m] # NoSlot, index[m] \notin Group(names)
    PROVE  m \notin b.leads
<1>1. /\ b.leads = Attached(names) \cup Repointed(names, b.slot)
      /\ Group(names) \subseteq Live
  BY BoundShape, GroupReached DEF Askable
<1>2. m \notin Attached(names)
  <2>1. ASSUME m \in StrongIn(names)
        PROVE  FALSE
    <3>1. index[m] \in Hits(StrongIn(names))
      BY <2>1 DEF Hits
    <3>2. Group(names) = Hits(StrongIn(names))
      BY <3>1 DEF Group
    <3> QED
      BY <3>1, <3>2
  <2> QED
    BY <2>1 DEF Attached
<1>3. ASSUME NEW q \in Group(names), m \in recs[q].aliases
      PROVE  FALSE
  <2>1. q \in Live /\ q \in Slots
    BY <1>1 DEF Live
  <2>2. index[m] = q
    BY <1>3, <2>1 DEF IInv, IndexExact
  <2> QED
    BY <2>2
<1>4. m \notin Repointed(names, b.slot)
  BY <1>3 DEF Repointed, AliasesOf
<1> QED
  BY <1>1, <1>2, <1>4

\* A record that bind joins hands all its strings to the one that stays.
LEMMA JoinedMove ==
    ASSUME IInv, HasRoom, NEW c, NEW names, NEW at, Askable(c, names, at),
           NEW b, b = Bound(c, names, at), NEW body, Placed(b, body),
           NEW m \in Strings, index[m] \in Group(names)
    PROVE  index'[m] = b.slot
<1>1. /\ b.leads = Attached(names) \cup Repointed(names, b.slot)
      /\ index[m] \in Live /\ index[m] \in Slots
  BY BoundShape, GroupReached DEF Askable, Live
<1>2. m \in recs[index[m]].aliases
  BY <1>1 DEF IInv, IndexExact
<1>3. index[m] # b.slot => m \in b.leads
  BY <1>1, <1>2 DEF Repointed, AliasesOf
<1> QED
  BY <1>3 DEF Placed

LEMMA PlacedTogether ==
    ASSUME IInv, HasRoom, NEW c, NEW names, NEW at, Askable(c, names, at),
           NEW b, b = Bound(c, names, at), NEW body, Placed(b, body)
    PROVE  Together
<1> SUFFICES ASSUME NEW m \in Strings, NEW n \in Strings,
                    index[m] # NoSlot, index[m] = index[n]
             PROVE  index'[m] = index'[n]
  BY DEF Together
<1>1. CASE index[m] \in Group(names)
  BY <1>1, JoinedMove
<1>2. CASE index[m] \notin Group(names)
  <2>1. m \notin b.leads /\ n \notin b.leads
    BY <1>2, OthersKept
  <2> QED
    BY <2>1 DEF Placed
<1> QED
  BY <1>1, <1>2

LEMMA StepTogether ==
    ASSUME IInv, [Next]_vars, restarts' = restarts
    PROVE  Together
<1>1. ASSUME UNCHANGED index
      PROVE  Together
  BY <1>1 DEF Together
<1>2. CASE LoadNext
  <2>1. PICK b \in loading :
          IF LoadNames(b) = {} THEN UNCHANGED <<recs, index>>
          ELSE \E body : Placed(Bound(b.canonical, LoadNames(b), LoadAt(b)), body)
    BY <1>2 DEF LoadNext
  <2>2. CASE LoadNames(b) = {}
    BY <1>1, <2>1, <2>2
  <2>3. CASE LoadNames(b) # {}
    <3>1. b \in file /\ HasRoom
      BY <1>2 DEF IInv, TypeOK, LoadNext
    <3>2. Askable(b.canonical, LoadNames(b), LoadAt(b))
      BY <2>3, <3>1, LoadIsAskable
    <3>3. PICK body : Placed(Bound(b.canonical, LoadNames(b), LoadAt(b)), body)
      BY <2>1, <2>3
    <3> QED
      BY <3>1, <3>2, <3>3, PlacedTogether
  <2> QED
    BY <2>2, <2>3
<1>3. ASSUME NEW ids \in Targets, NEW c \in Creds, Record(c, ids)
      PROVE  Together
  <2>1. HasRoom
    BY <1>3 DEF Record, IsOpen
  <2>2. CASE Names(ids) = {}
    BY <1>1, <1>3, <2>2 DEF Record
  <2>3. CASE Names(ids) # {}
    <3>1. Askable(NoName, Names(ids), At(ids))
      BY <2>3, AskedIsAskable
    <3>2. PICK body : Placed(Bound(NoName, Names(ids), At(ids)), body)
      BY <1>3, <2>3 DEF Record
    <3> QED
      BY <2>1, <3>1, <3>2, PlacedTogether
  <2> QED
    BY <2>2, <2>3
<1>4. ASSUME NEW ids \in Folds, Bind(ids)
      PROVE  Together
  <2>1. /\ HasRoom /\ Names(ids) # {}
        /\ \E body : Placed(Bound(ids[1], Names(ids), At(ids)), body)
    BY <1>4 DEF Bind, IsOpen
  <2>2. ids[1] \in Strings /\ (ids[1] \in Refused \/ ids[1] \in Names(ids))
    <3>1. 1 \in DOMAIN ids /\ ids[1] \in Strings
      BY BindingsAssumption
    <3> QED
      BY <3>1, FormsType DEF Names
  <2>3. Askable(ids[1], Names(ids), At(ids))
    BY <2>1, <2>2, AskedIsAskable
  <2> QED
    BY <2>1, <2>3, PlacedTogether
<1>5. ASSUME NEW ids \in Targets, Forget(ids)
      PROVE  Together
  BY <1>1, <1>5 DEF Forget
<1>6. CASE NoteContext
  BY <1>1, <1>6 DEF NoteContext
<1>7. CASE Restart
  <2>1. restarts \in Nat /\ restarts' = restarts + 1
    BY <1>7, BindingsAssumption DEF Restart, IInv, TypeOK
  <2> QED
    BY <2>1
<1>8. CASE UNCHANGED vars
  BY <1>1, <1>8 DEF vars
<1> QED
  BY <1>2, <1>3, <1>4, <1>5, <1>6, <1>7, <1>8 DEF Next

-----------------------------------------------------------------------------
(* A restart keeps devices                                                 *)

\* The records of the file, and what saves make of them, stay apart.
FileApart == RecordsApart(file)

LEMMA StoredApart ==
    ASSUME SetSound'
    PROVE  RecordsApart(Stored(recs'))
<1>1. ASSUME NEW b \in Stored(recs'), NEW c \in Stored(recs'), b # c, NEW m \in Named(b) \cap Named(c)
      PROVE  FALSE
  <2>1. PICK r \in Live' : b = recs'[r]
    BY DEF Stored, Live
  <2>2. PICK q \in Live' : c = recs'[q]
    BY DEF Stored, Live
  <2>3. m \in recs'[r].aliases /\ m \in recs'[q].aliases /\ m \in Strings
    BY <2>1, <2>2, <1>1 DEF Named, StrongIn, SetSound, RecsType, Live, Bodies
  <2>4. index'[m] = r /\ index'[m] = q
    BY <2>3 DEF SetSound, IndexExact, Live
  <2> QED
    BY <1>1, <2>1, <2>2, <2>4
<1>2. ASSUME NEW b \in Stored(recs'), Strong(b.canonical)
      PROVE  b.canonical \in b.aliases \cup Refused
  <2>1. PICK r \in Live' : b = recs'[r]
    BY DEF Stored, Live
  <2> QED
    BY <1>2, <2>1 DEF SetSound, MemorySound, LabelKnown
<1> QED
  BY <1>1, <1>2 DEF RecordsApart

LEMMA FileStaysApart ==
    ASSUME IInv, IInv', FileApart, [Next]_vars
    PROVE  FileApart'
<1>1. file' = file \/ file' = Stored(recs')
  BY DEF Next, LoadNext, Restart, NoteContext, Record, Forget, Bind, Saved, vars
<1>2. CASE file' = file
  BY <1>2 DEF FileApart
<1>3. CASE file' = Stored(recs')
  <2>1. SetSound'
    BY DEF IInv, TypeOK, SetSound, RecsType
  <2>2. RecordsApart(Stored(recs'))
    BY <2>1, StoredApart
  <2> QED
    BY <1>3, <2>2 DEF FileApart
<1> QED
  BY <1>1, <1>2, <1>3

\* Record r has the pin b had, or one as recent, or lost it as the property says.
HasPin(b, r) ==
    b.pin # NoPin =>
        /\ r.ok >= b.ok
        /\ \/ r.pin # NoPin
           \/ \E s \in file : Named(s) = {} /\ s.pin = NoPin /\ s.ok > b.ok

\* While the store opens: what has been loaded is whole, apart and all there is.
LoadedSo(done) ==
    /\ \A b \in done : \A m \in Named(b) : index[m] # NoSlot /\ HasPin(b, recs[index[m]])
    /\ \A b, c \in done : \A m \in Named(b), n \in Named(c) : index[m] = index[n] <=> b = c
    /\ \A m \in Strings : Strong(m) /\ index[m] # NoSlot => \E b \in done : m \in Named(b)
SoFar == loading # {} => LoadedSo(file \ loading)

\* The single record of a group keeps its time and its pin.
LEMMA MergedSingle ==
    ASSUME IInv, NEW c, NEW names, NEW at, Askable(c, names, at),
           NEW t, Group(names) = {t}
    PROVE  /\ Latest(Met(names, at)) = t
           /\ MergedPin(Met(names, at)) = recs[t].pin
<1> DEFINE met == Met(names, at)
           holders == {r \in DOMAIN met : recs[r].pin # NoPin /\ met[Latest(met)] <= met[r]}
<1>1. DOMAIN met = {t} /\ met[t] \in Nat
  BY MetType
<1>2. Latest(met) = t
  BY MergedFrom
<1>3. CASE recs[t].pin = NoPin
  <2>1. holders = {}
    BY <1>1, <1>3
  <2> QED
    BY <1>2, <1>3, <2>1 DEF MergedPin
<1>4. CASE recs[t].pin # NoPin
  <2>1. holders = {t}
    BY <1>1, <1>2, <1>4
  <2>2. FirstMet(met, {t}) = t
    BY <1>1 DEF FirstMet
  <2>3. MergedPin(met) = recs[FirstMet(met, holders)].pin
    BY <2>1 DEF MergedPin
  <2> QED
    BY <1>2, <2>1, <2>2, <2>3
<1> QED
  BY <1>3, <1>4

\* A record is loaded under exactly the strong names it lists.
LEMMA LoadsNamed ==
    ASSUME IInv, FileApart, NEW b \in file
    PROVE  /\ StrongIn(LoadNames(b)) = Named(b)
           /\ LoadNames(b) = {} => Named(b) = {}
<1>1. b \in Bodies /\ b.canonical \in Strings /\ b.aliases \subseteq Strings
  BY DEF IInv, TypeOK, Bodies
<1>2. Strong(b.canonical) => b.canonical \in b.aliases \cup Refused
  BY DEF FileApart, RecordsApart
<1>3. ASSUME NEW n \in StrongIn(LoadNames(b))
      PROVE  n \in Named(b)
  <2>1. PICK id \in b.aliases \cup {b.canonical} : n \in Forms(id)
    BY DEF LoadNames, StrongIn
  <2>2. n = id /\ n \notin Refused /\ Strong(n)
    BY <2>1, <1>1, FormsType DEF StrongIn
  <2> QED
    BY <2>1, <2>2, <1>2 DEF Named, StrongIn
<1>4. ASSUME NEW n \in Named(b)
      PROVE  n \in LoadNames(b) /\ Strong(n)
  BY <1>1, FormsType DEF Named, StrongIn, LoadNames
<1> QED
  BY <1>3, <1>4 DEF StrongIn

\* Slot t took b with body, and nothing else led anywhere else.
Takes(b, t, body) ==
    /\ t \in Slots
    /\ \/ Group(LoadNames(b)) = {} /\ t \notin Live
       \/ Group(LoadNames(b)) = {t} /\ t \in Live /\ (Stub(t) \/ Named(b) = {})
    /\ recs'[t] = body
    /\ \A r \in Slots \ {t} : recs'[r] = recs[r]
    /\ \A m \in Strings : Strong(m) =>
           index'[m] = IF m \in Named(b) THEN t ELSE index[m]

\* Loading a record b of the file whose strong names lead nowhere yet: it gets
\* a record of its own or joins one that identifies nothing; or it identifies
\* nothing itself, and may join any.
LEMMA LoadPlaces ==
    ASSUME IInv, HasRoom, FileApart, NEW b \in file, LoadNames(b) # {},
           \A m \in Named(b) : index[m] = NoSlot,
           NEW new, new = Bound(b.canonical, LoadNames(b), LoadAt(b)),
           NEW body, Placed(new, body)
    PROVE  /\ Askable(b.canonical, LoadNames(b), LoadAt(b))
           /\ Takes(b, new.slot, body)
<1> DEFINE names == LoadNames(b)
           t == new.slot
<1>1. Askable(b.canonical, names, LoadAt(b))
  BY LoadIsAskable
<1>2. StrongIn(names) = Named(b) /\ names \subseteq Strings
  BY <1>1, LoadsNamed DEF Askable
<1>3. Hits(StrongIn(names)) = {}
  BY <1>2 DEF Hits
<1>4. Group(names) = WeakMatch(names)
  BY <1>3 DEF Group
<1>5. /\ t \in Slots
      /\ t \in Group(names) \/ (Group(names) = {} /\ t \notin Live)
      /\ new.gone = Group(names) \ {t}
      /\ new.leads = Attached(names) \cup Repointed(names, t)
  BY <1>1, BoundShape
<1>6. \A r \in Group(names) : r \in Live /\ Group(names) = {r} /\ (Stub(r) \/ Named(b) = {})
  <2> SUFFICES ASSUME NEW r \in Group(names)
               PROVE  r \in Live /\ Group(names) = {r} /\ (Stub(r) \/ Named(b) = {})
    OBVIOUS
  <2>1. r \in Live
    BY <1>2, GroupReached
  <2>2. Hits(WeakIn(names)) = {r} /\ (Stub(r) \/ StrongIn(names) = {})
    BY <1>4 DEF WeakMatch
  <2>3. WeakMatch(names) = {r}
    BY <2>2 DEF WeakMatch
  <2> QED
    BY <2>1, <2>2, <2>3, <1>2, <1>4
<1>7. \/ Group(names) = {} /\ t \notin Live
      \/ Group(names) = {t} /\ t \in Live /\ (Stub(t) \/ Named(b) = {})
  BY <1>5, <1>6
<1>8. new.gone = {} /\ Repointed(names, t) = {}
  BY <1>5, <1>7 DEF Repointed, AliasesOf
<1>9. new.leads = Attached(names)
  BY <1>5, <1>8
<1>10. \A m \in Strings : Strong(m) => (m \in new.leads <=> m \in Named(b))
  BY <1>2, <1>9 DEF Attached, StrongIn, WeakIn
<1>11. recs'[t] = body /\ \A r \in Slots \ {t} : recs'[r] = recs[r]
  BY <1>5, <1>8 DEF Placed
<1>12. \A m \in Strings : Strong(m) => index'[m] = IF m \in Named(b) THEN t ELSE index[m]
  BY <1>10 DEF Placed
<1> QED
  BY <1>1, <1>5, <1>7, <1>11, <1>12 DEF Takes

\* Loading one more record keeps the loaded ones whole and apart.
LEMMA LoadStep ==
    ASSUME IInv, FileApart, LoadedSo(file \ loading), LoadNext
    PROVE  \A more : more = file \ loading' => LoadedSo(more)'
<1> DEFINE done == file \ loading
<1>1. PICK b \in loading :
        /\ loading' = loading \ {b}
        /\ IF LoadNames(b) = {} THEN UNCHANGED <<recs, index>>
           ELSE LET new == Bound(b.canonical, LoadNames(b), LoadAt(b))
                    body == new.body
                IN  Placed(new,
                        IF b.ok > body.ok THEN [body EXCEPT !.pin = b.pin, !.ok = b.ok]
                        ELSE IF body.pin = NoPin THEN [body EXCEPT !.pin = b.pin]
                        ELSE body)
  BY DEF LoadNext
<1>2. file' = file /\ HasRoom /\ loading \subseteq file
  BY DEF LoadNext, IInv, TypeOK
<1>3. b \in file /\ b \in Bodies /\ b \notin done
  BY <1>2 DEF IInv, TypeOK
<1>4. file \ loading' = done \cup {b}
  BY <1>1, <1>2
<1>5. \A c \in file : Named(c) \subseteq Strings /\ \A m \in Named(c) : Strong(m)
  BY DEF Named, StrongIn, IInv, TypeOK, Bodies
<1>6. /\ \A c \in done : \A m \in Named(c) : index[m] # NoSlot /\ HasPin(c, recs[index[m]])
      /\ \A c, d \in done : \A m \in Named(c), n \in Named(d) : index[m] = index[n] <=> c = d
      /\ \A m \in Strings : Strong(m) /\ index[m] # NoSlot => \E c \in done : m \in Named(c)
  BY DEF LoadedSo
<1>7. \A c \in done : Named(b) \cap Named(c) = {}
  BY <1>3 DEF FileApart, RecordsApart
<1>8. \A m \in Named(b) : index[m] = NoSlot
  BY <1>3, <1>5, <1>6, <1>7
<1> SUFFICES ASSUME NEW more, more = file \ loading'
             PROVE  LoadedSo(more)'
  OBVIOUS
<1>9. more = done \cup {b}
  BY <1>4
<1>10. CASE LoadNames(b) = {}
  <2>1. recs' = recs /\ index' = index /\ Named(b) = {}
    BY <1>1, <1>3, <1>10, LoadsNamed
  <2>2. LoadedSo(more)'
    BY <1>2, <1>6, <1>9, <2>1 DEF LoadedSo, HasPin
  <2> QED
    BY <2>2
<1>11. CASE LoadNames(b) # {}
  <2> DEFINE bound == Bound(b.canonical, LoadNames(b), LoadAt(b))
  <2>1. PICK new : new = bound
    OBVIOUS
  <2>2. PICK body : body = IF b.ok > new.body.ok THEN [new.body EXCEPT !.pin = b.pin, !.ok = b.ok]
                           ELSE IF new.body.pin = NoPin THEN [new.body EXCEPT !.pin = b.pin]
                           ELSE new.body
    OBVIOUS
  <2>3. Placed(new, body)
    BY <1>1, <1>11, <2>1, <2>2
  <2>4. PICK t : t = new.slot
    OBVIOUS
  <2>5. /\ Askable(b.canonical, LoadNames(b), LoadAt(b))
        /\ t \in Slots
        /\ \/ Group(LoadNames(b)) = {} /\ t \notin Live
           \/ Group(LoadNames(b)) = {t} /\ t \in Live /\ (Stub(t) \/ Named(b) = {})
        /\ recs'[t] = body
        /\ \A r \in Slots \ {t} : recs'[r] = recs[r]
        /\ \A m \in Strings : Strong(m) =>
               index'[m] = IF m \in Named(b) THEN t ELSE index[m]
    <3> HIDE DEF bound
    <3>1. new = Bound(b.canonical, LoadNames(b), LoadAt(b))
      BY <2>1 DEF bound
    <3>2. Askable(b.canonical, LoadNames(b), LoadAt(b)) /\ Takes(b, new.slot, body)
      BY <1>2, <1>3, <1>8, <1>11, <2>3, <3>1, LoadPlaces
    <3> QED
      BY <2>4, <3>2 DEF Takes
  <2>6. /\ \E al, ca, pi, o : new.body = [aliases |-> al, canonical |-> ca, pin |-> pi, ok |-> o]
        /\ new.body.ok \in Nat /\ b.ok \in Nat
    <3>1. \E al, ca, pi, o : new.body = [aliases |-> al, canonical |-> ca, pin |-> pi, ok |-> o]
      BY <2>1 DEF Bound
    <3>2. new.body.ok \in Nat
      BY <1>2, <2>1, <2>5, BoundPin
    <3> QED
      BY <3>1, <3>2, <1>3 DEF Bodies
  <2>7. /\ b.ok > new.body.ok => body.pin = b.pin /\ body.ok = b.ok
        /\ ~(b.ok > new.body.ok) =>
             /\ body.ok = new.body.ok
             /\ body.pin = IF new.body.pin = NoPin THEN b.pin ELSE new.body.pin
    BY <2>2, <2>6
  <2>8. HasPin(b, body)
    BY <2>6, <2>7 DEF HasPin
  \* A loaded record that leads to t: then b names no device.
  <2>9. ASSUME NEW c \in done, NEW n \in Named(c), index[n] = t
        PROVE  Named(b) = {} /\ Group(LoadNames(b)) = {t}
    <3>1. n \in Strings /\ Strong(n)
      BY <1>5, <2>9
    <3>2. t \in Live /\ n \in recs[t].aliases
      BY <2>5, <2>9, <3>1 DEF IInv, IndexExact
    <3>3. ~Stub(t)
      BY <3>1, <3>2 DEF Stub, StrongIn
    <3> QED
      BY <2>5, <3>2, <3>3
  <2>10. \A c \in done : \A n \in Named(c) : index'[n] = index[n]
    BY <1>5, <1>7, <2>5
  <2>11. \A n \in Named(b) : index'[n] = t
    BY <1>3, <1>5, <2>5
  <2>12. ASSUME NEW c \in done, NEW n \in Named(c)
         PROVE  index'[n] # NoSlot /\ HasPin(c, recs'[index'[n]])
    <3>1. index'[n] = index[n] /\ index[n] # NoSlot /\ HasPin(c, recs[index[n]])
      BY <1>6, <2>10
    <3>2. CASE index[n] # t
      <4>1. index[n] \in Slots
        BY <1>5, <3>1 DEF IInv, TypeOK
      <4> QED
        BY <2>5, <3>1, <3>2, <4>1
    <3>3. CASE index[n] = t
      <4>1. Named(b) = {} /\ Group(LoadNames(b)) = {t}
        BY <2>9, <3>3
      <4>2. new.body.ok = recs[t].ok /\ new.body.pin = recs[t].pin
        <5>1. /\ new.body.pin = MergedPin(Met(LoadNames(b), LoadAt(b)))
              /\ new.body.ok = recs[Latest(Met(LoadNames(b), LoadAt(b)))].ok
          BY <2>1, <4>1 DEF Bound
        <5> QED
          BY <5>1, <2>5, <4>1, MergedSingle
      <4>3. HasPin(c, recs[t]) /\ c.ok \in Nat
        BY <3>1, <3>3 DEF IInv, TypeOK, Bodies
      <4>4. HasPin(c, body)
        <5> SUFFICES ASSUME c.pin # NoPin
                     PROVE  /\ body.ok >= c.ok
                            /\ \/ body.pin # NoPin
                               \/ \E s \in file : Named(s) = {} /\ s.pin = NoPin /\ s.ok > c.ok
          BY DEF HasPin
        <5>1. /\ recs[t].ok >= c.ok
              /\ \/ recs[t].pin # NoPin
                 \/ \E s \in file : Named(s) = {} /\ s.pin = NoPin /\ s.ok > c.ok
          BY <4>3 DEF HasPin
        <5>2. body.ok >= c.ok
          BY <5>1, <2>6, <2>7, <4>2, <4>3
        <5>3. CASE b.ok > new.body.ok
          <6>1. b.ok > c.ok /\ body.pin = b.pin
            BY <5>1, <5>3, <2>6, <2>7, <4>2, <4>3
          <6> QED
            BY <5>2, <6>1, <1>3, <4>1
        <5>4. CASE ~(b.ok > new.body.ok)
          <6>1. body.pin = IF recs[t].pin = NoPin THEN b.pin ELSE recs[t].pin
            BY <5>4, <2>7, <4>2
          <6> QED
            BY <5>1, <5>2, <6>1
        <5> QED
          BY <5>3, <5>4
      <4> QED
        BY <3>1, <3>3, <4>4, <2>5
    <3> QED
      BY <3>2, <3>3
  <2>13. ASSUME NEW n \in Named(b)
         PROVE  index'[n] # NoSlot /\ HasPin(b, recs'[index'[n]])
    BY <2>5, <2>8, <2>11, BindingsAssumption
  <2>14. ASSUME NEW c \in done, NEW m \in Named(b), NEW n \in Named(c)
         PROVE  index'[m] # index'[n]
    BY <2>9, <2>10, <2>11
  <2>15. \A c, d \in more : \A m \in Named(c), n \in Named(d) : index'[m] = index'[n] <=> c = d
    BY <1>3, <1>6, <1>9, <2>10, <2>11, <2>14
  <2>16. ASSUME NEW m \in Strings, Strong(m), index'[m] # NoSlot
         PROVE  \E c \in more : m \in Named(c)
    BY <1>6, <1>9, <2>5, <2>16
  <2>17. \A c \in more : \A m \in Named(c) : index'[m] # NoSlot /\ HasPin(c, recs'[index'[m]])
    BY <1>9, <2>12, <2>13
  <2>18. \A c, r : HasPin(c, r)' <=> HasPin(c, r)
    BY <1>2 DEF HasPin
  <2>19. LoadedSo(more)'
    BY <1>2, <2>15, <2>16, <2>17 DEF LoadedSo, HasPin
  <2> QED
    BY <2>19
<1> QED
  BY <1>10, <1>11

\* The step RestartKeepsDevices asks for.
Keeps ==
    Loaded =>
        \A b, c \in file : \A m \in Named(b), n \in Named(c) :
            /\ index'[m] # NoSlot
            /\ index'[m] = index'[n] <=> b = c
            /\ b.pin # NoPin =>
                /\ recs'[index'[m]].ok >= b.ok
                /\ \/ recs'[index'[m]].pin # NoPin
                   \/ \E s \in file : Named(s) = {} /\ s.pin = NoPin /\ s.ok > b.ok

LEMMA StepSoFar ==
    ASSUME IInv, FileApart, SoFar, [Next]_vars
    PROVE  SoFar' /\ Keeps
<1>1. CASE LoadNext
  <2>1. LoadedSo(file \ loading) /\ file' = file
    BY <1>1 DEF SoFar, LoadNext
  <2>2. PICK more : more = file \ loading'
    OBVIOUS
  <2>5. LoadedSo(more)'
    BY <1>1, <2>1, <2>2, LoadStep
  <2>3. SoFar'
    BY <2>1, <2>2, <2>5 DEF SoFar
  <2>4. ASSUME loading' = {}
        PROVE  Keeps
    <3>1. more = file
      BY <2>1, <2>2, <2>4
    <3> QED
      BY <2>1, <2>5, <3>1 DEF LoadedSo, HasPin, Keeps
  <2> QED
    BY <2>3, <2>4 DEF Keeps, Loaded
<1>2. CASE Restart
  <2>1. loading' = file' /\ index' = [n \in Strings |-> NoSlot]
    BY <1>2 DEF Restart, Opened
  <2>2. restarts' # restarts
    BY <1>2, BindingsAssumption DEF Restart, IInv, TypeOK
  <2>3. LoadedSo(file \ loading)'
    BY <2>1 DEF LoadedSo
  <2> QED
    BY <2>2, <2>3 DEF SoFar, Keeps, Loaded
<1>3. ASSUME loading = {}, loading' = {}
      PROVE  SoFar' /\ Keeps
  BY <1>3 DEF SoFar, Keeps, Loaded
<1>4. CASE UNCHANGED vars
  BY <1>4 DEF vars, SoFar, LoadedSo, HasPin, Keeps, Loaded
<1>5. CASE NoteContext \/ \E ids \in Folds : Bind(ids)
  BY <1>3, <1>5 DEF NoteContext, Bind, IsOpen
<1>6. CASE \E ids \in Targets : (\E c \in Creds : Record(c, ids)) \/ Forget(ids)
  BY <1>3, <1>6 DEF Record, Forget, IsOpen
<1> QED
  BY <1>1, <1>2, <1>4, <1>5, <1>6 DEF Next

-----------------------------------------------------------------------------
(* The theorems                                                            *)

LEMMA BindingsSound == Spec => []IInv
<1>1. Init => IInv
  BY InitSound
<1>2. IInv /\ [Next]_vars => IInv'
  BY NextKeeps
<1> QED
  BY <1>1, <1>2, PTL DEF Spec

\* The variables keep their types and every record has a label, however many
\* strings, records, successes and restarts there are.
THEOREM BindTypeOK == Spec => []TypeOK
<1>1. IInv => TypeOK
  BY DEF IInv
<1> QED
  BY <1>1, BindingsSound, PTL

\* A string leads to a record exactly when the record lists it: merging and
\* loading leave no stale entry in the index.
THEOREM BindIndexExact == Spec => []IndexExact
<1>1. IInv => IndexExact
  BY DEF IInv
<1> QED
  BY <1>1, BindingsSound, PTL

\* As long as what is asserted together is of one device, no record in memory
\* or in the file ever spans two.
THEOREM BindOneBoxPerRecord == Spec => []OneBoxPerRecord
<1>1. IInv => OneBoxPerRecord
  BY DEF IInv, MemorySound, FileSound, OneBoxPerRecord
<1> QED
  BY <1>1, BindingsSound, PTL

\* A device's address or qualified name never leads to a credential accepted
\* on another identified device.
THEOREM BindPinIsOwn == Spec => []PinIsOwn
<1>1. ASSUME IInv
      PROVE  PinIsOwn
  <2> SUFFICES ASSUME NEW n \in Strings, Strong(n), index[n] # NoSlot,
                      recs[index[n]].pin # NoPin, recs[index[n]].pin.box # Unsure
               PROVE  recs[index[n]].pin.box = Owner[n]
    BY DEF PinIsOwn
  <2>1. index[n] \in Live /\ n \in recs[index[n]].aliases
    BY <1>1 DEF IInv, TypeOK, IndexExact
  <2>2. PICK m \in StrongIn(recs[index[n]].aliases) : recs[index[n]].pin.box = Owner[m]
    BY <1>1, <2>1 DEF IInv, MemorySound, PinKnown
  <2>3. OneBox(recs[index[n]].aliases)
    BY <1>1, <2>1 DEF IInv, MemorySound
  <2> QED
    BY <2>1, <2>2, <2>3 DEF OneBox, StrongIn
<1>2. IInv => PinIsOwn
  BY <1>1
<1> QED
  BY <1>2, BindingsSound, PTL

\* The binding store is sound: its index is exactly its records' aliases, and
\* no record mixes two identified devices (bind, load).
THEOREM BindStoreIsSound == Spec => []StoreIsSound
<1>1. TypeOK /\ IndexExact /\ OneBoxPerRecord => StoreIsSound
  BY DEF StoreIsSound
<1> QED
  BY <1>1, BindTypeOK, BindIndexExact, BindOneBoxPerRecord, PTL

\* What the store has once found to be one device it goes on treating as one,
\* until it is opened again: bind repoints every alias of a record it merges
\* away, and takes none from a record it does not join.
THEOREM BindNamesStayTogether == Spec => NamesStayTogether
<1>1. ASSUME IInv, [Next]_vars
      PROVE  [restarts' = restarts => Together]_vars
  BY <1>1, StepTogether
<1>2. [restarts' = restarts => Together]_vars
        => [\A m, n \in Strings :
               index[m] # NoSlot /\ index[m] = index[n] /\ restarts' = restarts
                   => index'[m] = index'[n]]_vars
  BY DEF Together
<1> QED
  BY <1>1, <1>2, BindingsSound, PTL DEF Spec, NamesStayTogether

\* Opening the store again keeps devices whole and apart: what identified one
\* record of the file leads to one record, what identified two to two, and a
\* pin is not lost but to a later success on a record that identifies nothing.
\* (load, bind, saveLocked.)
THEOREM BindRestartKeepsDevices == Spec => RestartKeepsDevices
<1>1. Init => FileApart /\ SoFar
  <2> SUFFICES ASSUME Init PROVE FileApart /\ SoFar
    OBVIOUS
  <2>1. FileApart
    BY WrittenAssumption DEF Init, FileApart
  <2>2. file \ loading = {}
    BY DEF Init
  <2>3. LoadedSo({})
    BY DEF Init, LoadedSo
  <2> QED
    BY <2>1, <2>2, <2>3 DEF SoFar
<1>2. IInv /\ IInv' /\ FileApart /\ SoFar /\ [Next]_vars
        => FileApart' /\ SoFar' /\ [Keeps]_vars
  BY FileStaysApart, StepSoFar
<1>3. Spec => [][Keeps]_vars
  BY <1>1, <1>2, BindingsSound, PTL DEF Spec
<1> QED
  BY <1>3 DEF Keeps, RestartKeepsDevices

=============================================================================
