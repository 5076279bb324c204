------------------------------ MODULE Bindings ------------------------------
(***************************************************************************)
(* The binding store (internal/credres/binding.go): which credential last  *)
(* opened a device, found by any of the strings the device answers to.     *)
(* A resolver records and forgets pins while the crawl runs, crawldial's   *)
(* Fold binds each connected device's own names after it, and the next run *)
(* opens the file the last successful save left.                           *)
(*                                                                         *)
(* Every operation holds the store's lock from end to end, so each is one  *)
(* step; opening the file is one step per record, since one record's       *)
(* aliases decide what the next may take.  Strings are what                *)
(* normalize.Identifier makes of them.  The hit counter and the list of    *)
(* domain suffixes decide nothing and are left out; the save that a new    *)
(* suffix causes is not.  The clock never goes back.                       *)
(*                                                                         *)
(* Owner and a pin's box are not in the code: they say which device a      *)
(* string really names and on which device a credential was accepted.      *)
(***************************************************************************)
EXTENDS Integers, Sequences, FiniteSets, FiniteSetsExt

CONSTANTS
    Strings,    \* what devices are called: addresses, qualified names, labels
    Shape,      \* [Strings -> {"addr", "qualified", "bare"}]
    Short,      \* [Strings -> Strings]: the first label of a qualified name
    Refused,    \* parsing debris, chassis MACs, CGNAT addresses
    Alpha,      \* [Strings -> Nat]: alphabetical position, no two alike
    Boxes,      \* devices
    Owner,      \* [Strings -> Boxes]: read for addresses and qualified names
    Creds,      \* credential ids
    Targets,    \* what a resolver may ask for: sequences of strings
    Folds,      \* what Fold may bind: sequences of strings, the canonical first
    FilesAtStart, \* what the file may hold before the first run
    Slots,      \* places for records; a bound on how many there are
    NoSlot, NoRecord, NoName, NoPin, Unsure,
    MaxTime,    \* bound on successes recorded
    MaxRestarts \* bound on runs after the first

Strong(n) == Shape[n] # "bare"

\* The forms of an identity: itself, and a qualified name's first label.
Forms(id) ==
    IF id \in Refused THEN {}
    ELSE IF Shape[id] = "qualified" THEN {id, Short[id]} ELSE {id}

\* shapesForAll: the names in ids, and where each is first met.
Names(ids) == UNION {Forms(ids[i]) : i \in DOMAIN ids}
At(ids) ==
    [n \in Names(ids) |->
        Min({IF ids[i] = n THEN 2 * i ELSE 2 * i + 1 :
                i \in {j \in DOMAIN ids : n \in Forms(ids[j])}})]

StrongIn(names) == {n \in names : Strong(n)}
WeakIn(names) == {n \in names : ~Strong(n)}

\* The device ids speak of, where they identify one.
BoxOf(names) ==
    IF StrongIn(names) = {} THEN Unsure
    ELSE Owner[CHOOSE n \in StrongIn(names) : TRUE]

Pins == [cred : Creds, box : Boxes \cup {Unsure}]
Bodies == [aliases : SUBSET Strings, canonical : Strings \cup {NoName},
           pin : Pins \cup {NoPin}, ok : Nat]

ASSUME BindingsAssumption ==
    /\ IsFiniteSet(Strings) /\ Shape \in [Strings -> {"addr", "qualified", "bare"}]
    /\ Short \in [Strings -> Strings]
    /\ \A n \in Strings : Shape[n] = "qualified" => Shape[Short[n]] = "bare"
    /\ Refused \subseteq Strings
    /\ Alpha \in [Strings -> Nat] /\ \A m, n \in Strings : Alpha[m] = Alpha[n] => m = n
    /\ Owner \in [Strings -> Boxes]
    /\ Targets \subseteq Seq(Strings) /\ Folds \subseteq Seq(Strings) \ {<<>>}
    /\ FilesAtStart \subseteq SUBSET Bodies
    /\ NoSlot \notin Slots /\ NoName \notin Strings
    /\ NoRecord \notin Bodies /\ NoPin \notin Pins /\ Unsure \notin Boxes
    /\ MaxTime \in Nat /\ MaxRestarts \in Nat

\* What a resolver and a crawl assert is true: addresses and qualified names
\* that come together are of one device.
OneBox(names) == \A m, n \in StrongIn(names) : Owner[m] = Owner[n]
ASSUME TruthfulAssumption ==
    /\ \A ids \in Targets \cup Folds : OneBox(Names(ids))
    /\ \A f \in FilesAtStart : \A b \in f :
        /\ b.canonical # NoName
        /\ OneBox(b.aliases \cup {b.canonical})
        /\ b.pin # NoPin => b.pin.box = Unsure

\* The addresses and qualified names a record of the file is loaded under.
Named(b) == StrongIn(b.aliases) \ Refused

\* A first-format file has a record per string, a later one what bind keeps
\* apart: no two records of a file identify one device by one string.
RecordsApart(f) ==
    /\ \A b, c \in f : b # c => Named(b) \cap Named(c) = {}
    /\ \A b \in f : Strong(b.canonical) => b.canonical \in b.aliases \cup Refused
ASSUME WrittenAssumption == \A f \in FilesAtStart : RecordsApart(f)

VARIABLES
    recs,       \* aliasSet.records: [Slots -> Bodies \cup {NoRecord}]
    index,      \* aliasSet.index: [Strings -> Slots \cup {NoSlot}]
    file,       \* the records of the binding file
    loading,    \* while the store opens: the records not yet loaded
    now,        \* the clock: successes recorded so far
    restarts
vars == <<recs, index, file, loading, now, restarts>>

-----------------------------------------------------------------------------
(* The alias set                                                           *)

Live == {r \in Slots : recs[r] # NoRecord}
HasRoom == Live # Slots
Fresh == CHOOSE r \in Slots : recs[r] = NoRecord

\* hasStrong, negated: a record nothing has identified yet.
Stub(r) == StrongIn(recs[r].aliases) = {}

Hits(names) == {index[n] : n \in names} \ {NoSlot}

\* The single record bare labels lead to, if it may be joined on a label alone.
\* Mutant: two identified devices may share a label and become one.
WeakMatch_Always(names) ==
    LET hits == Hits(WeakIn(names)) IN {r \in hits : hits = {r}}

WeakMatch(names) ==
    LET hits == Hits(WeakIn(names))
    IN  {r \in hits : hits = {r} /\ (Stub(r) \/ StrongIn(names) = {})}

\* The records that are one device from here on: all that the strong names
\* lead to, or else the one the labels may join.
\* Mutant: only the first strong match counts.
Group_FirstOnly(names) ==
    LET strong == Hits(StrongIn(names))
    IN  IF strong # {} THEN {CHOOSE r \in strong : TRUE} ELSE WeakMatch(names)

Group(names) ==
    LET strong == Hits(StrongIn(names))
    IN  IF strong # {} THEN strong ELSE WeakMatch(names)

\* Where each record of the group is first met, among the names that decide.
Met(names, at) ==
    LET strong == StrongIn(names)
        deciding == IF Hits(strong) # {} THEN strong ELSE WeakIn(names)
    IN  [r \in Group(names) |-> Min({at[n] : n \in {m \in deciding : index[m] = r}})]

FirstMet(met, S) == CHOOSE r \in S : \A q \in S : met[r] <= met[q]

\* merge, over the records met: the latest success gives the pin, and where
\* that pin is gone the next record met that has one.
Latest(met) ==
    FirstMet(met, {r \in DOMAIN met : \A q \in DOMAIN met : recs[q].ok <= recs[r].ok})
MergedPin(met) ==
    LET from == met[Latest(met)]
        holders == {r \in DOMAIN met : recs[r].pin # NoPin /\ from <= met[r]}
    IN  IF holders = {} THEN NoPin ELSE recs[FirstMet(met, holders)].pin

\* betterCanonical: a name before an address, a qualified one before a bare
\* one, and of equals the first in the alphabet.
Rank(n) ==
    CASE Shape[n] = "addr" -> 0 [] Shape[n] = "bare" -> 1 [] Shape[n] = "qualified" -> 2
Best(S) ==
    CHOOSE n \in S : \A m \in S :
        Rank(m) < Rank(n) \/ (Rank(m) = Rank(n) /\ Alpha[n] <= Alpha[m])

Label(labels, names, at) ==
    IF labels # {} THEN Best(labels)
    ELSE CHOOSE n \in names : \A m \in names : at[n] <= at[m]

AliasesOf(S) == UNION {recs[r].aliases : r \in S}

Attached(names) == StrongIn(names) \cup {n \in WeakIn(names) : index[n] = NoSlot}

\* The aliases of the records merged into the target, which it takes over.
\* Mutant: the index keeps leading to the record that was merged away.
Repointed_Lost(names, t) == {}

Repointed(names, t) == AliasesOf(Group(names) \ {t})

\* bind: the record names belong to, made or merged as needed, and the alias
\* set after it.
Bound(canonical, names, at) ==
    LET group == Group(names)
        met == Met(names, at)
        t == IF group = {} THEN Fresh ELSE FirstMet(met, group)
        aliases == AliasesOf(group) \cup Attached(names)
        labels == ({recs[r].canonical : r \in group} \cup {canonical} \cup aliases) \ {NoName}
        body == [aliases |-> aliases,
                 canonical |-> Label(labels, names, at),
                 pin |-> IF group = {} THEN NoPin ELSE MergedPin(met),
                 ok |-> IF group = {} THEN 0 ELSE recs[Latest(met)].ok]
    IN  [slot |-> t,
         body |-> body,
         gone |-> group \ {t},
         leads |-> Attached(names) \cup Repointed(names, t)]

\* The alias set once b, a result of Bound, is in place with body in its slot.
Placed(b, body) ==
    /\ recs' = [r \in Slots |-> IF r = b.slot THEN body
                                ELSE IF r \in b.gone THEN NoRecord ELSE recs[r]]
    /\ index' = [n \in Strings |-> IF n \in b.leads THEN b.slot ELSE index[n]]

-----------------------------------------------------------------------------
(* The file                                                                *)

Stored(R) == {R[r] : r \in {q \in Slots : R[q] # NoRecord}}

\* saveLocked: the file is replaced whole, or the write fails and the old one
\* stays; memory has changed either way.
Saved == file' \in {file, Stored(recs')}

\* OpenFileBindings.
Opened(f) ==
    /\ loading' = f
    /\ recs' = [r \in Slots |-> NoRecord]
    /\ index' = [n \in Strings |-> NoSlot]

Init ==
    /\ file \in FilesAtStart
    /\ loading = file
    /\ recs = [r \in Slots |-> NoRecord]
    /\ index = [n \in Strings |-> NoSlot]
    /\ now = 0
    /\ restarts = 0

\* load, one record: in the file's order, by canonical.
\* Mutant: the aliases are not read back.
LoadNames_CanonicalOnly(b) == Forms(b.canonical)

LoadNames(b) ==
    Forms(b.canonical) \cup UNION {Forms(n) : n \in b.aliases}

\* Where a loaded name is met: the canonical first, then the sorted aliases.
LoadAt(b) == [n \in Strings |-> IF n \in Forms(b.canonical) THEN 0 ELSE Alpha[n] + 1]

LoadNext ==
    /\ HasRoom
    /\ \E b \in loading :
        /\ \A c \in loading : Alpha[b.canonical] <= Alpha[c.canonical]
        /\ loading' = loading \ {b}
        /\ IF LoadNames(b) = {} THEN UNCHANGED <<recs, index>>
           ELSE LET new == Bound(b.canonical, LoadNames(b), LoadAt(b))
                    body == new.body
                IN  Placed(new,
                        IF b.ok > body.ok THEN [body EXCEPT !.pin = b.pin, !.ok = b.ok]
                        ELSE IF body.pin = NoPin THEN [body EXCEPT !.pin = b.pin]
                        ELSE body)
    /\ UNCHANGED <<file, now, restarts>>

\* A crash, or a run that ends and another that opens the store.
Restart ==
    /\ restarts < MaxRestarts
    /\ restarts' = restarts + 1
    /\ Opened(file)
    /\ UNCHANGED <<file, now>>

-----------------------------------------------------------------------------
(* The operations                                                          *)

IsOpen == loading = {} /\ HasRoom

\* Record: a success on the device ids name.  The file is written even when
\* nothing in ids could be admitted.
Record(c, ids) ==
    LET names == Names(ids)
        b == Bound(NoName, names, At(ids))
    IN  /\ IsOpen
        /\ now < MaxTime
        /\ now' = now + 1
        /\ IF names = {} THEN UNCHANGED <<recs, index>>
           ELSE Placed(b, [aliases |-> b.body.aliases, canonical |-> b.body.canonical,
                            pin |-> [cred |-> c, box |-> BoxOf(names)], ok |-> now + 1])
        /\ Saved
        /\ UNCHANGED <<loading, restarts>>

\* Forget: the pin of the first record met goes, its aliases stay.
Forget(ids) ==
    LET known == {n \in Names(ids) : index[n] # NoSlot}
        first == CHOOSE n \in known : \A m \in known : At(ids)[n] <= At(ids)[m]
    IN  /\ IsOpen
        /\ known # {}
        /\ recs[index[first]].pin # NoPin
        /\ recs' = [recs EXCEPT ![index[first]].pin = NoPin]
        /\ Saved
        /\ UNCHANGED <<index, loading, now, restarts>>

\* Bind, as Fold calls it: the label first, then the names of the device.
Bind(ids) ==
    LET names == Names(ids)
        b == Bound(ids[1], names, At(ids))
    IN  /\ IsOpen
        /\ names # {}
        /\ Placed(b, b.body)
        /\ Saved
        /\ UNCHANGED <<loading, now, restarts>>

\* Fold's last call: a suffix not seen before writes the file again.
NoteContext ==
    /\ IsOpen
    /\ file' \in {file, Stored(recs)}
    /\ UNCHANGED <<recs, index, loading, now, restarts>>

Next ==
    \/ LoadNext
    \/ Restart
    \/ NoteContext
    \/ \E ids \in Targets : (\E c \in Creds : Record(c, ids)) \/ Forget(ids)
    \/ \E ids \in Folds : Bind(ids)

Spec == Init /\ [][Next]_vars

-----------------------------------------------------------------------------
(* Properties                                                              *)

\* Types of the variables; a record holds a usable label once it exists.
TypeOK ==
    /\ recs \in [Slots -> Bodies \cup {NoRecord}]
    /\ \A r \in Live : recs[r].canonical # NoName
    /\ index \in [Strings -> Slots \cup {NoSlot}]
    /\ file \subseteq Bodies /\ loading \subseteq file
    /\ \A b \in file : b.canonical # NoName
    /\ now \in 0..MaxTime /\ restarts \in 0..MaxRestarts

\* The index leads from a string to a record exactly when the record lists the
\* string: merging leaves no entry behind on the record it removed, and a
\* string is an alias of one record only.
IndexExact ==
    \A n \in Strings, r \in Slots :
        index[n] = r <=> r \in Live /\ n \in recs[r].aliases

\* bind never joins two devices: the addresses and qualified names of one
\* record, in memory or in the file, are of one device.
OneBoxPerRecord ==
    /\ \A r \in Live : OneBox(recs[r].aliases)
    /\ \A b \in file : OneBox(b.aliases)

\* The store keeps devices apart and leads to them exactly.
StoreIsSound == TypeOK /\ IndexExact /\ OneBoxPerRecord

\* The address or qualified name of a device never leads to a credential that
\* was accepted on another identified device, in whatever order the two are
\* met, merged, saved and loaded.
PinIsOwn ==
    \A n \in Strings :
        Strong(n) /\ index[n] # NoSlot /\ recs[index[n]].pin # NoPin
            => recs[index[n]].pin.box \in {Owner[n], Unsure}

\* Devices do not split: two names of one record lead to one record after any
\* later operation (a restart forgets what was not saved).
NamesStayTogether ==
    [][\A m, n \in Strings :
        index[m] # NoSlot /\ index[m] = index[n] /\ restarts' = restarts
            => index'[m] = index'[n]]_vars

\* The last record of the file has been loaded.
Loaded == loading # {} /\ loading' = {} /\ restarts' = restarts

\* A restart keeps devices whole and apart: the addresses and qualified names
\* the file lists for one record lead to one record again, those of two
\* records to two, and a device that had a pin has one at least as recent,
\* unless a record that identifies no device took a later success into its
\* own and had its pin forgotten.
RestartKeepsDevices ==
    [][Loaded =>
        \A b, c \in file : \A m \in Named(b), n \in Named(c) :
            /\ index'[m] # NoSlot
            /\ index'[m] = index'[n] <=> b = c
            /\ b.pin # NoPin =>
                /\ recs'[index'[m]].ok >= b.ok
                /\ \/ recs'[index'[m]].pin # NoPin
                   \/ \E s \in file : Named(s) = {} /\ s.pin = NoPin /\ s.ok > b.ok]_vars

=============================================================================
