---------------------------- MODULE VaultProofs -----------------------------
(***************************************************************************)
(* Proofs about Vault, for every number of processes and threads, every    *)
(* set of passwords, names and inputs, and every interleaving and failure: *)
(* what is stored is in order and opens, and what a vault holds is what    *)
(* the file holds unless the model says otherwise.                         *)
(***************************************************************************)
EXTENDS Vault, TLAPS

-----------------------------------------------------------------------------
(* Collections of credentials                                              *)

\* Credentials in order, each with its own secret, among those given out.
Fine(creds, g) ==
    creds \in Creds /\ Orderly(creds) /\ OwnSecrets(creds) /\ DOMAIN creds \subseteq g

LEMMA CredsShape ==
    ASSUME NEW creds
    PROVE  creds \in Creds <=> /\ DOMAIN creds \subseteq Ids
                               /\ creds \in [DOMAIN creds -> Bodies]
BY DEF Creds

LEMMA NoCredsFine ==
    ASSUME NEW g
    PROVE  Fine(NoCreds, g)
<1>1. DOMAIN NoCreds = {} /\ NoCreds \in [{} -> Bodies]
  BY DEF NoCreds
<1> QED
  BY <1>1, CredsShape
  DEF Fine, Orderly, OwnSecrets, NamesDiffer, OneDefault, NoSNMPDefault

LEMMA FineGrows ==
    ASSUME NEW creds, NEW g, NEW h, Fine(creds, g), g \subseteq h
    PROVE  Fine(creds, h)
BY DEF Fine

LEMMA FineBodies ==
    ASSUME NEW creds, NEW g, Fine(creds, g), NEW i \in DOMAIN creds
    PROVE  /\ i \in Ids /\ i \in g
           /\ creds[i] \in Bodies
           /\ creds[i].name \in Names /\ creds[i].snmp \in BOOLEAN
           /\ creds[i].def \in BOOLEAN /\ creds[i].secret = i
<1>1. creds[i] \in Bodies /\ i \in Ids
  BY CredsShape DEF Fine
<1> QED
  BY <1>1 DEF Fine, OwnSecrets, Bodies

LEMMA MarkedBody ==
    ASSUME NEW b \in Bodies, NEW d \in BOOLEAN
    PROVE  /\ Marked(b, d) \in Bodies
           /\ Marked(b, d).name = b.name /\ Marked(b, d).snmp = b.snmp
           /\ Marked(b, d).def = d /\ Marked(b, d).secret = b.secret
BY DEF Marked, Bodies

\* clearDefaultLocked keeps everything in order and leaves no default.
LEMMA UndefaultedFine ==
    ASSUME NEW creds, NEW g, Fine(creds, g)
    PROVE  /\ Fine(Undefaulted(creds), g)
           /\ DOMAIN Undefaulted(creds) = DOMAIN creds
           /\ \A i \in DOMAIN creds :
                /\ Undefaulted(creds)[i].name = creds[i].name
                /\ ~Undefaulted(creds)[i].def
<1> DEFINE u == Undefaulted(creds)
<1>1. DOMAIN u = DOMAIN creds /\ \A i \in DOMAIN creds : u[i] = Marked(creds[i], FALSE)
  BY DEF Undefaulted
<1>2. u \in [DOMAIN u -> Bodies]
  BY <1>1, FineBodies, MarkedBody DEF Undefaulted
<1>3. ASSUME NEW i \in DOMAIN creds
      PROVE  u[i].name = creds[i].name /\ ~u[i].def /\ u[i].secret = i
  <2>1. creds[i] \in Bodies /\ creds[i].secret = i
    BY FineBodies
  <2>2. u[i] = Marked(creds[i], FALSE)
    BY <1>1
  <2> HIDE DEF u
  <2> QED
    BY <2>1, <2>2, MarkedBody
<1> HIDE DEF u
<1>4. u \in Creds /\ DOMAIN u \subseteq g
  BY <1>1, <1>2, CredsShape DEF Fine
<1>5. Orderly(u) /\ OwnSecrets(u)
  BY <1>1, <1>3
  DEF Fine, Orderly, OwnSecrets, NamesDiffer, OneDefault, NoSNMPDefault
<1>6. Fine(u, g)
  BY <1>4, <1>5 DEF Fine
<1>7. DOMAIN u = DOMAIN creds
  BY <1>1
<1>8. \A i \in DOMAIN creds : u[i].name = creds[i].name /\ ~u[i].def
  BY <1>3
<1> QED
  BY <1>6, <1>7, <1>8 DEF u

\* Storing a record: its name is free, and it takes the default over.
LEMMA PutFine ==
    ASSUME NEW creds, NEW g, Fine(creds, g), NEW i \in Ids, NEW b \in Bodies,
           b.secret = i, MayPut(creds, i, b)
    PROVE  Fine(Put(creds, i, b), g \cup {i})
<1> DEFINE others == IF b.def THEN Undefaulted(creds) ELSE creds
           p == Put(creds, i, b)
<1>1. Fine(others, g) /\ DOMAIN others = DOMAIN creds
  BY UndefaultedFine
<1>2. \A j \in DOMAIN creds : others[j].name = creds[j].name /\ (b.def => ~others[j].def)
  BY UndefaultedFine
<1>3. /\ DOMAIN p = DOMAIN creds \cup {i}
      /\ p[i] = b
      /\ \A j \in DOMAIN creds \ {i} : p[j] = others[j]
  BY DEF Put
<1>3a. p = [j \in DOMAIN creds \cup {i} |-> IF j = i THEN b ELSE others[j]]
  BY DEF Put
<1> HIDE DEF others, p
<1>4. p \in [DOMAIN p -> Bodies]
  BY <1>1, <1>3, <1>3a, FineBodies
<1>5. p \in Creds /\ DOMAIN p \subseteq g \cup {i}
  BY <1>1, <1>3, <1>4, CredsShape DEF Fine
<1>6. ~(b.def /\ b.snmp) /\ \A j \in DOMAIN creds \ {i} : Fold[creds[j].name] # Fold[b.name]
  BY DEF MayPut, Taken
<1>7. NamesDiffer(p)
  BY <1>1, <1>2, <1>3, <1>6 DEF NamesDiffer, Fine, Orderly
<1>8. OneDefault(p)
  BY <1>1, <1>2, <1>3 DEF OneDefault, Fine, Orderly
<1>9. NoSNMPDefault(p) /\ OwnSecrets(p)
  BY <1>1, <1>3, <1>6 DEF NoSNMPDefault, OwnSecrets, Fine, Orderly
<1> QED
  BY <1>5, <1>7, <1>8, <1>9 DEF Fine, Orderly, p

\* A metadata form: the record keeps kind and secret, and may take the default.
LEMMA MergeFine ==
    ASSUME NEW creds, NEW g, Fine(creds, g), NEW i, NEW in \in Inputs,
           MayMerge(creds, i, in)
    PROVE  Fine(Merge(creds, i, in), g)
<1> DEFINE takes == in.def /\ ~creds[i].def
           others == IF takes THEN Undefaulted(creds) ELSE creds
           p == Merge(creds, i, in)
<1>1. Fine(others, g) /\ DOMAIN others = DOMAIN creds
  BY UndefaultedFine
<1>2. \A j \in DOMAIN creds : others[j].name = creds[j].name /\ (takes => ~others[j].def)
  BY UndefaultedFine
<1>3. ~takes => others = creds
  OBVIOUS
<1>4. in \in [name : Names, snmp : BOOLEAN, def : BOOLEAN]
  BY VaultAssumption
<1>5. i \in DOMAIN creds /\ \A j \in DOMAIN creds \ {i} : Fold[creds[j].name] # Fold[in.name]
  BY DEF MayMerge, Taken
<1>6. creds[i] \in Bodies /\ creds[i].def \in BOOLEAN /\ creds[i].secret = i
  BY <1>5, FineBodies
<1>7. /\ Merged(creds[i], in) \in Bodies
      /\ Merged(creds[i], in).name = in.name
      /\ Merged(creds[i], in).snmp = creds[i].snmp
      /\ Merged(creds[i], in).def = (creds[i].def \/ in.def)
      /\ Merged(creds[i], in).secret = i
  BY <1>4, <1>6 DEF Merged, Bodies
<1>8. takes => ~creds[i].snmp
  BY DEF MayMerge
<1>9. p = [j \in DOMAIN creds |-> IF j = i THEN Merged(creds[i], in) ELSE others[j]]
  BY DEF Merge
<1> HIDE DEF others, p
<1>10. /\ DOMAIN p = DOMAIN creds
       /\ p[i] = Merged(creds[i], in)
       /\ \A j \in DOMAIN creds \ {i} : p[j] = others[j]
  BY <1>5, <1>9
<1>11. p \in [DOMAIN p -> Bodies]
  BY <1>1, <1>7, <1>9, <1>10, FineBodies
<1>12. p \in Creds /\ DOMAIN p \subseteq g
  BY <1>1, <1>10, <1>11, CredsShape DEF Fine
<1>13. NamesDiffer(p)
  BY <1>2, <1>5, <1>7, <1>10 DEF NamesDiffer, Fine, Orderly
<1>14. OneDefault(p)
  <2>1. CASE takes
    BY <2>1, <1>2, <1>10 DEF OneDefault
  <2>2. CASE ~takes
    <3>1. p[i].def = creds[i].def
      BY <2>2, <1>4, <1>6, <1>7, <1>10
    <3> QED
      BY <3>1, <2>2, <1>3, <1>10 DEF OneDefault, Fine, Orderly
  <2> QED
    BY <2>1, <2>2
<1>15. NoSNMPDefault(p)
  <2>1. p[i].def => ~p[i].snmp
    BY <1>4, <1>5, <1>6, <1>7, <1>8, <1>10 DEF NoSNMPDefault, Fine, Orderly
  <2> QED
    BY <2>1, <1>1, <1>10 DEF NoSNMPDefault, Fine, Orderly
<1>16. OwnSecrets(p)
  BY <1>1, <1>7, <1>10 DEF OwnSecrets, Fine
<1> QED
  BY <1>12, <1>13, <1>14, <1>15, <1>16 DEF Fine, Orderly, p

LEMMA WithoutFine ==
    ASSUME NEW creds, NEW g, Fine(creds, g), NEW i
    PROVE  Fine(Without(creds, i), g)
<1> DEFINE p == Without(creds, i)
<1>1. /\ DOMAIN p = DOMAIN creds \ {i}
      /\ \A j \in DOMAIN creds \ {i} : p[j] = creds[j]
      /\ p \in [DOMAIN p -> Bodies]
  BY FineBodies DEF Without
<1> HIDE DEF p
<1>2. p \in Creds /\ DOMAIN p \subseteq g
  BY <1>1, CredsShape DEF Fine
<1>3. Orderly(p) /\ OwnSecrets(p)
  BY <1>1 DEF Fine, Orderly, OwnSecrets, NamesDiffer, OneDefault, NoSNMPDefault
<1> QED
  BY <1>2, <1>3 DEF Fine, p

LEMMA DefaultingFine ==
    ASSUME NEW creds, NEW g, Fine(creds, g), NEW i, MayDefault(creds, i)
    PROVE  Fine(Defaulting(creds, i), g)
<1> DEFINE p == Defaulting(creds, i)
<1>1. p = [j \in DOMAIN creds |-> Marked(creds[j], j = i)] /\ DOMAIN p = DOMAIN creds
  BY DEF Defaulting
<1>2. ASSUME NEW j \in DOMAIN creds
      PROVE  /\ p[j] \in Bodies
             /\ p[j].name = creds[j].name /\ p[j].snmp = creds[j].snmp
             /\ p[j].secret = j
             /\ p[j].def => j = i
  <2>1. creds[j] \in Bodies /\ creds[j].secret = j
    BY FineBodies
  <2>2. (p[j] = Marked(creds[j], TRUE) /\ j = i) \/ p[j] = Marked(creds[j], FALSE)
    BY <1>1
  <2> HIDE DEF p
  <2> QED
    BY <2>1, <2>2, MarkedBody
<1>3. p \in [DOMAIN p -> Bodies]
  BY <1>1, <1>2
<1> HIDE DEF p
<1>4. p \in Creds /\ DOMAIN p \subseteq g
  BY <1>1, <1>3, CredsShape DEF Fine
<1>5. Orderly(p) /\ OwnSecrets(p)
  BY <1>1, <1>2
  DEF Fine, Orderly, OwnSecrets, NamesDiffer, OneDefault, NoSNMPDefault, MayDefault
<1> QED
  BY <1>4, <1>5 DEF Fine, p

-----------------------------------------------------------------------------
(* What holds in every state.  The file is in order and sealed under its    *)
(* own salt; so is every object's memory; an unlocked object that has the   *)
(* file's last version and nothing unsaved holds what the file holds; what  *)
(* an Unlock read is as good as a file, and is the file until another       *)
(* commits; a running omvault has its vault open.                           *)

MemFine(m, g) ==
    m \in Memories /\ Fine(m.creds, g) /\ (m.key # NoKey => m.key.salt = m.salt)
FileFine(f, g) ==
    f \in Files /\ Fine(f.creds, g) /\ f.sealed.salt = f.salt

Numbers ==
    /\ salts \in Salts
    /\ commits \in Nat /\ failures \in Nat /\ commits + failures <= MaxWrites
    /\ given \subseteq Ids /\ deleted \subseteq given

Stored == file = NoFile \/ FileFine(file, given)

Held ==
    /\ mem \in [Vaults -> Memories]
    /\ seen \in [Vaults -> -1..MaxWrites] /\ unsaved \in [Vaults -> BOOLEAN]
    /\ \A v \in Vaults : MemFine(mem[v], given) /\ seen[v] <= commits

CallFine(c) ==
    /\ at[c] \in AtUnlock =>
         /\ FileFine(at[c].read, given)
         /\ at[c].read.sealed = Key(at[c].master, at[c].read.salt)
         /\ at[c].version <= commits
         /\ at[c].version = commits => file = at[c].read
    /\ at[c] \in AtRename => at[c].body.secret = at[c].id
    /\ at[c] \in AtCommand \cup AtPromote =>
         c \in Commands /\ mem[VaultOf[c]].key # NoKey

Called ==
    /\ at \in [Callers -> {Idle} \cup Calls]
    /\ \A c \in Callers : CallFine(c)

\* What every unlocked vault that has the file's last version holds, failed
\* calls and all, lacks no credential of the file but the deleted; a locked
\* vault of the desktop program has none of its versions.
Remembered ==
    /\ \A v \in Vaults :
         file # NoFile /\ seen[v] = commits /\ ~Locked(v) =>
           DOMAIN file.creds \ deleted \subseteq DOMAIN mem[v].creds
    /\ \A c \in Callers \ Commands : Locked(VaultOf[c]) => seen[VaultOf[c]] = -1

IInv == Numbers /\ Stored /\ Held /\ HeldIsStored /\ Remembered /\ Called

\* The step that KeptUnlessStale asks for.
Kept ==
    file # NoFile =>
        \A i \in DOMAIN file.creds \ DOMAIN file'.creds :
            \/ i \in deleted'
            \/ \E v \in Vaults : seen'[v] = commits' /\ seen[v] # commits
            \/ \E c \in Callers : at[c] \in AtCreate /\ at'[c] = Idle

\* A vault with the file's last version is about to write m.
Keeps(v, m) ==
    file # NoFile /\ seen[v] = commits => DOMAIN file.creds \ deleted' \subseteq DOMAIN m.creds

LEMMA MemFineGrows ==
    ASSUME NEW m, NEW g, NEW h, MemFine(m, g), g \subseteq h
    PROVE  MemFine(m, h)
BY FineGrows DEF MemFine

LEMMA FileFineGrows ==
    ASSUME NEW f, NEW g, NEW h, FileFine(f, g), g \subseteq h
    PROVE  FileFine(f, h)
BY FineGrows DEF FileFine

LEMMA LockedFine ==
    ASSUME NEW s \in Salts, NEW g
    PROVE  MemFine(LockedMemory(s), g) /\ LockedMemory(s).key = NoKey
<1>1. NoCreds \in Creds
  BY NoCredsFine DEF Fine
<1> QED
  BY <1>1, NoCredsFine DEF MemFine, LockedMemory, Memories

\* What an open vault seals is in order and under its own salt.
LEMMA SealedFine ==
    ASSUME NEW m, NEW g, MemFine(m, g), m.key # NoKey
    PROVE  FileFine(Sealed(m), g)
<1>1. m.salt \in Salts /\ m.key \in Keys /\ m.creds \in Creds
  BY DEF MemFine, Memories
<1> QED
  BY <1>1 DEF MemFine, FileFine, Sealed, Files

LEMMA HoldingFine ==
    ASSUME NEW m, NEW g, MemFine(m, g), NEW creds, NEW h, Fine(creds, h)
    PROVE  MemFine([key |-> m.key, salt |-> m.salt, creds |-> creds], h)
<1>1. m.key \in Keys \cup {NoKey} /\ m.salt \in Salts /\ creds \in Creds
  BY DEF MemFine, Memories, Fine
<1> QED
  BY <1>1 DEF MemFine, Memories

LEMMA FreshFine ==
    ASSUME NEW p \in Masters, NEW s \in Salts, NEW creds, NEW g, Fine(creds, g)
    PROVE  /\ MemFine([key |-> Key(p, s), salt |-> s, creds |-> creds], g)
           /\ Key(p, s) # NoKey
<1>1. Key(p, s) \in Keys /\ Key(p, s).salt = s /\ creds \in Creds
  BY DEF Key, Keys, Fine
<1> QED
  BY <1>1, VaultAssumption DEF MemFine, Memories

\* A step of one caller leaves the calls of the others as they were.
LEMMA OthersKept ==
    ASSUME NEW c \in Callers, NEW d \in Callers \ {c}, CallFine(d), Held,
           at'[d] = at[d], given \subseteq given', commits \in Nat, commits' \in Nat,
           commits <= commits', commits' = commits => file' = file,
           NEW n, mem' = [mem EXCEPT ![VaultOf[c]] = n]
    PROVE  CallFine(d)'
<1>1. ASSUME at'[d] \in AtUnlock
      PROVE  /\ FileFine(at[d].read, given')
             /\ at[d].read.sealed = Key(at[d].master, at[d].read.salt)
             /\ at[d].version <= commits'
             /\ at[d].version = commits' => file' = at[d].read
  <2>1. /\ FileFine(at[d].read, given)
        /\ at[d].read.sealed = Key(at[d].master, at[d].read.salt)
        /\ at[d].version <= commits
        /\ at[d].version = commits => file = at[d].read
    BY <1>1 DEF CallFine
  <2>2. at[d].version \in Int
    BY <1>1, VaultAssumption DEF AtUnlock
  <2> QED
    BY <2>1, <2>2, FileFineGrows
<1>2. ASSUME at'[d] \in AtCommand \cup AtPromote
      PROVE  d \in Commands /\ mem'[VaultOf[d]].key # NoKey
  <2>1. d \in Commands /\ mem[VaultOf[d]].key # NoKey
    BY <1>2 DEF CallFine
  <2>2. VaultOf[d] # VaultOf[c] /\ VaultOf[d] \in Vaults
    BY <2>1, VaultAssumption
  <2> QED
    BY <2>1, <2>2 DEF Held
<1>3. at'[d] \in AtRename => at[d].body.secret = at[d].id
  BY DEF CallFine
<1> QED
  BY <1>1, <1>2, <1>3 DEF CallFine

\* A call that has ended, and one of omvault's between two steps.
LEMMA EndedFine ==
    ASSUME NEW c \in Callers, at'[c] = Idle
    PROVE  CallFine(c)'
BY VaultAssumption DEF CallFine, Calls

LEMMA CommandFine ==
    ASSUME NEW c \in Commands, at'[c] \in AtCommand \cup AtPromote,
           mem'[VaultOf[c]].key # NoKey
    PROVE  CallFine(c)'
BY DEF CallFine, AtCommand, AtPromote, AtUnlock, AtRename

-----------------------------------------------------------------------------
(* The three kinds of step                                                 *)

\* A write, done or failed, of memory m; memory becomes n: m, or locked.
LEMMA WriteStep ==
    ASSUME IInv, NEW c \in Callers, NEW m, NEW n,
           given \subseteq given', given' \subseteq Ids, deleted' \subseteq given',
           deleted \subseteq deleted', salts' \in Salts,
           MemFine(m, given'), m.key # NoKey, MemFine(n, given'),
           n = m \/ (n.key = NoKey /\ c \in Commands),
           Keeps(VaultOf[c], m) \/ (at[c] \in AtCreate /\ at'[c] = Idle),
           \/ Commits(VaultOf[c], m)
           \/ Fails(VaultOf[c], -1)
           \/ Fails(VaultOf[c], seen[VaultOf[c]]) /\ Keeps(VaultOf[c], m),
           mem' = [mem EXCEPT ![VaultOf[c]] = n],
           at' \in [Callers -> {Idle} \cup Calls],
           \A d \in Callers \ {c} : at'[d] = at[d],
           at'[c] = Idle \/ (c \in Commands /\ at'[c] \in AtPromote /\ n = m)
    PROVE  IInv' /\ Kept
<1> DEFINE v == VaultOf[c]
<1>1. v \in Vaults
  BY VaultAssumption
<1> HIDE DEF v
<1>2. \/ Commits(v, m)
      \/ \E s \in {-1, seen[v]} : Fails(v, s) /\ (s = -1 \/ Keeps(v, m))
  BY DEF v
<1>3. mem' = [mem EXCEPT ![v] = n]
  BY DEF v
<1>4. n \in Memories /\ mem \in [Vaults -> Memories]
  BY DEF MemFine, IInv, Held
<1>5. /\ mem' \in [Vaults -> Memories] /\ mem'[v] = n
      /\ \A w \in Vaults \ {v} : mem'[w] = mem[w]
  BY <1>1, <1>3, <1>4
<1>6. /\ commits \in Nat /\ failures \in Nat /\ commits + failures <= MaxWrites
      /\ MaxWrites \in Nat
  BY VaultAssumption DEF IInv, Numbers
<1>7. /\ seen \in [Vaults -> -1..MaxWrites] /\ unsaved \in [Vaults -> BOOLEAN]
      /\ \A w \in Vaults : MemFine(mem[w], given) /\ seen[w] <= commits
  BY DEF IInv, Held
<1>8. FileFine(Sealed(m), given')
  BY SealedFine
<1>9. /\ Numbers' /\ Stored'
      /\ commits <= commits' /\ (commits' = commits => file' = file)
      /\ seen' \in [Vaults -> -1..MaxWrites] /\ unsaved' \in [Vaults -> BOOLEAN]
      /\ \A w \in Vaults : seen'[w] <= commits'
  <2>1. CASE Commits(v, m)
    BY <2>1, <1>1, <1>6, <1>7, <1>8 DEF Commits, Numbers, Stored
  <2>2. ASSUME NEW s \in {-1, seen[v]}, Fails(v, s)
        PROVE  /\ Numbers' /\ Stored'
               /\ commits <= commits' /\ (commits' = commits => file' = file)
               /\ seen' \in [Vaults -> -1..MaxWrites] /\ unsaved' \in [Vaults -> BOOLEAN]
               /\ \A w \in Vaults : seen'[w] <= commits'
    <3>1. Stored'
      BY <2>2, FileFineGrows DEF Fails, Stored, IInv
    <3>2. s \in -1..MaxWrites /\ s <= commits
      BY <1>1, <1>6, <1>7
    <3> QED
      BY <2>2, <3>1, <3>2, <1>1, <1>6, <1>7 DEF Fails, Numbers
  <2> QED
    BY <1>2, <2>1, <2>2
<1>10. Held'
  <2>1. \A w \in Vaults : MemFine(mem'[w], given')
    BY <1>5, <1>7, MemFineGrows
  <2> QED
    BY <2>1, <1>5, <1>9 DEF Held
<1>11. HeldIsStored'
  <2> SUFFICES ASSUME NEW w \in Vaults, mem'[w].key # NoKey, seen'[w] = commits', ~unsaved'[w]
               PROVE  file' = Sealed(mem'[w])
    BY DEF HeldIsStored, Locked
  <2>1. CASE Commits(v, m)
    <3>1. w = v
      BY <2>1, <1>1, <1>6, <1>7 DEF Commits
    <3> QED
      BY <3>1, <2>1, <1>5 DEF Commits
  <2>2. ASSUME NEW s \in {-1, seen[v]}, Fails(v, s)
        PROVE  file' = Sealed(mem'[w])
    <3>1. w # v /\ file' = file /\ commits' = commits
      BY <2>2, <1>1, <1>7 DEF Fails
    <3>2. ~unsaved[w] /\ seen'[w] = seen[w]
      BY <3>1, <2>2, <1>1, <1>7 DEF Fails
    <3> QED
      BY <3>1, <3>2, <1>5 DEF IInv, HeldIsStored, Locked
  <2> QED
    BY <1>2, <2>1, <2>2
<1>12. Called'
  <2>1. \A d \in Callers \ {c} : CallFine(d)'
    BY <1>6, <1>9, OthersKept DEF IInv, Called, Numbers
  <2>2. CallFine(c)'
    <3>1. CASE at'[c] = Idle
      BY <3>1, EndedFine
    <3>2. CASE c \in Commands /\ at'[c] \in AtPromote /\ n = m
      BY <3>2, <1>5, CommandFine DEF v
    <3> QED
      BY <3>1, <3>2
  <2> QED
    BY <2>1, <2>2 DEF Called
<1>13. \A u \in Vaults \ {v} : seen'[u] = seen[u]
  BY <1>2, <1>1, <1>7 DEF Commits, Fails
<1>14. Remembered'
  <2>1. ASSUME NEW w \in Vaults, file' # NoFile, seen'[w] = commits', mem'[w].key # NoKey
        PROVE  DOMAIN file'.creds \ deleted' \subseteq DOMAIN mem'[w].creds
    <3>1. CASE Commits(v, m)
      <4>1. w = v /\ file' = Sealed(m)
        BY <2>1, <3>1, <1>1, <1>6, <1>7 DEF Commits
      <4>2. file'.creds = m.creds
        BY <4>1 DEF Sealed
      <4> QED
        BY <2>1, <4>1, <4>2, <1>5
    <3>2. ASSUME NEW s \in {-1, seen[v]}, Fails(v, s), s = -1 \/ Keeps(v, m)
          PROVE  DOMAIN file'.creds \ deleted' \subseteq DOMAIN mem'[w].creds
      <4>1. file' = file /\ commits' = commits
        BY <3>2 DEF Fails
      <4>2. CASE w = v
        <5>1. seen'[v] = s /\ s # -1
          BY <2>1, <3>2, <4>1, <4>2, <1>1, <1>6, <1>7 DEF Fails
        <5>2. seen[v] = commits /\ Keeps(v, m)
          BY <2>1, <3>2, <4>1, <4>2, <5>1
        <5>3. mem'[w] = m
          BY <2>1, <4>2, <1>5
        <5> QED
          BY <2>1, <4>1, <5>2, <5>3 DEF Keeps
      <4>3. CASE w # v
        <5>1. seen[w] = commits /\ mem'[w] = mem[w]
          BY <2>1, <4>1, <4>3, <1>13, <1>5
        <5> QED
          BY <2>1, <4>1, <5>1 DEF IInv, Remembered, Locked
      <4> QED
        BY <4>2, <4>3
    <3> QED
      BY <1>2, <3>1, <3>2
  <2>2. ASSUME NEW d \in Callers \ Commands, mem'[VaultOf[d]].key = NoKey
        PROVE  seen'[VaultOf[d]] = -1
    <3>1. VaultOf[d] \in Vaults
      BY VaultAssumption
    <3>2. CASE VaultOf[d] = v
      <4>1. n.key = NoKey /\ c \in Commands
        BY <2>2, <3>2, <1>5
      <4> QED
        BY <2>2, <3>2, <4>1, VaultAssumption DEF v
    <3>3. CASE VaultOf[d] # v
      BY <2>2, <3>1, <3>3, <1>5, <1>13 DEF IInv, Remembered, Locked
    <3> QED
      BY <3>2, <3>3
  <2> QED
    BY <2>1, <2>2 DEF Remembered, Locked
<1>15. Kept
  <2> SUFFICES ASSUME file # NoFile, NEW i \in DOMAIN file.creds \ DOMAIN file'.creds,
                      i \notin deleted', seen[v] = commits
               PROVE  \E d \in Callers : at[d] \in AtCreate /\ at'[d] = Idle
    <3>1. ASSUME seen[v] # commits, file' # file
          PROVE  seen'[v] = commits'
      BY <3>1, <1>1, <1>2, <1>7 DEF Commits, Fails
    <3> QED
      BY <3>1, <1>1 DEF Kept
  <2>1. file' = Sealed(m) /\ file'.creds = m.creds
    BY <1>2 DEF Commits, Fails, Sealed
  <2>2. ~Keeps(v, m)
    BY <2>1 DEF Keeps
  <2> QED
    BY <2>2 DEF v
<1> QED
  BY <1>9, <1>10, <1>11, <1>12, <1>14, <1>15 DEF IInv

\* A step that writes nothing: memory becomes n, as good as the file if it
\* claims to be.
LEMMA MemoryStep ==
    ASSUME IInv, NEW c \in Callers, NEW n, NEW w,
           MemFine(n, given), mem' = [mem EXCEPT ![VaultOf[c]] = n],
           UNCHANGED <<written, salts, called>>,
           seen' \in [Vaults -> -1..MaxWrites], unsaved' \in [Vaults -> BOOLEAN],
           \A u \in Vaults \ {VaultOf[c]} : seen'[u] = seen[u] /\ unsaved'[u] = unsaved[u],
           seen'[VaultOf[c]] <= commits,
           n.key # NoKey /\ seen'[VaultOf[c]] = commits /\ ~unsaved'[VaultOf[c]]
             => file = Sealed(n),
           n.key # NoKey /\ file # NoFile /\ seen'[VaultOf[c]] = commits
             => DOMAIN file.creds \ deleted \subseteq DOMAIN n.creds,
           n.key = NoKey => seen'[VaultOf[c]] = -1 \/ c \in Commands,
           at' = [at EXCEPT ![c] = w], w \in {Idle} \cup Calls, CallFine(c)'
    PROVE  IInv' /\ Kept
<1> DEFINE v == VaultOf[c]
<1>1. v \in Vaults
  BY VaultAssumption
<1>2. n \in Memories /\ mem \in [Vaults -> Memories]
  BY DEF MemFine, IInv, Held
<1>3. /\ mem' \in [Vaults -> Memories] /\ mem'[v] = n
      /\ \A u \in Vaults \ {v} : mem'[u] = mem[u]
  BY <1>1, <1>2
<1>4. file' = file /\ commits' = commits /\ given' = given
  BY DEF written, called
<1>5. Numbers' /\ Stored'
  BY DEF IInv, Numbers, Stored, written, called
<1>6. Held'
  BY <1>3, <1>4 DEF IInv, Held
<1>7. HeldIsStored'
  <2> SUFFICES ASSUME NEW u \in Vaults, mem'[u].key # NoKey, seen'[u] = commits', ~unsaved'[u]
               PROVE  file' = Sealed(mem'[u])
    BY DEF HeldIsStored, Locked
  <2>1. CASE u = v
    BY <2>1, <1>3, <1>4
  <2>2. CASE u # v
    <3>1. mem[u].key # NoKey /\ seen[u] = commits /\ ~unsaved[u]
      BY <2>2, <1>3, <1>4
    <3> QED
      BY <2>2, <3>1, <1>3, <1>4 DEF IInv, HeldIsStored, Locked
  <2> QED
    BY <2>1, <2>2
<1>8. Called'
  <2>1. at' \in [Callers -> {Idle} \cup Calls] /\ \A d \in Callers \ {c} : at'[d] = at[d]
    BY DEF IInv, Called
  <2>2. /\ \A d \in Callers : CallFine(d)
        /\ Held /\ commits \in Nat /\ commits' \in Nat
        /\ given \subseteq given' /\ commits <= commits'
    BY <1>4 DEF IInv, Called, Numbers
  <2>3. \A d \in Callers \ {c} : CallFine(d)'
    BY <2>1, <2>2, <1>4, OthersKept
  <2> QED
    BY <2>1, <2>3 DEF Called
<1>9. Remembered'
  <2>1. ASSUME NEW u \in Vaults, file' # NoFile, seen'[u] = commits', mem'[u].key # NoKey
        PROVE  DOMAIN file'.creds \ deleted' \subseteq DOMAIN mem'[u].creds
    <3>1. deleted' = deleted
      BY DEF called
    <3>2. CASE u = v
      BY <2>1, <3>1, <3>2, <1>3, <1>4
    <3>3. CASE u # v
      BY <2>1, <3>1, <3>3, <1>3, <1>4 DEF IInv, Remembered, Locked
    <3> QED
      BY <3>2, <3>3
  <2>2. ASSUME NEW d \in Callers \ Commands, mem'[VaultOf[d]].key = NoKey
        PROVE  seen'[VaultOf[d]] = -1
    <3>1. VaultOf[d] \in Vaults
      BY VaultAssumption
    <3>2. CASE VaultOf[d] = v
      BY <2>2, <3>2, <1>3, VaultAssumption
    <3>3. CASE VaultOf[d] # v
      BY <2>2, <3>1, <3>3, <1>3 DEF IInv, Remembered, Locked
    <3> QED
      BY <3>2, <3>3
  <2> QED
    BY <2>1, <2>2 DEF Remembered, Locked
<1>10. Kept
  BY <1>4 DEF Kept
<1> QED
  BY <1>5, <1>6, <1>7, <1>8, <1>9, <1>10 DEF IInv

\* A step that only reads.
LEMMA ReadStep ==
    ASSUME IInv, NEW c \in Callers, NEW w \in {Idle} \cup Calls,
           UNCHANGED <<written, mem, salts, seen, unsaved, called>>,
           at' = [at EXCEPT ![c] = w], CallFine(c)'
    PROVE  IInv' /\ Kept
<1> DEFINE v == VaultOf[c]
<1>1. v \in Vaults
  BY VaultAssumption
<1>2. mem' = [mem EXCEPT ![v] = mem[v]] /\ MemFine(mem[v], given)
  BY <1>1 DEF IInv, Held
<1>3. /\ seen' \in [Vaults -> -1..MaxWrites] /\ unsaved' \in [Vaults -> BOOLEAN]
      /\ seen' = seen /\ unsaved' = unsaved /\ seen[v] <= commits
  BY <1>1 DEF IInv, Held
<1>4. mem[v].key # NoKey /\ seen[v] = commits /\ ~unsaved[v] => file = Sealed(mem[v])
  BY <1>1 DEF IInv, HeldIsStored, Locked
<1>5. /\ mem[v].key # NoKey /\ file # NoFile /\ seen[v] = commits
           => DOMAIN file.creds \ deleted \subseteq DOMAIN mem[v].creds
      /\ mem[v].key = NoKey => seen[v] = -1 \/ c \in Commands
  BY <1>1 DEF IInv, Remembered, Locked
<1> QED
  BY <1>2, <1>3, <1>4, <1>5, MemoryStep

-----------------------------------------------------------------------------
(* Each action keeps the invariant                                         *)

LEMMA HeldBy ==
    ASSUME IInv, NEW c \in Callers
    PROVE  /\ VaultOf[c] \in Vaults
           /\ MemFine(mem[VaultOf[c]], given)
           /\ Fine(CredsOf(c), given)
           /\ mem[VaultOf[c]].salt \in Salts
           /\ CredsOf(c) \in Creds /\ DOMAIN CredsOf(c) \subseteq given
<1>1. VaultOf[c] \in Vaults
  BY VaultAssumption
<1>2. MemFine(mem[VaultOf[c]], given)
  BY <1>1 DEF IInv, Held
<1> QED
  BY <1>1, <1>2 DEF MemFine, Memories, CredsOf, Fine

\* A record made of what a caller supplies.
LEMMA ForBody ==
    ASSUME NEW i \in Ids, NEW in \in Inputs
    PROVE  /\ For(i, in) \in Bodies /\ For(i, in).secret = i
           /\ Marked(For(i, in), FALSE) \in Bodies
           /\ Marked(For(i, in), FALSE).secret = i
<1>1. in \in [name : Names, snmp : BOOLEAN, def : BOOLEAN]
  BY VaultAssumption
<1> QED
  BY <1>1 DEF For, Marked, Bodies

\* What the methods make of the credentials takes none away but the removed.
LEMMA Domains ==
    ASSUME NEW creds, NEW i
    PROVE  /\ DOMAIN Undefaulted(creds) = DOMAIN creds
           /\ DOMAIN Defaulting(creds, i) = DOMAIN creds
           /\ DOMAIN Without(creds, i) = DOMAIN creds \ {i}
           /\ \A b : DOMAIN creds \subseteq DOMAIN Put(creds, i, b)
BY DEF Undefaulted, Defaulting, Without, Put

\* Writing on what an open vault holds keeps what the file has.
LEMMA HoldingKeeps ==
    ASSUME IInv, NEW c \in Callers, ~Locked(VaultOf[c]), NEW creds,
           deleted \subseteq deleted', DOMAIN CredsOf(c) \ deleted' \subseteq DOMAIN creds
    PROVE  Keeps(VaultOf[c], Holding(VaultOf[c], creds))
<1> DEFINE m == Holding(VaultOf[c], creds)
<1>1. m.creds = creds
  BY DEF Holding
<1>2. CredsOf(c) = mem[VaultOf[c]].creds /\ VaultOf[c] \in Vaults
  BY VaultAssumption DEF CredsOf
<1>3. file # NoFile /\ seen[VaultOf[c]] = commits
        => DOMAIN file.creds \ deleted \subseteq DOMAIN CredsOf(c)
  BY <1>2 DEF IInv, Remembered
<1> HIDE DEF m
<1>4. Keeps(VaultOf[c], m)
  BY <1>1, <1>3 DEF Keeps
<1> QED
  BY <1>4 DEF m

\* Any method of the surface that saves credentials in order.
LEMMA SaveStep ==
    ASSUME IInv, NEW c \in Callers, ~Locked(VaultOf[c]),
           NEW creds, Fine(creds, given'), SaveCreds(c, creds),
           given \subseteq given', given' \subseteq Ids, deleted' \subseteq given',
           deleted \subseteq deleted', DOMAIN CredsOf(c) \ deleted' \subseteq DOMAIN creds,
           UNCHANGED salts, at' = [at EXCEPT ![c] = Idle] \/ (at' = at /\ at[c] = Idle)
    PROVE  IInv' /\ Kept
<1> DEFINE m == Holding(VaultOf[c], creds)
<1>1. mem[VaultOf[c]].key # NoKey
  BY DEF Locked
<1>2. MemFine(m, given') /\ m.key # NoKey
  BY <1>1, HeldBy, HoldingFine DEF Holding
<1>3. salts' \in Salts
  BY DEF IInv, Numbers
<1>4. /\ at' \in [Callers -> {Idle} \cup Calls] /\ at'[c] = Idle
      /\ \A d \in Callers \ {c} : at'[d] = at[d]
  BY DEF IInv, Called
<1>5. /\ mem' = [mem EXCEPT ![VaultOf[c]] = m]
      /\ Commits(VaultOf[c], m) \/ Fails(VaultOf[c], seen[VaultOf[c]])
  BY DEF SaveCreds, Save
<1>6. Keeps(VaultOf[c], m)
  BY HoldingKeeps
<1> HIDE DEF m
<1> QED
  BY <1>2, <1>3, <1>4, <1>5, <1>6, WriteStep

LEMMA CreateStep ==
    ASSUME IInv, NEW c \in Workers, Creating(c)
    PROVE  IInv' /\ Kept
<1>1. c \in Callers /\ at[c] \in {Idle} \cup Calls
  BY VaultAssumption DEF IInv, Called
<1>2. ASSUME NEW m \in Masters, CreateCheck(c, m)
      PROVE  IInv' /\ Kept
  <2> DEFINE w == [op |-> "create", master |-> m]
  <2>1. w \in AtCreate
    BY DEF AtCreate
  <2>2. at' = [at EXCEPT ![c] = w] /\ at'[c] = w
    BY <1>1, <1>2 DEF CreateCheck, Goes, IInv, Called
  <2>3. CallFine(c)'
    BY <2>2 DEF CallFine, AtUnlock, AtRename, AtCommand, AtPromote
  <2> HIDE DEF w
  <2> QED
    BY <1>1, <1>2, <2>1, <2>2, <2>3, ReadStep DEF CreateCheck, Calls
<1>3. CASE CreateWrite(c)
  <2> DEFINE m == [key |-> Key(at[c].master, salts'), salt |-> salts', creds |-> NoCreds]
  <2>1. at[c].master \in Masters /\ salts' \in Salts
    BY <1>3, VaultAssumption DEF CreateWrite, AtCreate, IInv, Numbers, Salts
  <2>2. MemFine(m, given) /\ m.key # NoKey
    BY <2>1, FreshFine, NoCredsFine
  <2>3. /\ mem' = [mem EXCEPT ![VaultOf[c]] = m]
        /\ Commits(VaultOf[c], m) \/ Fails(VaultOf[c], -1)
        /\ given' = given /\ deleted' = deleted /\ at[c] \in AtCreate
    BY <1>3 DEF CreateWrite, called
  <2>4. /\ at' \in [Callers -> {Idle} \cup Calls] /\ at'[c] = Idle
        /\ \A d \in Callers \ {c} : at'[d] = at[d]
    BY <1>1, <1>3 DEF CreateWrite, Returns, Goes, IInv, Called
  <2> HIDE DEF m
  <2> QED
    BY <1>1, <2>1, <2>2, <2>3, <2>4, WriteStep DEF IInv, Numbers
<1> QED
  BY <1>2, <1>3 DEF Creating

LEMMA OpenStep ==
    ASSUME IInv, NEW c \in Workers \ Commands, Opening(c)
    PROVE  IInv' /\ Kept
<1>1. c \in Callers /\ at[c] \in {Idle} \cup Calls
  BY VaultAssumption DEF IInv, Called
<1>2. ASSUME NEW m \in Masters, UnlockRead(c, m)
      PROVE  IInv' /\ Kept
  <2> DEFINE w == [op |-> "unlock", master |-> m, read |-> file, version |-> commits]
  <2>1. file \in Files /\ FileFine(file, given) /\ file.sealed = Key(m, file.salt)
    BY <1>2 DEF UnlockRead, Opens, IInv, Stored, FileFine
  <2>2. commits \in 0..MaxWrites
    BY VaultAssumption DEF IInv, Numbers
  <2>3. w \in AtUnlock
    BY <2>1, <2>2 DEF AtUnlock
  <2>4. /\ at' = [at EXCEPT ![c] = w] /\ at'[c] = w
        /\ file' = file /\ commits' = commits /\ given' = given
    BY <1>1, <1>2 DEF UnlockRead, Goes, IInv, Called, written, called
  <2>5. CallFine(c)'
    BY <2>1, <2>2, <2>4 DEF CallFine, AtRename, AtCommand, AtPromote
  <2> HIDE DEF w
  <2> QED
    BY <1>1, <1>2, <2>3, <2>4, <2>5, ReadStep DEF UnlockRead, Calls
<1>3. ASSUME NEW old \in Masters, NEW new \in Masters, RekeyRead(c, old, new)
      PROVE  IInv' /\ Kept
  <2> DEFINE w == [op |-> "rekey", master |-> new]
  <2>1. w \in AtRekey
    BY DEF AtRekey
  <2>2. at' = [at EXCEPT ![c] = w] /\ at'[c] = w
    BY <1>1, <1>3 DEF RekeyRead, Goes, IInv, Called
  <2>3. CallFine(c)'
    BY <2>2 DEF CallFine, AtUnlock, AtRename, AtCommand, AtPromote
  <2> HIDE DEF w
  <2> QED
    BY <1>1, <1>3, <2>1, <2>2, <2>3, ReadStep DEF RekeyRead, Calls
<1>4. CASE UnlockInstall(c)
  <2> DEFINE r == at[c].read
             n == [key |-> Key(at[c].master, r.salt), salt |-> r.salt, creds |-> r.creds]
  <2>1. /\ FileFine(r, given) /\ r.sealed = Key(at[c].master, r.salt)
        /\ at[c].version <= commits
        /\ at[c].version = commits => file = r
        /\ at[c].master \in Masters /\ at[c].version \in 0..MaxWrites
    BY <1>1, <1>4 DEF UnlockInstall, IInv, Called, CallFine, AtUnlock
  <2>2. r.salt \in Salts /\ Fine(r.creds, given) /\ r \in Files
    BY <2>1 DEF FileFine, Files
  <2>3. MemFine(n, given)
    BY <2>1, <2>2, FreshFine
  <2>4. Sealed(n) = r /\ n.creds = r.creds /\ n.key # NoKey
    BY <2>1, <2>2, FreshFine DEF Sealed, Files
  <2>5. mem' = [mem EXCEPT ![VaultOf[c]] = n]
    BY <1>4 DEF UnlockInstall, Installs
  <2>6. /\ at' = [at EXCEPT ![c] = Idle] /\ CallFine(c)'
        /\ seen' = [seen EXCEPT ![VaultOf[c]] = at[c].version]
        /\ unsaved' = [unsaved EXCEPT ![VaultOf[c]] = FALSE]
        /\ UNCHANGED <<written, salts, called>>
    <3>1. at' = [at EXCEPT ![c] = Idle] /\ at'[c] = Idle
      BY <1>1, <1>4 DEF UnlockInstall, Returns, Goes, IInv, Called
    <3> QED
      BY <3>1, <1>1, <1>4, EndedFine DEF UnlockInstall, Installs
  <2> HIDE DEF n
  <2>7. /\ seen' \in [Vaults -> -1..MaxWrites] /\ unsaved' \in [Vaults -> BOOLEAN]
        /\ \A u \in Vaults \ {VaultOf[c]} : seen'[u] = seen[u] /\ unsaved'[u] = unsaved[u]
        /\ seen'[VaultOf[c]] = at[c].version
    <3>1. /\ VaultOf[c] \in Vaults /\ at[c].version \in -1..MaxWrites
          /\ seen \in [Vaults -> -1..MaxWrites] /\ unsaved \in [Vaults -> BOOLEAN]
      BY <1>1, <2>1, VaultAssumption DEF IInv, Held
    <3> QED
      BY <3>1, <2>6
  <2> QED
    BY <1>1, <2>1, <2>3, <2>4, <2>5, <2>6, <2>7, MemoryStep
<1>5. CASE RekeyWrite(c)
  <2> DEFINE m == [key |-> Key(at[c].master, salts'), salt |-> salts', creds |-> CredsOf(c)]
  <2>1. at[c].master \in Masters /\ salts' \in Salts
    BY <1>5, VaultAssumption DEF RekeyWrite, AtRekey, IInv, Numbers, Salts
  <2>2. MemFine(m, given) /\ m.key # NoKey
    BY <1>1, <2>1, FreshFine, HeldBy
  <2>3. /\ mem' = [mem EXCEPT ![VaultOf[c]] = m]
        /\ Commits(VaultOf[c], m) \/ Fails(VaultOf[c], seen[VaultOf[c]])
        /\ given' = given /\ deleted' = deleted
    BY <1>5 DEF RekeyWrite, Save, called
  <2>4. /\ at' \in [Callers -> {Idle} \cup Calls] /\ at'[c] = Idle
        /\ \A d \in Callers \ {c} : at'[d] = at[d]
    BY <1>1, <1>5 DEF RekeyWrite, Returns, Goes, IInv, Called
  <2>5. Keeps(VaultOf[c], m)
    <3>1. m.creds = mem[VaultOf[c]].creds /\ VaultOf[c] \in Vaults
      BY <1>1, HeldBy DEF CredsOf
    <3>2. file # NoFile /\ seen[VaultOf[c]] = commits => ~Locked(VaultOf[c])
      BY <1>1 DEF IInv, Remembered, Numbers
    <3>3. file # NoFile /\ seen[VaultOf[c]] = commits
            => DOMAIN file.creds \ deleted \subseteq DOMAIN mem[VaultOf[c]].creds
      BY <3>1, <3>2 DEF IInv, Remembered
    <3> HIDE DEF m
    <3> QED
      BY <2>3, <3>1, <3>3 DEF Keeps
  <2> HIDE DEF m
  <2> QED
    BY <1>1, <2>1, <2>2, <2>3, <2>4, <2>5, WriteStep DEF IInv, Numbers
<1> QED
  BY <1>2, <1>3, <1>4, <1>5 DEF Opening

LEMMA RenameStep ==
    ASSUME IInv, NEW c \in Threads \ Workers,
           RenamePut(c) \/ \E i \in Ids, n \in Names : RenameGet(c, i, n)
    PROVE  IInv' /\ Kept
<1>1. c \in Callers /\ at[c] \in {Idle} \cup Calls
  BY DEF IInv, Called, Threads
<1>2. ASSUME NEW i \in Ids, NEW n \in Names, RenameGet(c, i, n)
      PROVE  IInv' /\ Kept
  <2> DEFINE b == CredsOf(c)[i]
             new == [name |-> n, snmp |-> b.snmp, def |-> b.def, secret |-> b.secret]
             w == [op |-> "rename", id |-> i, body |-> new]
  <2>1. b \in Bodies /\ b.secret = i
    BY <1>1, <1>2, HeldBy, FineBodies DEF RenameGet
  <2>2. w \in AtRename /\ w.body.secret = w.id
    BY <2>1 DEF AtRename, Bodies
  <2>3. at' = [at EXCEPT ![c] = w] /\ at'[c] = w
    BY <1>1, <1>2 DEF RenameGet, Goes, IInv, Called
  <2> HIDE DEF w
  <2>4. CallFine(c)'
    BY <2>2, <2>3 DEF CallFine, AtUnlock, AtRename, AtCommand, AtPromote
  <2> QED
    BY <1>1, <1>2, <2>2, <2>3, <2>4, ReadStep DEF RenameGet, Calls
<1>3. CASE RenamePut(c)
  <2> DEFINE i == at[c].id
             b == at[c].body
             ok == ~Locked(VaultOf[c]) /\ i \in DOMAIN CredsOf(c) /\ MayPut(CredsOf(c), i, b)
  <2>1. i \in Ids /\ b \in Bodies /\ b.secret = i
    BY <1>1, <1>3 DEF RenamePut, AtRename, IInv, Called, CallFine
  <2>2. at' = [at EXCEPT ![c] = Idle] /\ at'[c] = Idle
    BY <1>1, <1>3 DEF RenamePut, Returns, Goes, IInv, Called
  <2>3. UNCHANGED <<salts, called>>
    BY <1>3 DEF RenamePut
  <2>4. CASE ok
    <3>1. SaveCreds(c, Put(CredsOf(c), i, b))
      BY <1>3, <2>4 DEF RenamePut
    <3>2. given \cup {i} = given
      BY <1>1, <2>4, HeldBy
    <3>3. Fine(Put(CredsOf(c), i, b), given)
      BY <1>1, <2>1, <2>4, <3>2, HeldBy, PutFine
    <3>4. DOMAIN CredsOf(c) \subseteq DOMAIN Put(CredsOf(c), i, b)
      BY Domains
    <3> HIDE DEF i, b
    <3>5. given \subseteq Ids /\ deleted \subseteq given
      BY DEF IInv, Numbers
    <3> QED
      BY <1>1, <2>2, <2>3, <2>4, <3>1, <3>3, <3>4, <3>5, SaveStep DEF called
  <2>5. CASE ~ok
    <3>1. UNCHANGED <<written, mem, seen, unsaved>>
      BY <1>3, <2>5 DEF RenamePut
    <3> QED
      BY <1>1, <2>2, <2>3, <3>1, EndedFine, ReadStep
  <2> QED
    BY <2>4, <2>5
<1> QED
  BY <1>2, <1>3

LEMMA EditStep ==
    ASSUME IInv, NEW c \in Threads \ Workers, Editing(c)
    PROVE  IInv' /\ Kept
<1>1. c \in Callers
  BY DEF Threads
<1>2. Fine(CredsOf(c), given) /\ DOMAIN CredsOf(c) \subseteq given /\ given \subseteq Ids
  BY <1>1, HeldBy DEF IInv, Numbers
<1>3. deleted \subseteq given
  BY DEF IInv, Numbers
<1>4. CASE Lock(c)
  <2> DEFINE n == LockedMemory(mem[VaultOf[c]].salt)
  <2>1. MemFine(n, given) /\ n.key = NoKey
    BY <1>1, HeldBy, LockedFine
  <2>2. mem' = [mem EXCEPT ![VaultOf[c]] = n] /\ seen' = [seen EXCEPT ![VaultOf[c]] = -1]
    BY <1>4 DEF Lock, Forgets
  <2>3. /\ at' = [at EXCEPT ![c] = Idle] /\ at'[c] = Idle
        /\ unsaved' = unsaved /\ UNCHANGED <<written, salts, called>>
    BY <1>1, <1>4 DEF Lock, Forgets, IInv, Called
  <2> HIDE DEF n
  <2>4. /\ seen' \in [Vaults -> -1..MaxWrites] /\ unsaved' \in [Vaults -> BOOLEAN]
        /\ \A u \in Vaults \ {VaultOf[c]} : seen'[u] = seen[u] /\ unsaved'[u] = unsaved[u]
        /\ seen'[VaultOf[c]] <= commits /\ seen'[VaultOf[c]] = -1
    <3>1. VaultOf[c] \in Vaults /\ -1 \in -1..MaxWrites /\ -1 <= commits
      BY <1>1, VaultAssumption DEF IInv, Numbers
    <3> QED
      BY <3>1, <2>2, <2>3 DEF IInv, Held
  <2> QED
    BY <1>1, <2>1, <2>2, <2>3, <2>4, EndedFine, MemoryStep
<1>5. CASE ClearDefault(c)
  BY <1>1, <1>2, <1>3, <1>5, UndefaultedFine, Domains, SaveStep DEF ClearDefault, Ready, called
<1>6. ASSUME NEW i \in Ids, Delete(c, i)
      PROVE  IInv' /\ Kept
  <2>1. Fine(Without(CredsOf(c), i), given)
    BY <1>2, WithoutFine
  <2>2. DOMAIN Without(CredsOf(c), i) = DOMAIN CredsOf(c) \ {i}
    BY Domains
  <2>3. /\ deleted' = deleted \cup {i} /\ given' = given /\ i \in given
        /\ salts' = salts /\ at' = at
    BY <1>2, <1>6 DEF Delete
  <2>4. DOMAIN CredsOf(c) \ deleted' \subseteq DOMAIN Without(CredsOf(c), i)
    BY <2>2, <2>3
  <2> QED
    BY <1>1, <1>2, <1>3, <1>6, <2>1, <2>3, <2>4, SaveStep DEF Delete, Ready
<1>7. ASSUME NEW i \in Ids, SetDefault(c, i)
      PROVE  IInv' /\ Kept
  BY <1>1, <1>2, <1>3, <1>7, DefaultingFine, Domains, SaveStep DEF SetDefault, Ready, called
<1>8. ASSUME NEW i \in Ids, SetDefaultUnknown(c, i)
      PROVE  IInv' /\ Kept
  <2> DEFINE n == Holding(VaultOf[c], Undefaulted(CredsOf(c)))
  <2>1. MemFine(n, given)
    BY <1>1, <1>2, HeldBy, HoldingFine, UndefaultedFine DEF Holding
  <2>2. /\ mem' = [mem EXCEPT ![VaultOf[c]] = n]
        /\ unsaved' = [unsaved EXCEPT ![VaultOf[c]] = TRUE]
    BY <1>8 DEF SetDefaultUnknown
  <2>3. /\ at' = [at EXCEPT ![c] = Idle] /\ at'[c] = Idle
        /\ seen' = seen /\ UNCHANGED <<written, salts, called>>
    BY <1>1, <1>8 DEF SetDefaultUnknown, Ready, IInv, Called
  <2>5. /\ n.key # NoKey
        /\ file # NoFile /\ seen[VaultOf[c]] = commits
             => DOMAIN file.creds \ deleted \subseteq DOMAIN n.creds
    <3>1. n.key = mem[VaultOf[c]].key /\ DOMAIN n.creds = DOMAIN mem[VaultOf[c]].creds
      BY Domains DEF Holding, CredsOf
    <3>2. ~Locked(VaultOf[c]) /\ VaultOf[c] \in Vaults
      BY <1>1, <1>8, VaultAssumption DEF SetDefaultUnknown, Ready
    <3> HIDE DEF n
    <3> QED
      BY <3>1, <3>2 DEF IInv, Remembered, Locked
  <2> HIDE DEF n
  <2>4. /\ seen' \in [Vaults -> -1..MaxWrites] /\ unsaved' \in [Vaults -> BOOLEAN]
        /\ \A u \in Vaults \ {VaultOf[c]} : seen'[u] = seen[u] /\ unsaved'[u] = unsaved[u]
        /\ seen'[VaultOf[c]] <= commits
        /\ unsaved'[VaultOf[c]] /\ seen'[VaultOf[c]] = seen[VaultOf[c]]
    <3>1. VaultOf[c] \in Vaults
      BY <1>1, VaultAssumption
    <3> QED
      BY <3>1, <2>2, <2>3 DEF IInv, Held
  <2> QED
    BY <1>1, <2>1, <2>2, <2>3, <2>4, <2>5, EndedFine, MemoryStep
<1>9. ASSUME NEW i \in Ids, SaveAgain(c, i)
      PROVE  IInv' /\ Kept
  BY <1>1, <1>2, <1>3, <1>9, SaveStep DEF SaveAgain, Ready, called
<1>10. ASSUME NEW i \in Ids, NEW in \in Inputs, Add(c, i, in)
       PROVE  IInv' /\ Kept
  <2>1. Fine(Put(CredsOf(c), i, For(i, in)), given')
    BY <1>2, <1>10, ForBody, PutFine DEF Add
  <2>2. DOMAIN CredsOf(c) \subseteq DOMAIN Put(CredsOf(c), i, For(i, in))
    BY Domains
  <2>3. given \subseteq given' /\ given' \subseteq Ids /\ deleted' = deleted
    BY <1>2, <1>10 DEF Add
  <2> QED
    BY <1>1, <1>3, <1>10, <2>1, <2>2, <2>3, SaveStep DEF Add, Ready
<1>11. ASSUME NEW i \in Ids, NEW in \in Inputs, Update(c, i, in)
       PROVE  IInv' /\ Kept
  <2>1. given \cup {i} = given
    BY <1>2, <1>11 DEF Update
  <2>2. Fine(Put(CredsOf(c), i, For(i, in)), given \cup {i})
    BY <1>2, <1>11, ForBody, PutFine DEF Update
  <2> QED
    BY <1>1, <1>2, <1>3, <1>11, <2>1, <2>2, Domains, SaveStep DEF Update, Ready, called
<1>12. ASSUME NEW i \in Ids, NEW in \in Inputs, UpdateMetadata(c, i, in)
       PROVE  IInv' /\ Kept
  <2>1. Fine(Merge(CredsOf(c), i, in), given)
    BY <1>2, <1>12, MergeFine DEF UpdateMetadata
  <2>2. DOMAIN Merge(CredsOf(c), i, in) = DOMAIN CredsOf(c)
    BY DEF Merge
  <2>3. /\ SaveCreds(c, Merge(CredsOf(c), i, in)) /\ ~Locked(VaultOf[c])
        /\ at' = at /\ at[c] = Idle /\ salts' = salts
        /\ given' = given /\ deleted' = deleted
    BY <1>12 DEF UpdateMetadata, Ready, called
  <2> QED
    BY <1>1, <1>2, <1>3, <1>12, <2>1, <2>2, <2>3, SaveStep
<1> QED
  BY <1>4, <1>5, <1>6, <1>7, <1>8, <1>9, <1>10, <1>11, <1>12, RenameStep DEF Editing

LEMMA CommandStep ==
    ASSUME IInv, NEW c \in Commands, Commanding(c)
    PROVE  IInv' /\ Kept
<1> DEFINE v == VaultOf[c]
<1>1. c \in Callers
  BY VaultAssumption
<1>2. Fine(CredsOf(c), given) /\ given \subseteq Ids /\ deleted \subseteq given
  BY <1>1, HeldBy DEF IInv, Numbers
<1>3. 0 \in Salts
  BY VaultAssumption DEF Salts
<1>4. MemFine(LockedMemory(0), given') /\ LockedMemory(0).key = NoKey
  BY <1>3, LockedFine
<1>5. ASSUME at[c] \in AtCommand \cup AtPromote
      PROVE  mem[v].key # NoKey /\ MemFine(mem[v], given)
  BY <1>1, <1>5, HeldBy DEF IInv, Called, CallFine
\* A method that saves, then the deferred Lock.
<1>6. ASSUME NEW creds, Fine(creds, given'), CmdSave(c, creds),
             at[c] \in AtCommand \cup AtPromote,
             given \subseteq given', given' \subseteq Ids, deleted' \subseteq given',
             deleted \subseteq deleted', DOMAIN CredsOf(c) \ deleted' \subseteq DOMAIN creds,
             UNCHANGED salts
      PROVE  IInv' /\ Kept
  <2> DEFINE m == Holding(VaultOf[c], creds)
  <2>1. MemFine(m, given') /\ m.key # NoKey
    BY <1>5, <1>6, HoldingFine DEF Holding
  <2>2. /\ at' \in [Callers -> {Idle} \cup Calls] /\ at'[c] = Idle
        /\ \A d \in Callers \ {c} : at'[d] = at[d]
    BY <1>1, <1>6 DEF CmdSave, Returns, Goes, IInv, Called
  <2>3. /\ mem' = [mem EXCEPT ![VaultOf[c]] = LockedMemory(0)]
        /\ Commits(VaultOf[c], m) \/ Fails(VaultOf[c], -1)
    BY <1>6 DEF CmdSave
  <2>4. salts' \in Salts
    BY <1>6 DEF IInv, Numbers
  <2>5. Keeps(VaultOf[c], m)
    BY <1>1, <1>5, <1>6, HoldingKeeps DEF Locked
  <2> HIDE DEF m
  <2> QED
    BY <1>1, <1>4, <1>6, <2>1, <2>2, <2>3, <2>4, <2>5, WriteStep
<1>7. ASSUME NEW p \in Masters, CmdOpen(c, p)
      PROVE  IInv' /\ Kept
  <2> DEFINE n == [key |-> Key(p, file.salt), salt |-> file.salt, creds |-> file.creds]
             w == [op |-> "command"]
  <2>1. file \in Files /\ FileFine(file, given) /\ file.sealed = Key(p, file.salt)
    BY <1>7 DEF CmdOpen, Opens, IInv, Stored, FileFine
  <2>2. file.salt \in Salts /\ Fine(file.creds, given)
    BY <2>1 DEF FileFine, Files
  <2>3. MemFine(n, given) /\ n.key # NoKey
    BY <2>2, FreshFine
  <2>4. Sealed(n) = file /\ n.creds = file.creds
    BY <2>1, <2>2 DEF Sealed, Files
  <2>5. w \in AtCommand
    BY DEF AtCommand
  <2>6. /\ mem' = [mem EXCEPT ![VaultOf[c]] = n]
        /\ seen' = [seen EXCEPT ![VaultOf[c]] = commits]
        /\ unsaved' = [unsaved EXCEPT ![VaultOf[c]] = FALSE]
        /\ at' = [at EXCEPT ![c] = w] /\ UNCHANGED <<written, salts, called>>
    BY <1>7 DEF CmdOpen, Installs, Goes
  <2> HIDE DEF n, w
  <2>7. VaultOf[c] \in Vaults /\ commits \in -1..MaxWrites /\ commits <= commits
    BY <1>1, VaultAssumption DEF IInv, Numbers
  <2>8. /\ seen' \in [Vaults -> -1..MaxWrites] /\ unsaved' \in [Vaults -> BOOLEAN]
        /\ \A u \in Vaults \ {VaultOf[c]} : seen'[u] = seen[u] /\ unsaved'[u] = unsaved[u]
        /\ seen'[VaultOf[c]] <= commits
    BY <2>6, <2>7 DEF IInv, Held
  <2>9. at'[c] = w /\ mem'[VaultOf[c]] = n
    BY <1>1, <2>6, <2>7 DEF IInv, Called, Held
  <2>10. CallFine(c)'
    BY <2>3, <2>5, <2>9, CommandFine
  <2> QED
    BY <1>1, <2>3, <2>4, <2>5, <2>6, <2>8, <2>10, MemoryStep DEF Calls
<1>8. CASE CmdEnd(c)
  <2>1. /\ mem' = [mem EXCEPT ![VaultOf[c]] = LockedMemory(0)]
        /\ seen' = [seen EXCEPT ![VaultOf[c]] = -1]
        /\ unsaved' = unsaved /\ given' = given
        /\ at' = [at EXCEPT ![c] = Idle] /\ at'[c] = Idle
        /\ UNCHANGED <<written, salts, called>>
    BY <1>1, <1>8 DEF CmdEnd, Forgets, Returns, Goes, IInv, Called, called
  <2>2. VaultOf[c] \in Vaults /\ -1 \in -1..MaxWrites /\ -1 <= commits
    BY <1>1, VaultAssumption DEF IInv, Numbers
  <2>3. /\ seen' \in [Vaults -> -1..MaxWrites] /\ unsaved' \in [Vaults -> BOOLEAN]
        /\ \A u \in Vaults \ {VaultOf[c]} : seen'[u] = seen[u] /\ unsaved'[u] = unsaved[u]
        /\ seen'[VaultOf[c]] <= commits
    BY <2>1, <2>2 DEF IInv, Held
  <2> QED
    BY <1>1, <1>4, <2>1, <2>3, EndedFine, MemoryStep
<1>9. ASSUME NEW ref, CmdRemove(c, ref)
      PROVE  IInv' /\ Kept
  <2>1. PICK i \in Led(CredsOf(c), ref) :
          CmdSave(c, Without(CredsOf(c), i)) /\ deleted' = deleted \cup {i}
    BY <1>9 DEF CmdRemove
  <2>2. i \in given
    BY <1>2 DEF Led, Fine
  <2>3. Fine(Without(CredsOf(c), i), given) /\ given' = given
    BY <1>2, <1>9, WithoutFine DEF CmdRemove
  <2>4. DOMAIN CredsOf(c) \ deleted' \subseteq DOMAIN Without(CredsOf(c), i)
    <3>1. DOMAIN Without(CredsOf(c), i) = DOMAIN CredsOf(c) \ {i}
      BY DEF Without
    <3> QED
      BY <2>1, <3>1
  <2>5. at[c] \in AtCommand \cup AtPromote /\ salts' = salts
    BY <1>9 DEF CmdRemove, InCommand
  <2> QED
    BY <1>2, <1>6, <2>1, <2>2, <2>3, <2>4, <2>5
<1>10. ASSUME NEW ref, CmdDefault(c, ref)
       PROVE  IInv' /\ Kept
  <2>1. PICK i \in Led(CredsOf(c), ref) :
          MayDefault(CredsOf(c), i) /\ CmdSave(c, Defaulting(CredsOf(c), i))
    BY <1>10 DEF CmdDefault
  <2>2. Fine(Defaulting(CredsOf(c), i), given)
    BY <1>2, <2>1, DefaultingFine
  <2> QED
    BY <1>2, <1>6, <1>10, <2>1, <2>2, Domains DEF CmdDefault, InCommand, called
<1>11. ASSUME NEW ref, CmdSetDisabled(c, ref)
       PROVE  IInv' /\ Kept
  BY <1>2, <1>6, <1>11 DEF CmdSetDisabled, InCommand, called
<1>12. CASE CmdClearDefault(c)
  BY <1>2, <1>6, <1>12, UndefaultedFine, Domains DEF CmdClearDefault, InCommand, called
<1>13. CASE CmdPromote(c)
  <2>1. Fine(Defaulting(CredsOf(c), at[c].id), given)
    BY <1>2, <1>13, DefaultingFine DEF CmdPromote
  <2> QED
    BY <1>2, <1>6, <1>13, <2>1, Domains DEF CmdPromote, called
<1>14. ASSUME NEW i \in Ids, NEW in \in Inputs, CmdAdd(c, i, in)
       PROVE  IInv' /\ Kept
  <2> DEFINE b == Marked(For(i, in), FALSE)
             creds == Put(CredsOf(c), i, b)
             m == Holding(VaultOf[c], creds)
             w == [op |-> "promote", id |-> i]
  <2>1. /\ at[c] \in AtCommand /\ given' = given \cup {i} /\ MayPut(CredsOf(c), i, b)
        /\ salts' = salts /\ deleted' = deleted
    BY <1>14 DEF CmdAdd, InCommand
  <2>2. Fine(creds, given')
    BY <1>2, <2>1, ForBody, PutFine
  <2>3. given \subseteq given' /\ given' \subseteq Ids /\ deleted' \subseteq given'
    BY <1>2, <2>1
  <2>6. DOMAIN CredsOf(c) \subseteq DOMAIN creds
    BY Domains
  <2>4. CASE CmdSave(c, creds)
    <3> HIDE DEF creds
    <3> QED
      BY <1>6, <2>1, <2>2, <2>3, <2>4, <2>6
  <2>5. CASE /\ mem' = [mem EXCEPT ![VaultOf[c]] = m]
             /\ Commits(VaultOf[c], m)
             /\ at' = [at EXCEPT ![c] = w]
    <3>1. MemFine(m, given') /\ m.key # NoKey
      BY <1>5, <2>1, <2>2, HoldingFine DEF Holding
    <3>2. w \in AtPromote
      BY DEF AtPromote
    <3>3. salts' \in Salts
      BY <2>1 DEF IInv, Numbers
    <3>5. Keeps(VaultOf[c], m)
      BY <1>1, <1>5, <2>1, <2>6, HoldingKeeps DEF Locked
    <3> HIDE DEF m, w
    <3>4. /\ at' \in [Callers -> {Idle} \cup Calls] /\ at'[c] \in AtPromote
          /\ \A d \in Callers \ {c} : at'[d] = at[d]
      BY <1>1, <2>5, <3>2 DEF IInv, Called, Calls
    <3> QED
      BY <1>1, <2>1, <2>3, <2>5, <3>1, <3>3, <3>4, <3>5, WriteStep
  <2> QED
    BY <1>14, <2>4, <2>5 DEF CmdAdd, Goes
<1> QED
  BY <1>7, <1>8, <1>9, <1>10, <1>11, <1>12, <1>13, <1>14 DEF Commanding

LEMMA CrashStep ==
    ASSUME IInv, NEW v \in Vaults, Crash(v)
    PROVE  IInv' /\ Kept
<1>1. 0 \in Salts /\ -1 \in -1..MaxWrites
  BY VaultAssumption DEF Salts
<1>2. MemFine(LockedMemory(0), given) /\ LockedMemory(0).key = NoKey
  BY <1>1, LockedFine
<1>3. /\ mem' = [mem EXCEPT ![v] = LockedMemory(0)] /\ seen' = [seen EXCEPT ![v] = -1]
      /\ unsaved' = unsaved /\ salts' = salts
      /\ at' = [c \in Callers |-> IF VaultOf[c] = v THEN Idle ELSE at[c]]
      /\ file' = file /\ commits' = commits /\ failures' = failures
      /\ given' = given /\ deleted' = deleted
  BY DEF Crash, Forgets, written, called
<1>4. LockedMemory(0) \in Memories /\ commits \in Nat
  BY <1>2 DEF MemFine, IInv, Numbers
<1>5. /\ mem' \in [Vaults -> Memories] /\ mem'[v] = LockedMemory(0) /\ seen'[v] = -1
      /\ \A u \in Vaults \ {v} : mem'[u] = mem[u] /\ seen'[u] = seen[u]
      /\ seen' \in [Vaults -> -1..MaxWrites]
  BY <1>1, <1>3, <1>4 DEF IInv, Held
<1>6. Numbers' /\ Stored'
  BY <1>3 DEF IInv, Numbers, Stored
<1>7. Held'
  BY <1>2, <1>3, <1>4, <1>5 DEF IInv, Held
<1>8. HeldIsStored'
  BY <1>2, <1>3, <1>5 DEF IInv, HeldIsStored, Locked
<1>9. Called'
  <2>1. at' \in [Callers -> {Idle} \cup Calls]
    BY <1>3 DEF IInv, Called
  <2>2. ASSUME NEW c \in Callers
        PROVE  CallFine(c)'
    <3>1. CASE VaultOf[c] = v
      BY <1>3, <3>1, EndedFine
    <3>2. CASE VaultOf[c] # v
      <4>1. at'[c] = at[c] /\ mem'[VaultOf[c]] = mem[VaultOf[c]]
        BY <1>3, <1>5, <3>2, VaultAssumption
      <4> QED
        BY <1>3, <4>1 DEF IInv, Called, CallFine
    <3> QED
      BY <3>1, <3>2
  <2> QED
    BY <2>1, <2>2 DEF Called
<1>10. Remembered'
  <2>1. ASSUME NEW u \in Vaults, file' # NoFile, seen'[u] = commits', mem'[u].key # NoKey
        PROVE  DOMAIN file'.creds \ deleted' \subseteq DOMAIN mem'[u].creds
    <3>1. u # v
      BY <2>1, <1>2, <1>5
    <3> QED
      BY <2>1, <3>1, <1>3, <1>5 DEF IInv, Remembered, Locked
  <2>2. ASSUME NEW d \in Callers \ Commands, mem'[VaultOf[d]].key = NoKey
        PROVE  seen'[VaultOf[d]] = -1
    <3>1. VaultOf[d] \in Vaults
      BY VaultAssumption
    <3> QED
      BY <2>2, <3>1, <1>5 DEF IInv, Remembered, Locked
  <2> QED
    BY <2>1, <2>2 DEF Remembered, Locked
<1>11. Kept
  BY <1>3 DEF Kept
<1> QED
  BY <1>6, <1>7, <1>8, <1>9, <1>10, <1>11 DEF IInv

-----------------------------------------------------------------------------
(* The theorems                                                            *)

LEMMA VaultInit == Init => IInv
<1> SUFFICES ASSUME Init PROVE IInv
  OBVIOUS
<1>1. 0 \in Salts /\ 0 \in Nat /\ -1 \in -1..MaxWrites
  BY VaultAssumption DEF Salts
<1>2. Numbers /\ Stored
  <2>1. CASE file = NoFile /\ given = {}
    BY <2>1, <1>1, VaultAssumption DEF Init, Numbers, Stored
  <2>2. ASSUME NEW m \in Masters, NEW creds \in FilesAtStart,
               file = [salt |-> 0, sealed |-> Key(m, 0), creds |-> creds],
               given = DOMAIN creds
        PROVE  Numbers /\ Stored
    <3>1. creds \in Creds /\ Orderly(creds) /\ OwnSecrets(creds)
      BY VaultAssumption
    <3>2. DOMAIN creds \subseteq Ids
      BY <3>1, CredsShape
    <3>3. Key(m, 0) \in Keys /\ Key(m, 0).salt = 0
      BY <1>1 DEF Key, Keys
    <3>4. FileFine(file, given)
      BY <2>2, <3>1, <3>3, <1>1 DEF FileFine, Files, Fine
    <3> QED
      BY <2>2, <3>2, <3>4, <1>1, VaultAssumption DEF Init, Numbers, Stored
  <2> QED
    BY <2>1, <2>2 DEF Init
<1>3. MemFine(LockedMemory(0), given) /\ LockedMemory(0) \in Memories
  BY <1>1, LockedFine DEF MemFine
<1>4. Held
  BY <1>1, <1>3 DEF Init, Held
<1>5. HeldIsStored
  BY <1>1, LockedFine DEF Init, HeldIsStored, Locked
<1>6. Called
  BY VaultAssumption DEF Init, Called, CallFine, Calls
<1>7. Remembered
  <2>1. \A v \in Vaults : mem[v].key = NoKey /\ seen[v] = -1
    BY LockedFine, <1>1 DEF Init
  <2> QED
    BY <2>1, VaultAssumption DEF Remembered, Locked
<1> QED
  BY <1>2, <1>4, <1>5, <1>6, <1>7 DEF IInv

LEMMA VaultStep == IInv /\ [Next]_vars => IInv' /\ Kept
<1> SUFFICES ASSUME IInv, [Next]_vars PROVE IInv' /\ Kept
  OBVIOUS
<1>1. CASE Next
  BY <1>1, CreateStep, OpenStep, EditStep, CommandStep, CrashStep DEF Next
<1>2. CASE UNCHANGED vars
  BY <1>2
  DEF vars, IInv, Numbers, Stored, Held, HeldIsStored, Remembered, Locked, Called, CallFine,
      Kept
<1> QED
  BY <1>1, <1>2

LEMMA VaultSound == Spec => []IInv
BY VaultInit, VaultStep, PTL DEF Spec

\* Whatever calls of however many processes interleave, fail or crash, the
\* file opens under some password, and in it and in every memory no two names
\* are alike, at most one login is the default, and every secret is its own
\* record's.  (Save, Put, SetDefault, ChangeMasterPassword.)
THEOREM VaultFileIsSound == Spec => []FileIsSound
<1>1. IInv => TypeOK
  BY DEF IInv, Numbers, Stored, Held, Called, FileFine, TypeOK
<1>2. IInv => AlwaysOrderly
  BY DEF IInv, Stored, Held, FileFine, MemFine, Fine, AlwaysOrderly
<1>3. ASSUME IInv
      PROVE  FileOpens
  <2> SUFFICES ASSUME file # NoFile
               PROVE  \E m \in Masters : Opens(file, m)
    BY DEF FileOpens
  <2>1. file \in Files /\ file.sealed.salt = file.salt
    BY <1>3 DEF IInv, Stored, FileFine
  <2>2. /\ file.sealed.master \in Masters
        /\ file.sealed = [master |-> file.sealed.master, salt |-> file.sealed.salt]
    BY <2>1 DEF Files, Keys
  <2> QED
    BY <2>1, <2>2 DEF Opens, Key
<1>4. IInv => FileIsSound
  BY <1>1, <1>2, <1>3 DEF FileIsSound
<1> QED
  BY <1>4, VaultSound, PTL

\* An unlocked vault whose calls succeeded and whose file no other process has
\* written since holds exactly what the file holds.  (Save, Unlock.)
THEOREM VaultHeldIsStored == Spec => []HeldIsStored
<1>1. IInv => HeldIsStored
  BY DEF IInv
<1> QED
  BY <1>1, VaultSound, PTL

\* A credential leaves the file by being deleted, or is lost to a writer that
\* does not hold the file's last version or to a Create that found no file: not
\* to a call that failed before, nor to a change of the password or a late
\* install.  (saveLocked, Delete, Create.)
THEOREM VaultKeptUnlessStale == Spec => KeptUnlessStale
<1>1. IInv /\ [Next]_vars => [Kept]_vars
  BY VaultStep
<1>2. Spec => [][Kept]_vars
  BY <1>1, VaultSound, PTL DEF Spec
<1> QED
  BY <1>2 DEF Kept, KeptUnlessStale

=============================================================================
