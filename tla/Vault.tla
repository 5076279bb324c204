------------------------------- MODULE Vault --------------------------------
(***************************************************************************)
(* The credential vault (internal/vault) as its users reach it: the C      *)
(* surface of the desktop program (capi/vault.go), whose calls may come    *)
(* from any thread, and omvault (cmd/omvault), each run of which is a      *)
(* process of its own over the same file.                                  *)
(*                                                                         *)
(* A method of the vault holds its lock from end to end and is one step,   *)
(* with the write that ends it: writing the file replaces it whole or not  *)
(* at all (secfile.Write).  What a call reads before it takes the lock,    *)
(* or between two methods, is a step of its own.  A key is the master      *)
(* password and the salt it was derived with; where the password came from *)
(* (typed, keyring, environment) is left out, as are descriptions, scopes, *)
(* tags, priorities, the disabled flag and the stamp of the last use, and  *)
(* which of several reasons a call is refused for: a refused call changes  *)
(* nothing, except where an action here says so.                           *)
(*                                                                         *)
(* commits and seen number the versions of the file; failures, unsaved,    *)
(* given and deleted remember what was called.  None of these is in the    *)
(* code.  A secret is the id of the credential it was supplied for.        *)
(***************************************************************************)
EXTENDS Integers, FiniteSets

CONSTANTS
    Vaults,       \* vault objects: one per process that has the file open
    Callers,      \* threads of those processes
    Commands,     \* the callers that are runs of omvault
    Workers,      \* the threads that create, open and re-key: the slow calls
    VaultOf,      \* [Callers -> Vaults]
    Masters,      \* passwords of the required length
    Ids,          \* bound on the credentials ever stored
    Names, Fold,  \* names, and the name each becomes when case is ignored
    Inputs,       \* what callers supply: a name, whether for SNMP, whether the default
    FilesAtStart, \* credentials the file may hold at the start
    NoFile, NoKey, Idle,
    MaxSalts,     \* bound on keys derived with a fresh salt
    MaxWrites     \* bound on writes of the file, failed ones included

Bodies == [name : Names, snmp : BOOLEAN, def : BOOLEAN, secret : Ids]
Creds == UNION {[S -> Bodies] : S \in SUBSET Ids}
NoCreds == [i \in {} |-> NoFile]
Salts == 0..MaxSalts
Keys == [master : Masters, salt : Salts]
Files == [salt : Salts, sealed : Keys, creds : Creds]
Memories == [key : Keys \cup {NoKey}, salt : Salts, creds : Creds]
Threads == Callers \ Commands

\* Where a call is between two of its steps.
AtCreate == [op : {"create"}, master : Masters]
AtUnlock == [op : {"unlock"}, master : Masters, read : Files, version : 0..MaxWrites]
AtRekey == [op : {"rekey"}, master : Masters]
AtRename == [op : {"rename"}, id : Ids, body : Bodies]
AtCommand == [op : {"command"}]
AtPromote == [op : {"promote"}, id : Ids]
Calls == AtCreate \cup AtUnlock \cup AtRekey \cup AtRename \cup AtCommand \cup AtPromote

\* No two names alike but for case, at most one default, and it is for SSH.
NamesDiffer(creds) ==
    \A i, j \in DOMAIN creds : Fold[creds[i].name] = Fold[creds[j].name] => i = j
OneDefault(creds) == \A i, j \in DOMAIN creds : creds[i].def /\ creds[j].def => i = j
NoSNMPDefault(creds) == \A i \in DOMAIN creds : creds[i].def => ~creds[i].snmp
Orderly(creds) == NamesDiffer(creds) /\ OneDefault(creds) /\ NoSNMPDefault(creds)
OwnSecrets(creds) == \A i \in DOMAIN creds : creds[i].secret = i

ASSUME VaultAssumption ==
    /\ VaultOf \in [Callers -> Vaults]
    /\ Commands \subseteq Callers /\ Workers \subseteq Callers
    /\ \A c \in Commands, d \in Callers : VaultOf[c] = VaultOf[d] => c = d
    /\ Fold \in [Names -> Names]
    /\ Inputs \subseteq [name : Names, snmp : BOOLEAN, def : BOOLEAN]
    /\ FilesAtStart \subseteq Creds
    /\ \A creds \in FilesAtStart : Orderly(creds) /\ OwnSecrets(creds)
    /\ NoFile \notin Files /\ NoKey \notin Keys /\ Idle \notin Calls
    /\ MaxSalts \in Nat /\ MaxWrites \in Nat

VARIABLES
    file,     \* the vault file: the salt in its envelope, the key it is sealed with
    mem,      \* [Vaults -> Memories]: key, salt and credentials of each object
    at,       \* [Callers -> where each is between two steps of a call]
    salts,    \* salts drawn
    commits, failures, seen, unsaved, given, deleted

vars == <<file, mem, at, salts, commits, failures, seen, unsaved, given, deleted>>
written == <<file, commits, failures>>
called == <<given, deleted>>

Key(m, s) == [master |-> m, salt |-> s]
Opens(f, m) == f.sealed = Key(m, f.salt)
Locked(v) == mem[v].key = NoKey
CredsOf(c) == mem[VaultOf[c]].creds

TypeOK ==
    /\ file \in Files \cup {NoFile}
    /\ mem \in [Vaults -> Memories]
    /\ at \in [Callers -> {Idle} \cup Calls]
    /\ salts \in Salts
    /\ commits \in Nat /\ failures \in Nat /\ commits + failures <= MaxWrites
    /\ seen \in [Vaults -> -1..MaxWrites] /\ unsaved \in [Vaults -> BOOLEAN]
    /\ given \subseteq Ids /\ deleted \subseteq given

LockedMemory(s) == [key |-> NoKey, salt |-> s, creds |-> NoCreds]

Init ==
    /\ \/ file = NoFile /\ given = {}
       \/ \E m \in Masters, creds \in FilesAtStart :
            /\ file = [salt |-> 0, sealed |-> Key(m, 0), creds |-> creds]
            /\ given = DOMAIN creds
    /\ mem = [v \in Vaults |-> LockedMemory(0)]
    /\ at = [c \in Callers |-> Idle]
    /\ salts = 0
    /\ commits = 0 /\ failures = 0
    /\ seen = [v \in Vaults |-> -1] /\ unsaved = [v \in Vaults |-> FALSE]
    /\ deleted = {}

-----------------------------------------------------------------------------
(* Writing: memory has changed before the file is written, and stays        *)
(* changed when the write fails.                                            *)

Sealed(m) == [salt |-> m.salt, sealed |-> m.key, creds |-> m.creds]

Commits(v, m) ==
    /\ commits + failures < MaxWrites
    /\ file' = Sealed(m)
    /\ commits' = commits + 1
    /\ seen' = [seen EXCEPT ![v] = commits + 1]
    /\ unsaved' = [unsaved EXCEPT ![v] = FALSE]
    /\ UNCHANGED failures

\* What memory holds is still of version s, or of none.
Fails(v, s) ==
    /\ commits + failures < MaxWrites
    /\ failures' = failures + 1
    /\ seen' = [seen EXCEPT ![v] = s]
    /\ unsaved' = [unsaved EXCEPT ![v] = TRUE]
    /\ UNCHANGED <<file, commits>>

\* saveLocked, after memory became m.
Save(v, m) ==
    /\ mem' = [mem EXCEPT ![v] = m]
    /\ Commits(v, m) \/ Fails(v, seen[v])

Holding(v, creds) == [key |-> mem[v].key, salt |-> mem[v].salt, creds |-> creds]

\* The object drops its key and credentials, and so what it had read.
Forgets(v, s) ==
    /\ mem' = [mem EXCEPT ![v] = LockedMemory(s)]
    /\ seen' = [seen EXCEPT ![v] = -1]
    /\ UNCHANGED unsaved

Goes(c, where) == at' = [at EXCEPT ![c] = where]
Returns(c) == Goes(c, Idle)

-----------------------------------------------------------------------------
(* Creating, opening and re-keying.                                         *)

\* Create looks for a file before it takes the lock.
CreateCheck(c, m) ==
    /\ at[c] = Idle /\ file = NoFile
    /\ Goes(c, [op |-> "create", master |-> m])
    /\ UNCHANGED <<written, mem, salts, seen, unsaved, called>>

CreateWrite(c) ==
    /\ at[c] \in AtCreate /\ salts < MaxSalts
    /\ salts' = salts + 1
    /\ LET v == VaultOf[c]
           m == [key |-> Key(at[c].master, salts'), salt |-> salts', creds |-> NoCreds]
       IN  /\ mem' = [mem EXCEPT ![v] = m]
           /\ Commits(v, m) \/ Fails(v, -1)
    /\ Returns(c)
    /\ UNCHANGED called

\* Unlock reads and opens the file before it takes the lock ...
UnlockRead(c, m) ==
    /\ at[c] = Idle /\ file # NoFile /\ Opens(file, m)
    /\ Goes(c, [op |-> "unlock", master |-> m, read |-> file, version |-> commits])
    /\ UNCHANGED <<written, mem, salts, seen, unsaved, called>>

\* ... and installs what it read.
Installs(v, f, m, version) ==
    /\ mem' = [mem EXCEPT ![v] = [key |-> Key(m, f.salt), salt |-> f.salt, creds |-> f.creds]]
    /\ seen' = [seen EXCEPT ![v] = version]
    /\ unsaved' = [unsaved EXCEPT ![v] = FALSE]

UnlockInstall(c) ==
    /\ at[c] \in AtUnlock
    /\ Installs(VaultOf[c], at[c].read, at[c].master, at[c].version)
    /\ Returns(c)
    /\ UNCHANGED <<written, salts, called>>

\* The old password is checked against the file; it is memory that is re-keyed.
RekeyRead(c, old, new) ==
    /\ at[c] = Idle /\ file # NoFile /\ Opens(file, old)
    /\ Goes(c, [op |-> "rekey", master |-> new])
    /\ UNCHANGED <<written, mem, salts, seen, unsaved, called>>

\* Mutant: the new key goes with the old salt.
RekeyWrite_OldSalt(c) ==
    /\ at[c] \in AtRekey /\ salts < MaxSalts
    /\ salts' = salts + 1
    /\ Save(VaultOf[c], [key |-> Key(at[c].master, salts'),
                         salt |-> mem[VaultOf[c]].salt, creds |-> CredsOf(c)])
    /\ Returns(c)
    /\ UNCHANGED called

RekeyWrite(c) ==
    /\ at[c] \in AtRekey /\ salts < MaxSalts
    /\ salts' = salts + 1
    /\ Save(VaultOf[c],
            [key |-> Key(at[c].master, salts'), salt |-> salts', creds |-> CredsOf(c)])
    /\ Returns(c)
    /\ UNCHANGED called

Lock(c) ==
    /\ at[c] = Idle /\ ~Locked(VaultOf[c])
    /\ Forgets(VaultOf[c], mem[VaultOf[c]].salt)
    /\ UNCHANGED <<written, at, salts, called>>

\* The process ends, whatever its threads were doing.
Crash(v) ==
    /\ Forgets(v, 0)
    /\ at' = [c \in Callers |-> IF VaultOf[c] = v THEN Idle ELSE at[c]]
    /\ UNCHANGED <<written, salts, called>>

-----------------------------------------------------------------------------
(* What the methods make of the credentials, and when they may.             *)

For(i, in) == [name |-> in.name, snmp |-> in.snmp, def |-> in.def, secret |-> i]
Marked(b, d) == [name |-> b.name, snmp |-> b.snmp, def |-> d, secret |-> b.secret]
Taken(creds, i, n) == \E j \in DOMAIN creds \ {i} : Fold[creds[j].name] = Fold[n]

\* clearDefaultLocked
Undefaulted(creds) == [i \in DOMAIN creds |-> Marked(creds[i], FALSE)]

MayPut(creds, i, b) == ~(b.def /\ b.snmp) /\ ~Taken(creds, i, b.name)
Put(creds, i, b) ==
    LET others == IF b.def THEN Undefaulted(creds) ELSE creds
    IN  [j \in DOMAIN creds \cup {i} |-> IF j = i THEN b ELSE others[j]]

\* A metadata form may promote its credential, never demote one, and leaves the
\* kind and the secret alone.
MayMerge(creds, i, in) ==
    /\ i \in DOMAIN creds /\ ~Taken(creds, i, in.name)
    /\ in.def /\ ~creds[i].def => ~creds[i].snmp
Merged(old, in) ==
    [name |-> in.name, snmp |-> old.snmp, def |-> old.def \/ in.def, secret |-> old.secret]
Merge(creds, i, in) ==
    LET others == IF in.def /\ ~creds[i].def THEN Undefaulted(creds) ELSE creds
    IN  [j \in DOMAIN creds |-> IF j = i THEN Merged(creds[i], in) ELSE others[j]]

\* Mutant: the tail behind the removed record goes with it.
Without_CutsTail(creds, i) == [j \in {k \in DOMAIN creds : k < i} |-> creds[j]]

Without(creds, i) == [j \in DOMAIN creds \ {i} |-> creds[j]]
MayDefault(creds, i) == i \in DOMAIN creds /\ ~creds[i].snmp
Defaulting(creds, i) == [j \in DOMAIN creds |-> Marked(creds[j], j = i)]
HasDefault(creds) == \E i \in DOMAIN creds : creds[i].def

\* Get: the record an id or a name leads to.
Led(creds, ref) ==
    {i \in DOMAIN creds : i = ref \/ (ref \in Names /\ Fold[creds[i].name] = Fold[ref])}

-----------------------------------------------------------------------------
(* The desktop program's calls.  Each looks up its handle, runs one method  *)
(* of the vault and returns its code.                                       *)

Ready(c) == at[c] = Idle /\ ~Locked(VaultOf[c])
SaveCreds(c, creds) == Save(VaultOf[c], Holding(VaultOf[c], creds))

\* store, of a record with no id
Add(c, i, in) ==
    /\ Ready(c) /\ i \in Ids \ given /\ MayPut(CredsOf(c), i, For(i, in))
    /\ SaveCreds(c, Put(CredsOf(c), i, For(i, in)))
    /\ given' = given \cup {i}
    /\ UNCHANGED <<at, salts, deleted>>

\* store, of a record with one
Update(c, i, in) ==
    /\ Ready(c) /\ i \in DOMAIN CredsOf(c) /\ MayPut(CredsOf(c), i, For(i, in))
    /\ SaveCreds(c, Put(CredsOf(c), i, For(i, in)))
    /\ UNCHANGED <<at, salts, called>>

UpdateMetadata(c, i, in) ==
    /\ Ready(c) /\ MayMerge(CredsOf(c), i, in)
    /\ SaveCreds(c, Merge(CredsOf(c), i, in))
    /\ UNCHANGED <<at, salts, called>>

\* rename gets the record, secrets included, and puts it back under the new
\* name with Update: two methods.
RenameGet(c, i, n) ==
    /\ Ready(c) /\ i \in DOMAIN CredsOf(c)
    /\ LET b == CredsOf(c)[i]
       IN  Goes(c, [op |-> "rename", id |-> i,
                    body |-> [name |-> n, snmp |-> b.snmp, def |-> b.def, secret |-> b.secret]])
    /\ UNCHANGED <<written, mem, salts, seen, unsaved, called>>

RenamePut(c) ==
    /\ at[c] \in AtRename
    /\ LET i == at[c].id
           b == at[c].body
           ok == ~Locked(VaultOf[c]) /\ i \in DOMAIN CredsOf(c) /\ MayPut(CredsOf(c), i, b)
       IN  IF ok THEN SaveCreds(c, Put(CredsOf(c), i, b))
           ELSE UNCHANGED <<written, mem, seen, unsaved>>
    /\ Returns(c)
    /\ UNCHANGED <<salts, called>>

Delete(c, i) ==
    /\ Ready(c) /\ i \in DOMAIN CredsOf(c)
    /\ SaveCreds(c, Without(CredsOf(c), i))
    /\ deleted' = deleted \cup {i}
    /\ UNCHANGED <<at, salts, given>>

SetDefault(c, i) ==
    /\ Ready(c) /\ MayDefault(CredsOf(c), i)
    /\ SaveCreds(c, Defaulting(CredsOf(c), i))
    /\ UNCHANGED <<at, salts, called>>

\* An id that is not there: every default is cleared in memory, then the call
\* fails without a save.
SetDefaultUnknown(c, i) ==
    /\ Ready(c) /\ i \notin DOMAIN CredsOf(c)
    /\ mem' = [mem EXCEPT ![VaultOf[c]] = Holding(VaultOf[c], Undefaulted(CredsOf(c)))]
    /\ unsaved' = [unsaved EXCEPT ![VaultOf[c]] = TRUE]
    /\ UNCHANGED <<written, at, salts, seen, called>>

\* Mutant: the file is not written.
ClearDefault_Unsaved(c) ==
    /\ Ready(c) /\ HasDefault(CredsOf(c))
    /\ mem' = [mem EXCEPT ![VaultOf[c]] = Holding(VaultOf[c], Undefaulted(CredsOf(c)))]
    /\ UNCHANGED <<written, at, salts, seen, unsaved, called>>

ClearDefault(c) ==
    /\ Ready(c) /\ HasDefault(CredsOf(c))
    /\ SaveCreds(c, Undefaulted(CredsOf(c)))
    /\ UNCHANGED <<at, salts, called>>

\* SetDisabled and MarkUsed change a field left out here, and save everything.
SaveAgain(c, i) ==
    /\ Ready(c) /\ i \in DOMAIN CredsOf(c)
    /\ SaveCreds(c, CredsOf(c))
    /\ UNCHANGED <<at, salts, called>>

-----------------------------------------------------------------------------
(* omvault: open the vault, run one command, lock it.  Its process has one  *)
(* thread, so opening is one step.                                          *)

CmdOpen(c, m) ==
    /\ at[c] = Idle /\ file # NoFile /\ Opens(file, m)
    /\ Installs(VaultOf[c], file, m, commits)
    /\ Goes(c, [op |-> "command"])
    /\ UNCHANGED <<written, salts, called>>

InCommand(c) == at[c] \in AtCommand

\* A method, and the deferred Lock.
CmdSave(c, creds) ==
    /\ mem' = [mem EXCEPT ![VaultOf[c]] = LockedMemory(0)]
    /\ Commits(VaultOf[c], Holding(VaultOf[c], creds)) \/ Fails(VaultOf[c], -1)
    /\ Returns(c)

\* The command only reports, or is refused.
CmdEnd(c) ==
    /\ InCommand(c)
    /\ Forgets(VaultOf[c], 0)
    /\ Returns(c)
    /\ UNCHANGED <<written, salts, called>>

CmdRemove(c, ref) ==
    /\ InCommand(c)
    /\ \E i \in Led(CredsOf(c), ref) :
         CmdSave(c, Without(CredsOf(c), i)) /\ deleted' = deleted \cup {i}
    /\ UNCHANGED <<salts, given>>

CmdSetDisabled(c, ref) ==
    /\ InCommand(c) /\ Led(CredsOf(c), ref) # {}
    /\ CmdSave(c, CredsOf(c))
    /\ UNCHANGED <<salts, called>>

CmdDefault(c, ref) ==
    /\ InCommand(c)
    /\ \E i \in Led(CredsOf(c), ref) :
         MayDefault(CredsOf(c), i) /\ CmdSave(c, Defaulting(CredsOf(c), i))
    /\ UNCHANGED <<salts, called>>

CmdClearDefault(c) ==
    /\ InCommand(c) /\ HasDefault(CredsOf(c))
    /\ CmdSave(c, Undefaulted(CredsOf(c)))
    /\ UNCHANGED <<salts, called>>

\* add never marks the record it stores; add -default marks it with a second
\* save.
CmdAdd(c, i, in) ==
    /\ InCommand(c) /\ i \in Ids \ given /\ MayPut(CredsOf(c), i, Marked(For(i, in), FALSE))
    /\ given' = given \cup {i}
    /\ LET v == VaultOf[c]
           creds == Put(CredsOf(c), i, Marked(For(i, in), FALSE))
       IN  \/ CmdSave(c, creds)
           \/ /\ ~in.snmp
              /\ mem' = [mem EXCEPT ![v] = Holding(v, creds)]
              /\ Commits(v, Holding(v, creds))
              /\ Goes(c, [op |-> "promote", id |-> i])
    /\ UNCHANGED <<salts, deleted>>

CmdPromote(c) ==
    /\ at[c] \in AtPromote /\ MayDefault(CredsOf(c), at[c].id)
    /\ CmdSave(c, Defaulting(CredsOf(c), at[c].id))
    /\ UNCHANGED <<salts, called>>

-----------------------------------------------------------------------------
Creating(c) == (\E m \in Masters : CreateCheck(c, m)) \/ CreateWrite(c)

Opening(c) ==
    \/ \E m \in Masters : UnlockRead(c, m)
    \/ \E old, new \in Masters : RekeyRead(c, old, new)
    \/ UnlockInstall(c) \/ RekeyWrite(c)

Editing(c) ==
    \/ Lock(c) \/ ClearDefault(c) \/ RenamePut(c)
    \/ \E i \in Ids :
         \/ Delete(c, i) \/ SetDefault(c, i) \/ SetDefaultUnknown(c, i) \/ SaveAgain(c, i)
         \/ \E in \in Inputs : Add(c, i, in) \/ Update(c, i, in) \/ UpdateMetadata(c, i, in)
    \/ \E i \in Ids, n \in Names : RenameGet(c, i, n)

Commanding(c) ==
    \/ \E m \in Masters : CmdOpen(c, m)
    \/ CmdEnd(c) \/ CmdClearDefault(c) \/ CmdPromote(c)
    \/ \E ref \in Ids \cup Names :
         CmdRemove(c, ref) \/ CmdDefault(c, ref) \/ CmdSetDisabled(c, ref)
    \/ \E i \in Ids, in \in Inputs : CmdAdd(c, i, in)

Next ==
    \/ \E c \in Workers : Creating(c)
    \/ \E c \in Workers \ Commands : Opening(c)
    \/ \E c \in Threads \ Workers : Editing(c)
    \/ \E c \in Commands : Commanding(c)
    \/ \E v \in Vaults : Crash(v)

Spec == Init /\ [][Next]_vars

-----------------------------------------------------------------------------
(* Properties                                                               *)

\* Whatever calls interleave or fail, no two names differ in case alone, there
\* is at most one default and it is no SNMP credential, and every secret is one
\* that was supplied for its own record: in memory and in the file.
AlwaysOrderly ==
    /\ \A v \in Vaults : Orderly(mem[v].creds) /\ OwnSecrets(mem[v].creds)
    /\ file # NoFile => Orderly(file.creds) /\ OwnSecrets(file.creds)

\* The file is sealed with a key derived from the salt in its own envelope, and
\* so some password opens it: re-keying, failed writes and late installs never
\* leave one sealed under a salt that is no longer there.
FileOpens == file # NoFile => \E m \in Masters : Opens(file, m)

\* The file is one that opens, of records that are in order, and so is what is
\* held of it in memory.
FileIsSound == TypeOK /\ AlwaysOrderly /\ FileOpens

\* What an unlocked vault holds is what the next start will find, password
\* included, unless a call failed on it or the file was written since by
\* another.
HeldIsStored ==
    \A v \in Vaults :
        ~Locked(v) /\ seen[v] = commits /\ ~unsaved[v] => file = Sealed(mem[v])

\* A credential leaves the file by being deleted, or is lost to a writer that
\* does not hold the file's last version (another process wrote it, or this one
\* has not unlocked it), or to a Create that found no file when it looked.
KeptUnlessStale ==
    [][file # NoFile =>
        \A i \in DOMAIN file.creds \ DOMAIN file'.creds :
            \/ i \in deleted'
            \/ \E v \in Vaults : seen'[v] = commits' /\ seen[v] # commits
            \/ \E c \in Callers : at[c] \in AtCreate /\ at'[c] = Idle]_vars

=============================================================================
