# Verification of omegamaps

omegamaps crawls a network breadth-first from seed devices over SNMP and SSH,
collects neighbor tables, and writes a map. This directory holds TLA+ models of
its core, the TLC runs that check them on small instances, and proofs that TLAPS
checks for every value of the constants. Paths are relative to `src/`.

## Inventory

| Part | State it keeps | Operations | What makes it correct |
|---|---|---|---|
| Crawler (`internal/crawler`) | claim set and its first-label index, exclusions, returned devices; batch, next list | `CrawlContext`, `admit`, `tryClaim`, `registerAliases`, `markExcluded`, `crawlOne`, `recordCancelled` | a device is dialed once, none is lost, policy is applied on all evidence, a stop is honoured, the crawl ends unless a device holds it |
| Identity (`internal/normalize`) | none | `SameDevice`, `StripSuffixes`, `ShortName`, `ResolveWith` | two spellings of one device are one, two sites are two |
| Session (`internal/netexec`) | buffer, limits, notice, end of stream | `Open`, `Run`, `RunWith`, `expect`, `readLoop`, `Fingerprint`, `Close` | no prompt goes unnoticed, an answer is that of its command, every wait for output gives up |
| Dial (`internal/dial`, `internal/sshcore`) | `known_hosts`, connections | `Dial`, `dialJump`, `buildAuthMethods`, `buildHostKeyCallback`, `Walk`, `Classify` | nothing is left open, no credential is blamed for another's failure, accepted keys stay |
| Run model (`internal/crawlrun`) | rows, decisions, counters, sequence number, hook, tap | `Handle`, `Finish`, `RowsSince`, `DecisionsSince`, `Progress`, `Replay`, `Play` | the table says what happened; an incremental view misses nothing |
| C surface of runs (`capi`) | handles, notifier, result, recording, log, map | `crawl_open`, `replay_open`, `cancel`, `close`, `poke`, `writeMap` | no wake after close; map and result before finish; every crawl can be replayed |
| Run bridge and window (`app`) | read positions, progress, finished flag | `adopt`, `pull`, `close`, `onFinished` | what is finished is complete |
| Credential resolver (`internal/credres`) | promotions, negatives, rejections, parked credentials | `Resolve`, `Report`, `Walk` | bounded failed logins per credential, a good login is found |
| Bindings (`internal/credres/binding.go`) | records and an alias index, a file | `bind`, `record`, `forget`, `load`, `save` | one device, one record |
| Vault (`internal/vault`, `capi/vault.go`, `cmd/omvault`) | decrypted list, key, salt; a file that several processes use | `Create`, `Unlock`, `Lock`, `ChangeMasterPassword`, `Add`, `Update`, `Remove`, `SetDefault` | the file always opens, what is held is what is stored, edits are not lost |
| Topology (`internal/topo`) | none | `Generate`, `Merge`, `MergeAll` | links are kept, devices are neither joined nor split |
| Map viewer (`internal/mapweb`, `capi/mapview.go`, `viewer`) | loaded map, its generation, its layout file | `SetMapLayout`, `handleMap`, `handleLayout`, `handleConnect` | readers see whole maps, a layout stays with its map, a page connects to what it shows |
| SNMP, parsing (`snmpprobe`, `tfsm`, `crawler/plan.go`) | none that outlives a reply | walk, parse | external to the models: what a device answers |

How they interact: `capi/crawl.go` starts one goroutine per run. It calls
`CrawlContext`, which starts a goroutine per device of a depth batch and joins
them; each dials through `crawldial`, `dial` and `credres`, and collects over a session.
Crawler and resolver send events
through `Config.Emit` to one `Run`, which folds each under its lock, hands it to
the recording (the tap), and calls the change hook after unlocking. The hook
wakes a notifier that the window's event loop watches; the window's thread then
pulls progress, rows and decisions. `cancel` and `close` may come at any time. When the
crawl returns, its goroutine binds names to credentials, writes the map, sets the result,
finishes the run and flushes the recording, in this order; the window reads the
result and gives the map to a viewer. The vault's file is shared with `omvault`, the map's
with other crawls, `known_hosts` with all the workers of a batch.

The hard behaviours are listed, each at its line, under `hazards` in
`PROJECT.json`: the order of registration, exclusion and admission; withdrawal of
claims over several batches; a stop between two checks; events that reach one
row from two sources; reads of one run in several calls; late hooks; bounded lists;
files that two writers replace; answers that come after their command was given up;
an error text that is read as another's failure; waits that have no deadline.

## Modules

| Module | Models |
|---|---|
| `Identity` | names as sequences of labels, `SameDevice`, suffixes, resolution |
| `Crawl`, `CrawlProofs` | the crawler, one action per step of the main goroutine, of a worker, and of whoever cancels; theorems |
| `RunRows` | `Run.Handle`, `Run.finishAt`, `RowsSince`, `DecisionsSince` as operators on a run |
| `RunView` | a run, its hook and notifier, and the window's thread; proofs in `RunProofs` |
| `CrawlRun` | `Crawl` with the events every step sends folded by `RunRows` |
| `RunHandle`, `RunProofs` | runs as handles: opening, results, map and recording, replay, the window that watches one run |
| `CredResolver`, `CredResolverProofs` | concurrent walks of the credential ladder: `Resolve`, `Walk`, `Report`, `ResetRun`; theorems |
| `Dial`, `DialProofs` | one dial per rung: authentication methods, `known_hosts`, bastion, login, and what `Classify` makes of its error; theorems |
| `Session`, `SessionProofs` | a shell: read loops, the wait for a prompt, pager, limits, fingerprint and plan, against a device that answers in its own time |
| `Bindings`, `BindingsProofs` | the binding store: its alias set, its file, opening it, and the crawl's last fold; theorems |
| `Vault`, `VaultProofs` | the vault object in several processes over one file; theorems |
| `Topo` | `Generate`, `Merge` and `MergeAll`, and crawls and folds as steps over them |
| `MapView` | map files and their writers, viewers, pages and layouts |
| `MapProofs` | theorems about `Topo` and `MapView` |
| `MCCrawlRun`, `MCRunView`, `MCRunHandle`, `MCCredResolver`, `MCDial`, `MCSession`, `MCBindings`, `MCVault`, `MCTopo`, `MCMapView` | small estates, event sets, requests, ladders, devices, vaults and maps for TLC |

### Crawl

`items` holds every device ever admitted, in order; a batch is the segment
`lo..hi`, and the code's `next` list is what lies beyond `hi`. `jobs[i]` is the
worker of item `i` and the device it keeps. `claimed` and `excluded` are the maps
of `Crawler`; the index `claimIdx` is the first-label test inside `Claimed`.
`pc` follows `CrawlContext`: `seed`, `batch` (top of the loop), `collect`
(workers run), `claim` (`claimAll`, one device per step), `admit` (the admission
loop, one claim per step), `done`. The admission loop and `claimAll` run on the
main goroutine with every worker joined, so splitting them finer than the code's
lock regions only adds moments at which a cancel can be seen.

A worker's whole attempt with one method is one step, `Collect` or `Fallback`:
it reads nothing shared but its item and the context, and what it found is used
only after the join. What a device answers is an input, `Replies(m, n)`, a set per
method and dialed string, so a device may be up for one attempt and down for the
next. `Timed` are the methods whose collections always come back; one of another method
may stay `busy` for ever (see Fairness). A neighbor table is a sequence of claims; each claim is reduced to what the
crawler decides on: a usable name, an address, whether it is debris, whether an
exclude pattern matches. DNS is fixed during one crawl (`Resolvable`, `PTR`): a
record that changes between two lookups of one crawl is not modelled.

What `NothingLost` promises is that somebody accounts for every dialable neighbor of a device
that was walked: a device at no greater depth answers to its name, was dialed under it, or was
queued under a bare form of it in the same batch. The last is how the code treats two namesakes
that are listed together, the bare name first: `tryClaim` refuses the qualified one while the bare
one is queued, and does not look at it again when the bare one turns out to be the other
site's. `DepthIsHops` excepts the same case (`BareStood`).

`mostQualified` and `supersedeLocked` compare `len` of strings; the model compares
numbers of labels, which order the same way whenever `SameDevice` holds.

### RunRows, RunView

A row keeps state, depth, via, detail, phase, attempts and sequence number. Names,
platforms, descriptions, credentials, neighbor counts and times decide nothing and
are left out. `After(run, ev)` is `Run.Handle`, `Ended(run, order)` is
`finishAt`, whose loop over a Go map stamps rows in an arbitrary `order`; `RowEnded` is what it
makes of one row. `DecisionsSince` is the loop over the notes, as a recursive function. What a view
must have been told up to a number is `Recounts`: the notable events of the tape, ascending and once.

`RunView` splits what the code does under separate locks: `Handle` (fold, tap,
capture the hook), `Poke` (the captured hook, any time later), `Drain`,
`ReadProgress`, `ReadRows`, `ReadDecisions`, `Publish`, and closing in two steps.
`Finish` waits for `owed = {}` because `CrawlContext` has joined the workers, whose
emits return only after the hook does. `vpc` is where the window's thread is; a
slot may close the run after any signal of a pull.

### CrawlRun

Each action is the action of `Crawl` conjoined with `Emit(events)`: `Handled` folds the events of
the step one after the other, in the order the code sends them. Events of two workers name different rows, so only
sequence numbers could tell interleavings apart, and no property of this module
mentions them. The authentication events come from the resolver; here they follow
from the reply. Phases within one method are represented by its first.

### CredResolver

`promoted`, `negative`, `rejects` and `parked` are the fields of `Resolver`; `pin` is
what the binding store's `Lookup` finds, one credential per record, where `RecordOf`
says which record the names of an identity lead to (two identities may lead to one).
`walk[w]` is the call of `Walk` goroutine `w` is in: what it has left to try, whether
it is dialing, and the outcome it has yet to report; `Untimed` are the dials that may never
return, and `Hanging` is a walk in one. `Resolve` and `Report` run under
the resolver's lock and are one step each; the dial between them is not, and any
step of another walk may fall there. That is the point of the module: a list is
resolved once, and what others learn meanwhile does not shorten it.

`InScope` stands for the filters that do not change during a run (disabled, method,
tags, scope) and `Rank` for the static order of `rank`; `Orders(d)` says which
sequence the code's three loops build. `Answers` is what a dial may come back with.
`OutcomeUnreachable` stands for all outcomes that end a ladder without evidence.
A vault that cannot be read ends a walk before it begins (`ResolveNone`). Identities
are never empty here: the crawler always passes the one it claimed. `ResetRun` has no
caller in the repository but its tests; it is a step like any other. `refused` and
`failed` are history: they record what no field of the code does, and no guard reads them.

### Bindings

`recs` and `index` are the records and the map of `aliasSet`; a record is a place in
`Slots`, so that two records with equal contents stay two. `Bound` is `bind`: which records
become one (`Group`), which of them stays (`FirstMet`: the one met first), what pin
and label it ends with (`MergedPin`, `Label`), and which names lead to it afterwards.
The code merges record after record while it walks the names; the outcome does not
depend on the steps in between, because no name leads anywhere else until the walk is
over. `Record`, `Forget`, `Bind` (as `Fold` calls it) and `NoteContext` hold the store's
lock from end to end and are one step each, with the save they end in: it replaces the
file or fails, and memory has changed either way. `Restart` is a crash as well as an
orderly end. Opening the file is one `LoadNext` per record, in the file's order.

A string's `Shape` says whether it is an address, a qualified name or a bare label;
`Refused` are the ones `shapesFor` does not admit. Two things are not in the code and no
guard reads them: `Owner`, which device an address or qualified name is really of, and
the `box` of a pin, the device the credential was accepted on. `TruthfulAssumption`
says what the store must be able to rely on: the addresses and qualified names passed
together are of one device. Bare labels are exempt; that two devices share one
is the case the store is written for. Times are the order of successes: a wall clock
that is set back between two runs is not modelled.

### Session

Output is a sequence of lines, each with the number of the command it answers. A line
`"prompt"` is one that matches the session's prompt with nothing after it, `"more"` one that
asks for a key. `buf`, `overflow`, `limit`, `err`, `closed` and `notify` are the fields of
`Session`; `reader[r]` is where a read loop stands: it has appended and not yet notified
(`telling`), or has seen the end (`ending`). `pc` is the goroutine inside `RunWith` and
`expect`; `seen` is the moment between its look at the buffer and its `select`, and `saw` is
what it remembers of that look. `Open`, `Fingerprint` and the plan's loop decide by `After`
what the next command is. A device may fall silent (no fairness for `Device`), hang up at any
moment, and takes any byte sent at `more` as a key. `adrift` is history: a command was given up
while its prompt was still to come.

The module begins where the shell has opened and ends with the last answer. `NewSession`, `RequestPty`
and `Shell` before it, which may wait for ever, are the held collections of `Crawl`.

Left out: a line that looks like the prompt at the end of a chunk without being it
(`session.go:392`), which ends a read early, and one of a table that looks like a pager's
(`LinesAssumption`); `Enable`, which has no caller; echo and
normalization.

### Dial

`walk[w]` is one call of `Walk` down `Ladder`: every rung dials anew, through the bastion if
there is one. The steps are those between which other walks may touch `known_hosts`: `Stat`,
`Create` and `Load` are three, as in `buildHostKeyCallback`, and an accepted key is appended
at the moment its connection is at. `open` is what is connected, `hop` which of the two
handshakes the walk is in. An error is the kind of its cause; `Classify` is what the matching
on its text yields, and `Rejections` the texts it reads as a refusal. The agreement of algorithms
and the order in which `x/crypto/ssh` tries methods are external: a device takes a login if one of
the methods offered carries what it takes. Of that order only this is used: an error of a method is kept
until no other is left, and keyboard-interactive is the last, so `LoginError` is what a refused login ends
with. `agent` is what `SSH_AUTH_SOCK` leads to: only an unset one leaves the method out (`Methods`); a
dead or a faulty one answers nothing (`Answers`) and fails within the login. A peer may go silent or
hang up in any handshake (`ConnectFails`) and in any login (`LoginCut`), whatever it has been shown by then.

### RunHandle

A handle is a place in `runs`. A crawl's goroutine goes through `crawling`, `returned`,
`mapped`, `reported`, `finished`, `over`: `CrawlContext`, `writeMap`, `setResult`, `Finish`, and
the flush, in the order of `capi/crawl.go`. `files` are recordings as inodes and `disk` the
names they have, because `os.Create` empties a file under whoever still writes it and
`os.Remove` takes a name from it. `Spill` is the buffered writer writing in between, `err` its
sticky error. `OpenCrawl` has an action for each way out of `crawl_open`, with what each leaves
behind. A window closes the run it watches before it opens another; the old goroutine
goes on. `Quit` waits for nothing. `PullProgress` and `Tell` are the ends of a pull that `RunView` takes
step by step; its names are kept apart from those of `RunView`, so that `RunProofs` can extend both. `alone`, `touched` and `followed` are history.

### Vault

`mem[v]` is a `Vault` object, `file` the file: the salt in its envelope, the key it is
sealed with, the credentials. A key is a password and the salt it was derived with, so that
a file whose envelope names another salt does not open. `at[c]` is where a caller stands between
two steps of one call: `Unlock` and `ChangeMasterPassword` read the file before they take the
lock, a rename by the C surface and a command of `omvault` look before they change. Every
saving method is one step with its write, which replaces the file or fails; memory has changed
either way. A process may crash at any moment and start again locked. Two processes save from
their own copies.

### Topo

A map is a function from node to address and peers; a peer's connections are a set.
`Generate` is the map of a crawl's devices, with the two-way check; `Merge` folds one
map into another with `MatchShortName` and `MatchIP`. `BoxOf` and `Cables` are not in the
code: they say which device a name is of and what is wired, which is what maps are judged by.

A map can be true only to what devices report, and four named assumptions say what that is.
`ReportsAssumption` types a report and gives it a name. `NamesAssumption`: the
names of a report are of one device; a domain suffix tells no devices apart, and no name ends in two
(`StripSuffixes` takes one off); a bare name that some device goes by is of no other device whose name begins
with it. `ClaimsAssumption`: what a device lists is wired to it, and what reads as
the far port without being one is that port's description and names the device itself. `MergeAssumption`: two
crawls know a device that answered by one key or, with `MatchIP`, by one address, and with
`MatchShortName` its first label is its own. Under less the maps are wrong and the
code does not claim otherwise. `MCTopo` meets them with bare,
qualified and numeric names, two leaves of one first label, descriptions and artifacts; with
`MatchShortName` FALSE there, its part of `MergeAssumption` asks nothing in the run.
So every name and address leads `lookup` to one node at most: that it refuses an ambiguous match is
translated (`Lookup`) and never asked for, and no property speaks of it.
Within one crawl two reports may share a name where they share the key: a device met twice in a
batch is reported twice. A line whose near port does not read as a port is drawn at one end only, since
`dropDescriptionClaims` looks at the far one, and `Merge` drops a line from a device to
itself; `LinksAreTrue` and `MergeIsLossless` except these two.

### MapView

`dir` and `bytes` are a file system of two names per map, the map and its `.tmp`: a crawl
opens, writes and renames, in three steps, and may fail or die between any two; `cmd/crawl`
writes in place. `viewer[v]` is a server with its loaded map, its generation (`gen`, from
which node ids are drawn) and its layout file; `call[t]` is a load between reading the file,
setting the map and noting the path. `page[g]` holds what a page was served, however old. A
layout is saved in two steps, the first under the server's lock with the file chosen before it.
`stale` marks a layout that crossed over through a page its server had left behind, which the
code allows.

## Runs

| Run | Shows | Bounds |
|---|---|---|
| `crawl_estate` | `VisitsOnce`, `NothingLost`, `ReturnedByLevel`, `PolicyIsKept`, `TableIsTrue`, `NoDialAfterStop`, `EndedStaysEnded`, `EndsUnlessHeld` | two sites of two roles under one allow list and one pattern, reported by name, bare name and address; two access points of one first label, the bare name listed beside its sibling; four seeds, depth 3, two methods, of which SSH may hold a worker, two workers |
| `runview_rows` | `ViewIsExact`, `FinishedIsComplete`, `ReplayRebuilds`, `NoWakeAfterClose`, `ViewFinishes` | three events of nine kinds over two rows, one decision kept |
| `runhandle_files` | `SettledWhenFinished`, `ReplaysUnlessReopened`, `RunsEnd` | one path, two attempts of five requests with five faults, two events |
| `credres_walks` | `RefusalsBounded`, `PinNotRefused`, `GoodLoginIsFound`, `WalkEnds` | two goroutines, four walks, four identities of two devices, three credentials, threshold 2, cap 2, one reset; the dials of one device may hang |
| `bindings_runs` | `StoreIsSound`, `PinIsOwn`, `NamesStayTogether`, `RestartKeepsDevices` | two devices of one first label, seven strings of all shapes, six ways to ask and three to fold, four records, two successes, one restart, no file or one of the first format |
| `vault_processes` | `FileIsSound`, `HeldIsStored`, `KeptUnlessStale` | two objects, three callers, two passwords, one fresh salt, two writes that may fail, two ids, three inputs; no file, or one with a default login |
| `session_collects` | `NoLostWake`, `TextIsTrue`, `CollectionEnds` | a banner of two keys, four probes, a plan of three commands, tables over the limit, pages of one line, two streams |
| `topo_maps` | `LinksAreTrue`, `FailedIsShownUnlessNamesake`, `MergeIsLossless` | seven reports about four devices in any order, three to a crawl, two crawls |
| `map_views` | `LastDoneIsThere`, `LayoutsStayWithTheirMap`, `ViewersKeepToTheirMap` | one map crawled twice and one written in place, one viewer with two loads by one thread, one page |
| `dial_walks` | `NoConnectionLeft`, `CredentialsAreSpared`, `GoodLoginIsReached`, `HostKeysHold` | two walks, alike (symmetry), both down to the second rung or one down all four; four hosts of three devices behind a bastion; an agent that is unset, dead, faulty or live; two keys, one of which changes |
| `session_late` (violated) | `AnswersAreOwn` | as `session_collects` |
| `runhandle_lost` (violated) | `EveryCrawlReplays` | as `runhandle_files` |

Each property is a conjunction of parts that are defined, and stated in words, just above
it in its module; the type invariant of a module is the first part of one of them.

Why these bounds are enough to be of use: `claimed` can only change what it
covers when a longer form of a claimed name registers, which takes a bare name, a
name under it and a sibling; the estate has all three, over the three batches it
takes to claim, withdraw and report again, and a device that lists a bare name beside a namesake. `RunView` needs one change before, between
and after the reads of one pull, and a second pull, which three events and the end
of the run give; with one decision kept, a burst of two outruns the bound and one
at a time does not. In `runhandle_files` the second run is what can reopen the
files of the first while that is still being written. `RefusalsBounded` allows
three refusing devices with threshold 2 and two goroutines; four identities and four
walks are what it takes to exceed that. In `bindings_runs` two devices and one label
are what a wrong join takes, three records what a merge of two beside a third takes, and two
successes on one record what makes one pin newer than another. A vault can be spoiled by
two writers or by one whose write failed, and two objects and two passwords are what
a stale key takes. A session loses a wake between one look and one wait, which every command
repeats; its tables are longer than the limit by one line and by several. In `dial_walks` what walks share
is `known_hosts`, which each touches on every rung, so two that run at once need few rungs; what a rung leads to is decided
within one walk, which has all of them (`OneOrShort`). In `map_views` a
second load is what separates a page from its server. Each passing run has, per property, a
mutant of the code that the run refutes (`mutants` in `PROJECT.json`): a bound at which the
case did not occur would leave its mutant alive.

`map_views` has one thread that loads: the viewer process calls the library from its window's
thread only. With two, one load can be set between the other's two steps, and
the path of the window and the map served are of different maps; nothing in `capi/mapview.go`
forbids it, and nothing calls it so.

### Where the code and its words differ

Two runs end in a violation of what the sources say, quoted under `findings`:

- `session_late`: the answer to a command that timed out is returned as the next one's.
- `runhandle_lost`: a crawl that is refused after its files were created deletes
  the recording of the crawl before it.

The properties of the other runs except, in so many words, the following, each of which
the code does against a line of its documents (`hazards` has the lines):

- of two namesakes listed by one batch, the one that is refused for the other's bare name is never
  looked at again (`crawler.go:306` lets the bare claim stand for both; the comment at line 360 has
  superseding tell them apart);
- the suffix that makes a name allowed need not be the suffix it is dialed under;
- an exclude verdict is keyed on the reported string and the claim on the resolved one;
- a reached device is shown as not dialed after a later verdict; a device that a stop
  abandons shows as a seed at depth 0; a resolution note shows a device as running
  before its batch, and overwrites the reason of one that has failed;
- on a restart a shared first label goes to the record that sorts first, though the file
  lists it for another; a derived first label finds, and forgets, the pin of a namesake;
- two crawls of one map share `<map>.tmp` and may tear the map; `cmd/crawl` writes
  it in place;
- a crawl opened at the path of one still winding down empties the recording under it, and
  quitting waits for no crawl, so a cancelled one may leave no map;
- a device that takes the connection and never opens a shell, or never shakes hands behind a bastion, is
  waited for without a deadline and without the context: a stopped crawl waits for it, and its run does
  not finish (`omegamaps.h:164`; see Fairness);
- an agent whose socket is set and has no listener stays a method (`auth.go:84`, against line 78), and
  on a device that asks for keys alone its error is read as the device being unreachable
  (`classify.go:120`, before `ssh agent:` at 188): the ladder ends above a key the device takes. An agent
  that answers with an error ends it too, as `OutcomeOther`, and so does a peer that hangs up in a login;
- a leaf of one map that is a node of another may stay a leaf in the merge, under its other name: peer keys of the base
  are copied (`merge.go:140`) and those of the incoming map are looked up without an address (line 183),
  against line 25;
- a failed device whose first label an answering device shares is not on the map;
- a login the bastion refuses counts against the credential meant for the device;
- two workers may both find no `known_hosts`, and the second to create it drops what the
  first has accepted;
- two processes that edit one vault lose the edits of the one that saved first; a failed
  edit stays in memory and is saved with the next.

### Fairness

`Spec` has no fairness unless said here. What the code waits for without a deadline is not assumed to end:

- opening a session, its terminal and its shell (`netexec/session.go:169-206`; `sshcore/dial.go:135` has
  cleared the connection's deadline by then);
- the handshake with a bastion, where `ssh.Dial` bounds only the connection (`dial.go:173`), and the
  dial and the handshake through one (`dial.go:102`; `SetDeadline` at 121 is not supported on a
  tunnelled connection, and its error is dropped);
- a write to a device whose window is shut, and an answer of the agent.

No context reaches any of these.

`Crawl!FairSpec` asks `WF(Prompt)`, and `CrawlRun`'s `RFairSpec` asks the same: the main goroutine and
the workers are runnable goroutines, and a collection over a method of `Timed` comes back, because every
request of an SNMP walk has a timeout. A collection over SSH may or may not come back, at any device and
any moment. What holds then is `EndsUnlessHeld`: the crawl ends, or it comes to stand
at a batch whose slots are all taken by such collections, or all of whose other devices are done.
Nobody has to cancel, and cancelling does not help.

`CredResolver!FairSpec` asks that every walk goes on but one in a dial of `Untimed`: other dials have a
deadline for connection and handshake, and the lock is held only for map operations and a
file write. `WalkEnds` says that a walk ends again and again, or hangs in one such dial for ever; its run
has both kinds of device.

`RunHandle!HFairSpec` asks that each run's goroutine goes on from where its crawl has returned,
and that a replay's timers fire. That a crawl returns is not assumed: `RunsEnd`
says that a run ends or stays in its crawl.

`RunView!FairSpec` asks that a goroutine that captured the hook calls it, that the event loop serves a
readable notifier, and that a pull goes on; neither the half-second timer nor the end of the crawl is
assumed, because `include/omegamaps/omegamaps.h` promises a wake after every change.
`Session!FairSpec` asks only that the collecting goroutine goes on: from the open shell on its waits
for output have deadlines, so giving up is always a step it can take (a write that never returns is one of
the held collections of `Crawl`, and outside the module); neither the device nor the network nor the
read loops owe it anything.

## Proofs

`CrawlProofs` proves, for every estate (`Reports`, `Replies`), suffix list, DNS,
policy, depth and concurrency:

- `CrawlTypeOK`: `Spec => []TypeOK`.
- `CrawlClaimInv`: `Spec => []ClaimInv`, the inductive strengthening for the claim set.
- `CrawlStillClaimed`, `CrawlOneVisit`, `CrawlRevisitIsSibling`, and `CrawlVisitsOnce`: all
  four together.
- `CrawlAccount`: `Spec => []Account`, the inductive strengthening for what becomes of neighbors.
- `CrawlNothingLost`, `CrawlJudgedOnAllEvidence`, `CrawlAllReturned`, `CrawlDepthIsHops`, and
  `CrawlReturnedByLevel`, the last two together.
- `CrawlNoDialAfterStop`, an action property.
- `CrawlRunIsCrawl`: `RSpec => Spec`, so that all of the above holds of the crawl with its table.
- `CrawlRunTable`: `RSpec => []TableInv`, the inductive strengthening for the table.
- `CrawlRunTableIsTrue`, `CrawlRunPolicyIsKept`, and `CrawlRunEndedStaysEnded`, an action property.

These are all the safety properties `crawl_estate` checks.

They assume `IdentityAssumption` and `CrawlAssumption`, which type the constants and
say nothing of the network. `StillClaimed` is not inductive: that a name *is*
refused says nothing about which claim refuses it, and the claim that does may be
the next to be withdrawn. `ClaimInv` says more: every admitted identity and every
registered alias is covered by a claim within which it lies
(`Covered`), batches are levels of depth (`Levels`), and the segment `lo..hi` and the
cursors have their shape (`BatchShape`). The argument for one step is
`RegisterCovers`: registering removes a claim only when it adds a longer one of the
same device, so what was covered stays covered; `SameDevice` is a prefix relation on
labels, which the lemmas at the head of the module establish once. An exact or
shorter claim then contradicts admission, which gives `OneVisit`; and a claim that no
longer refuses a name it once refused must have been replaced by a longer one, which
names the sibling `RevisitIsSibling` asks for.

`NothingLost` speaks of every walked device at every moment, and a claim may be refused because of
a device that has not answered yet. `Account` therefore keeps, for every claim a walked device
made and the admission loop has passed, a job that accounts for it (`AllAccounted`): one
that answers to the name, or is queued under it or a bare form of it, no deeper than one hop. The claim that
refused it points to such a job, and when that claim is superseded the job has registered the
longer name (`RegisterCovers` again). Depth follows because the queue is in levels: of all jobs that
account for a claim, take the least (the library's well-foundedness of the naturals). `JudgedOnAllEvidence` is
the part of `Account` that says an exclusion of a batch is known before any of its neighbors is
admitted, and `Filed` the part that says every item before the cursor has its result.

`TableInv` ties rows to jobs. A step sends several events, and each is handled by itself, so the
argument follows a row event by event: the lemmas about one event of each kind say which row it
changes and how (`PlaceSame` and `StateSame` for those it does not), and a step composes them over
`Handled`. A row's state is what its device has come to, unless a verdict names the same row:
the code shows the later of the two, and `TableIsTrue` excepts it.

`CredResolverProofs` proves, for every vault, ladder, binding store, number of
goroutines, threshold, cap and set of outcomes, from `CredResolverAssumption` (types;
the vault, the devices and the goroutines are finite sets; no two credentials rank alike):

- `CredTypeOK`, `CredLockoutBound`, `CredRepeatsBounded`, `CredPinNotRefused`, and
  `CredRefusalsBounded`, the first three together, as `credres_walks` checks them.
- `CredGoodLoginIsFound`.

`LockoutBound` is not inductive: a parked credential can still be refused. What bounds
it is who holds it: `BreakerInv` says that an unparked credential is below the
threshold and that, once parked, its refusals *and the walks that still have it to
try* stay below the threshold plus the goroutines. A report moves one walk from
the second count to the first (`ReportHolders`), because no list holds a credential
twice (`Distinct`, from the order `Orders` sorts by), and no walk that begins later
joins the second (`ResolveHolders`). `RepeatInv` is the same argument for one device
and one credential. `PinNotRefused` is inductive as it stands.

For `GoodLoginIsFound`, `HopeInv` says that what a walk has left still holds every credential that
always opens its device. It does when the list is built, because `Orders` builds a list as long as
there are eligible credentials with none twice, which is all of them (`AllListed`); and a walk goes
past such a credential only after its success. What a device breaks off with, and a cap that
cuts the list, are what `Welcoming` excludes.

The bound is what the code keeps, and it is weaker than the words of
`internal/credres/credres.go:23` ("A credential rejected by N distinct identities in a
row is parked"): up to one more device per goroutine in flight sees it after that.

`BindingsProofs` proves, for any strings, devices, files, number of records, failed saves
and restarts, from `BindingsAssumption` (types; finitely many strings; no two alike in the
alphabet), `TruthfulAssumption` and, for the last, `WrittenAssumption` (no two records of a file that
is there at the start hold one address or qualified name: the first format has a record per string,
`toBinding`, and later ones are written from an index):

- `BindTypeOK`, `BindIndexExact`, `BindOneBoxPerRecord`, `BindPinIsOwn`, and
  `BindStoreIsSound`, the first three together, as `bindings_runs` checks them.
- `BindNamesStayTogether` and `BindRestartKeepsDevices`, action properties.

None of the invariants but the types is inductive alone. `IInv` adds what links them:
`MemorySound`, that a record's label, where it is an admitted address or qualified name, is
among its aliases (otherwise a record could be loaded under a name of another device), and that
a pin whose device is known has a witness, an alias of its record that belongs to that device;
and `FileSound`, the same of the file, since what was saved comes back. The argument for a
step is in the lemmas about `Bound`: all records of a group reached by strong names hold a
name of the device asked for (`IndexExact`), hence are of that device (`BoundOneBox`);
a group reached by labels is one record, and either it or the names asked with identify
no device. The witness then carries the pin through merging (`BoundPin`), saving
(`SavedKeeps`) and loading (`LoadKeeps`). Names stay together because, the index being exact, no
string of a record that is not joined is asked for or repointed (`OthersKept`), and all strings of
one that is joined lead to the record that stays (`JoinedMove`).

`RestartKeepsDevices` compares a file with what the last step of opening it leaves in memory, so it
needs to know what every step before has left. `LoadedSo` says it of a store that has taken in a part
of the file: each record of that part that identifies a device is one record of memory and no other
one's, with a success at least as recent, and memory identifies no other device. One `LoadNext` keeps it
because the file's records stay apart while it is rewritten (`FileStaysApart`), so that what is
loaded next meets no record by a strong name but its own (`MergedSingle`, `LoadPlaces`). A label can
still join it to a record that identifies no device. If such a record has taken a later success into its own
and had its pin forgotten, its later time stands without a pin, and the device loses the one it had
(`load`, `binding.go:500`): the property names the case, which a file without such a record never meets.

`VaultProofs` proves, for any number of processes, callers, passwords, salts, crashes and
failed writes, from `VaultAssumption`:

- `VaultFileIsSound`, `VaultHeldIsStored`, and `VaultKeptUnlessStale`, an action property.

`FileOpens` alone is not inductive, because the file is written from memory: a vault that held a
key of one salt beside another salt would write a file that nothing opens. `IInv` adds
`Stored` (the file's key is of the salt in its envelope), `Held` (so is that of every
unlocked object, and its list is in order), `HeldIsStored`, `Called` (what a caller
read before its lock is a password or a name, never a state it writes back), and `Numbers`
(ids and salts are given once). Most steps are one of two: a memory that changes without
the file, and a save that makes the file what the memory is.

`KeptUnlessStale` needs `Remembered`: a memory noted to be of the file's last version holds everything in the file
that was not deleted. A save by a vault whose version is the
last therefore drops only what was deleted (`HoldingKeeps`). The proof found what the run's bounds do not
reach: with two threads in one process, a `Create` that has looked for a file
before its lock (`vault.go:342`) replaces the one another `Create` wrote meanwhile, and the records
added since, though its own process wrote them. The property says so.

`RunProofs` proves `RunSettledWhenFinished`, for any number of runs, paths, requests,
events and faults: what a window hears of a finished run is true. The argument is the order of
a run's goroutine, which `Staged` and `MapWritten` say stage by stage: the map is written, then
the result is set, then the run is marked finished, and a later run only adds to the list of a
map's writers (`Longer`), so nothing the window has heard (`Told`) is ever taken back.
`RunReplaysUnlessReopened` rests on who may write to a file: a file serves one path (`Placed`), a
writer has not written more than was handled, and all of it once it has flushed (`Counted`); and
the file of a crawl that began alone and whose path nobody has opened since holds exactly what that
crawl has written, every other crawl of the path being over (`Own`).

Its last part is about `RunView`. It proves, for any keys, texts, workers, events and bound on
decisions, from `RunRowsAssumption` and `RunViewAssumption`, every invariant `runview_rows` checks:

- `RunViewIsExact`, `RunFinishedIsComplete`, `RunReplayRebuilds`, `RunNoWakeAfterClose`.

What a view has read says nothing of what it will read, so `ViewInv` relates every part to the tape,
which has each event under the number the run gave it (`Taped`): the notes the run still holds are
ascending, notable and on the tape, and those not read yet are all of them while no burst has outrun the
bound (`Noted`); the decisions shown are those up to `decSeq` (`Recalled`). An event changes one row and
gives it a number no row has (`AfterIs`), and so does the end of a run for each row in flight
(`EndedIs`), so a row with an old number is as it was read. `Pulled` follows the order of a pull: progress
is read first, and a run that had closed by then changes no more. `Retold` says that the run is what its
tape replays to, ended if it is; two orders of ending differ only in the numbers (`EndingsAgree`).

`SessionProofs` proves, for any probes, plans, tables, limits, number of streams and page lengths:

- `SessionNoLostWake`: a command never waits for what has already come.
- `SessionTextIsTrue`: what the crawler makes of a session is what the device said.

For the first, that a device asks for a key is seen only in the buffer, so `Asking` says where its
question is while it waits (still on the wire, or last in the buffer); and `Missed` says that what a look at the
buffer did not find has come after it, with a notice of its own. A full `notify` channel loses
no wake because a notice that is dropped there finds another one waiting.

For the second, `Flow` says where an answer is while a command waits and none was given up before it: what the device still has to
say, what is on the wire and what is in the buffer are, in this order from the end, the last lines of
one answer (`Follows`), all of it unless the buffer was cut, and the device's input holds nothing but
keys; before the command reaches it, everything is empty. A prompt is only an answer's last line
(`OutputSays`), so a prompt at the end of the buffer means that nothing follows (`PromptIsLast`), and
the next command starts from silence. This is where the limit matters: a buffer that was cut is
never returned, and its last line is still the answer's. `Probing` adds what the fingerprint knows so far: the
probes before its own matched nothing, and its paging command was taken. `LinesAssumption` is used
here: what a device says holds no line of its own that ends a read or asks for a key, and no probe looks for
one. A line of output that looks like a prompt where a chunk ends is what this leaves out.

`MapProofs` proves, for any number of crawls, viewers, threads and pages,
`MapViewLayoutsStay` and `MapViewConnects`. Both
rest on one chain: whatever a file of a map's name holds was written by a crawl of that
map (`FilesApart`), so a load pairs a map with its own layout file (`Loads`, `Served`), and
a page whose generation is its server's shows the server's map (`PagesShow`). `MapViewLastDone`
adds what a writer may rely on (`FInv`): a file has one name (`OneName`), a crawl that has yet to write
has no file (`Fresh`), two that write one path at once are marked as such (`SharedKnown`), and one that is not
writes the file its temporary name leads to, the one it renames (`Undisturbed`). `MapViewKeepsToItsMap` is proved for one loading thread
(`OneCaller`), which is what the viewer has; with two it is false, as said under Runs. `Named` says
what the thread, between its two steps, has set and still has to note.

`MapProofs` also proves, for any reports that meet the four assumptions of `Topo`, crawls of any size,
any number of maps and any setting of `TrustUnidirectional`, `MatchShortName` and `MatchIP`, all
that `topo_maps` checks:

- `TopoLinksAreTrue`, `TopoFailedIsShown` and `TopoMergeIsLossless`.

`TopoInv` is inductive: the crawl under way has reports of `Reports`, any two that share a name share
the key (`Apart`); every map written is `Generate` of such a crawl; and of the map folded
so far it says `Charted`: each key is a name of a device that answered, its node has an
address of that device or none, and its lines are cables to names that were reported.
For one map, all rests on whose key a name gets: a name a device of the crawl goes by gets the key of that
device (`CanonOfKnown`), and any name said gets one of the device it is of, if it is of any
(`CanonOfSaid`), so that a claim is drawn between the ends of its cable (`LinesAreCables`), the reverse
check finds the claim of the other side under any name (`ReverseByKey`), and
what passes it is drawn from the other end as well (`LinesAtBothEnds`, `AgreedLines`). For
the fold, each rule of `lookup` finds only the node of the same device (`LookupFinds`): the first by
names, the others by `MergeAssumption`. Hence a node is resolved to the one node of its device, or is
new (`ResolvedIs`), a peer to a name of the device meant (`PeerKeyIs`), and lines of the base and of the incoming
map are lines of the result (`MergeKeepsBase`, `MergeKeepsLine`).

`DialProofs` proves, for any hosts, devices, credentials, ladder, number of walks at once and
bastion or none, and any state of the agent, from `DialAssumption`, all that `dial_walks` checks:

- `DialNoConnectionLeft`, `DialCredentialsAreSpared`, `DialGoodLoginIsReached`,
  `DialHostKeysHold`.

A walk touches its own record and `known_hosts` only, so the invariant is one of each walk
(`Well`) with `OnFile`, which ties the walks to the file. `Opened` says what is connected at
every step of a dial, where the property speaks of its ends; `Blamed` keeps with each report
the error it was made of, and that a walk which ends on a credential's own failure is at the last
rung, with a credential that does not log in there. That depends on the agent, which no step changes
(`SameLogins`, `StaysWell`). All steps but those over `known_hosts` are one of two: the walk goes on, or it reports.

### Only model-checked

All liveness (`EndsUnlessHeld`, `ViewFinishes`, `RunsEnd`, `WalkEnds`, `CollectionEnds`): TLAPS has no rule here
for fairness, nor for `ENABLED`. Every other property of a passing run is stated by a theorem.

## Not modelled

Text and wire formats (command output, templates, SNMP decoding, wrapping repair),
cryptography, HTTP, drawing, the windows but for the one that watches a run. Within the
modelled parts:

- `Crawl`: DNS answers that change during a crawl; the address cache and the DNS fill of
  neighbor addresses (`neighboraddr.go`), which only supply `addr`; times and durations.
- `Session`: a line that looks like the prompt where a chunk of output ends; `Enable`; what
  a command's echo and its terminal codes are cut from.
- `Dial`: the choice of algorithms; an agent that comes or goes during a crawl, which is one run's constant.
- `Vault`: where the master password comes from (keyring, environment, prompt); the
  permissions of the file.
- `Topo`: platforms, addresses of the second kind and the report of a merge, none of which
  decides a node or a link; names and addresses that lead to two nodes of a map.
- `MapView`: what requests the server turns away by their headers; its assets; the list of maps.
- The comparison of two runs, which reads two finished recordings; profiles and parameters,
  which are validated and stored whole; command lines and test networks.

## Plan

Done, in this order: `Identity`, `Crawl`, `RunRows`, `RunView`, `CrawlRun`,
`CredResolver`, `Bindings`, `RunHandle`, `Vault`, `Session`, `Topo`, `MapView`, `Dial`, and the
proofs above. What is left:

1. Abstract specifications: a partition of strings into devices with one pin each,
   which `Bindings` implements and `CredResolver` would use for `RecordOf`; a ledger of failed
   logins that `CredResolver` implements.
2. The comparison of two runs, over the operators of `RunRows`.
