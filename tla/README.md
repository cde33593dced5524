# Verification of ccw

ccw gives a user a terminal on a remote Claude session and keeps a local directory and the
cloud workspace of that session in step. This directory holds TLA+ models of it, TLC
configurations that check them and TLAPS proofs. `src/` below is the repository.

    tlc -workers 2 -config server_races.cfg MCSyncServer.tla
    tlapm SyncServerProofs.tla

and `tlapm` in the same way on each `*Proofs.tla`.

## The system

| component | state | operations | what must hold | status |
|---|---|---|---|---|
| sync server (`internal/sync/syncserver.go`, `server.go`, `ws.go`, `store/sync.go`) | `file_index` table, workspace directory, temporary files, one mutex per project, per connection the request in progress | put, delete, get, manifest (with reconciliation of Claude's edits) | one line of versions per path, one winner per base revision, acknowledged means committed, quota at commit, repaired after crashes | `SyncServer`, proofs in `SyncServerProofs` and `SyncQuotaProofs` |
| revision store (the interface between the two) | current version and all versions of each path | publish on top of the current one | never rewritten, no gaps | `RevisionStore` |
| three-way diff (`internal/sync/manifest.go`) | none | `BuildLocal`, `Diff` | see client | `ThreeWay` |
| sync client (`syncclient.go`, `syncclient_ws.go`, `client.go`, `runSync`) | local directory, `.cclaude/index.json`, one round at a time | upload, download, delete either way, conflict copy, save the baseline | nothing overwritten unseen, no local edit lost, no rollback, convergence | `SyncClient`, proofs in `SyncClientProofs` |
| usage collector (`internal/usage/collector.go`) | a cursor per log file, the events in the sink | Scan | nothing counted twice, nothing skipped | `UsageCollector`, proofs in `UsageCollectorProofs` |
| sync session opening (`sessionFactory` in `cmd/worker-agent/main.go`) | the directory and the limit each connection was given | look up slug and limit, fall back when that fails | the history takes no harm, the index comes back to the project's directory | `SyncSessions`, proofs in `SyncSessionsProofs` |
| CLI loop (`cmd/cclaude/main.go`, `internal/control/client.go`) | session token, sync token, mode | exchange, connection, renewal, normal and cleanup mode | reconnects, returns to normal | `Admission`, `TerminalAccess` |
| control API, quota, tokens (`internal/control`, `quota`, `token`) | attempts per client, window sums | exchange, connection | limiter bound, limited for cause, no dial of a revoked CDK, no terminal token when over quota | exchange and tokens in `Admission` with proofs in `AdmissionProofs`, quota gate in `TerminalAccess` |
| terminal and enforcement (`internal/terminal`, `cmd/worker-agent`) | registry of connections, goroutines, tmux | attach, close, 30-second check | over-quota terminals are closed, nothing leaks | `TerminalAccess`, proofs in `TerminalAccessProofs` |
| migrations, administration (`internal/store`, `cmd/ccwadmin`) | schema, accounts, projects, CDKs | Migrate, EnsureAccount, CreateProject, CreateCDK | each migration once, nothing on half a schema, a CDK for the run's own project | `Bootstrap`, proofs in `BootstrapProofs` |
| path rules, CDK hashing, Docker arguments, configuration, pages, deployment | none | | unit tests | not modelled: stateless |

How they interact: the client polls. Every two seconds it opens a websocket to the worker,
asks for the manifest (the worker first reconciles the index with what Claude did to the
directory), decides per path and sends one request at a time. Several devices do this for one
project, each connection served by a goroutine of its own; they share the index, the directory
and the project lock. Claude shares the directory only, and takes no lock. The worker and the
client can each be killed at any point; files, rows and `index.json` survive.

For the terminal, cclaude asks the control API, which mints a token unless the project is over
its quota or its disk is full, and dials the worker with it. The worker registers the
connection, prepares the project's tmux session and copies bytes; a loop of its own looks every
30 seconds at the projects that have a terminal and cancels those of projects over their quota.

To get that far, cclaude exchanges its CDK for a session token and that for a sync token, and
renews both while its rounds run. The rows behind a CDK are made by `ccwadmin init-project`,
which migrates the database first, as control-api does at every start.

Hard are therefore: requests of several sessions between the read of a row and its commit; the
rename that is not atomic with the commit; downloads that take no lock; Claude writing between
reconciliation and rename; users editing during a round; answers that are lost; kills between
the write of a file and the save of the baseline; tokens that expire while control-api is down
or its limiter is used up by others; two programs migrating at once. `PROJECT.json` lists them
all ("hazards").

## The modules

### RevisionStore

The promise: per path, versions 0, 1, 2, ... of which the last is the head; `Publish(p, n, v)`
needs `head[p].rev = n`. `SyncServer` implements it. The client's module cannot be built on it
alone: a get reads the workspace without the lock and sees what is no version yet.

### SyncServer

One action per step at which something else can come in: a database call, a rename, an unlink,
the end of an upload. `pc[s]` says where the handler of session s is.

| code | actions |
|---|---|
| `ServeSync` reads a frame | `ReceivePut`, `ReceiveDelete`, `ReceiveGet`, `ReceiveManifest` |
| `HandlePut` | `PutLock` (lock, Current, base check, temporary file), `PutReceive` (stream, digest, mode), `PutAdmit` (quota), `PutPromote` (rename), `PutCommit` (row, answer, unlock), `PutAbort` from any step before the rename |
| `HandleDelete` | `DeleteLock`, `DeleteRemove`, `DeleteCommit` |
| `HandleManifest` | `ReconcileScan`, `ReconcileCommit` per path, `ReconcileDone`, `ManifestReply` |
| `HandleGet` | `GetCurrent`, `GetOpen`, without the lock |
| Claude, restart of worker-agent | `CloudEdit`, `Crash` |

`history` is a ghost: every row ever committed and by whom. Failing calls (`Faulty`) may have
taken effect or not, a failed commit included. A file's bytes, digest and size are one value;
the digest a client declares is a separate one, so a mismatch can be seen. Left out: path
checks (no state), the list of the manifest's rows (the client's model has it), half-written
contents (design-deviations.md, D3), symbolic links. In production `modeFor` answers "rw" for
everyone (worker-agent main.go:119); `Mode` is a parameter so that the cleanup rule of
`HandlePut` is checked all the same.

### SyncSessions

`sessionFactory` (worker-agent main.go:48) takes the project's id for its directory when the
query for the slug fails. The module runs SyncServer's sessions in one of two directories, by
`OnStray == INSTANCE SyncServer WITH disk <- stray`: same index, same lock, other files.

| code | actions |
|---|---|
| a connection, the lookup answered or failed | `Open`, `OpenStray` |
| the operations of a session, in the directory it was given | `SManifest`, `SReceive`, `SEnter`, `SWork` (`Routed`) |
| Claude, who knows the project's directory only; restart | `CloudEdit`, `Restart` |

A connection begins with the one manifest of its round, as SyncOnce does. Left out: the
fallback of the limit to 1 TiB (main.go:105), a matter of numbers `server_quota` varies.

### ThreeWay, SyncClient

`ThreeWay` is the decision for one path: `LocalState` (BuildLocal), `ServerAdvanced`, `Decide`
(Diff), `KeptBaseline` (how execute starts the next baseline). `SyncClient` runs it on every
device, against the part of the worker that a client can tell from outside.

| code | actions |
|---|---|
| dial, `HandleManifest` with `reconcileCloud` | `Begin`: what differs from its row becomes a version, but for the paths whose commit fails |
| `wsTransport.Manifest` | `List`, also of a refusal taken for an empty manifest |
| `SyncOnce` up to `Diff` | `ScanAndDiff` |
| `execute`, in the order of the code (`Order`) | `Upload`, `Download`, `DeleteRemote`, `DeleteLocal`, `Conflict`; `NoConnection` when the connection is gone |
| `HandlePut` and `HandleDelete` from the base check to the rename or unlink | the part of `Upload` and `DeleteRemote` that is a `Change`; the lock is then held (`putting`) |
| their commit, answer and unlock | `Commit`, whose failure may have taken effect or not |
| `HandleGet` | `Get` (the row), then `Fetch` (the file, whatever it holds by then) |
| `LocalIndex.Save` | `Truncate`, `Save` |
| the user, Claude, the network, restarts | `UserEdit`, `CloudEdit`, `Disconnect`, `Kill`, `Restart` |

Claude's edits change the workspace (`work`) only; the row follows when some round reconciles,
and until then a get hands the edit out under the old row, a tombstone's too. So does it with
an upload between rename and commit. `stood` is a ghost: what stood in the workspace without
being a version, with the row it stood under. `seen` is another: what each user was given,
under which number, and how.

Answers carry no request. When the local file cannot be read to its end, `wsTransport.Put`
returns before it reads the answer (syncclient_ws.go:67-70), and `execute` goes on: `wire` holds
what is unread, every later request of the round takes its answer from the front (`Queue`,
`Takes`), and a device this has happened to is in the ghost `misled`. `link`, `wire`, `plan`,
`next`, `got` are locals of the round. A downloaded entry has no digest (`NoSha`), since
`HandleGet` sends none. Conflict copies and temporary files are files at other paths and left
out; the scan reads all paths in one step, and so does a reconciliation, under the lock. Left
out on the server's side is what `SyncServer` is about: who waits for the lock, quotas, the
steps of a reconciliation, temporary files.

### UsageCollector

The log is a sequence of half lines. `Open`, `ReadLine`, `ReadEnd`, `SaveCursor` are the body
of Scan; `Write` and `Rotate` are Claude's; `Crash` is a restart. What halves of two different
lines parse as when they are glued together is a parameter, `Parse`: mostly no JSON, but two
similar lines cut at the same byte may make a third one, with the id of the first and the
counters of the second. The sink keeps the greatest
value per request, as its interface asks. The repository calls Scan nowhere yet (STATUS.md), so
the module assumes no fairness and states only what a scan does when it runs.

### TerminalAccess

| code | actions |
|---|---|
| loop of cclaude's `main`, `runTerminal` | `Start`, `DialFails`, `HandshakeFails`, `TerminalReturns`, `Quit` |
| `GET /v1/connection` | `Connection` |
| the handler in worker-agent, `Serve`, `startPTY` | `Accept` (verify, register), `Upgrade`, `HasSession`, `NewSession`, `Attach`, `ReadFails`, `Finish` (the deferred calls) |
| the other goroutines of `Serve` | `ContextDone`, `PtyEnds`; the heartbeat is in `PeerGone` |
| the 30-second loop, `CloseProject` | `Tick`, `CheckQuota` per project, `CloseProject` (the copy), `Cancel` per connection |
| usage, tmux, the machine | `QuotaChanges`, `SessionEnds`, `Restart` |

`quota[p]` is what the sums of `Service.Check` come to: "over" the project's own limits, or
"full", which only the control API looks at (disk and account pool; the loop passes infinite
pool limits). The context is not looked at between registration and the end of `startPTY`: a
cancelled handler still attaches and is ended by the closed websocket. `waiting` is the wait
for `runSync` in main.go:77, `cleanup` the call in main.go:66; only `Quit` leaves them, since
`runSync` returns only when the program is interrupted. `everOver` is a ghost. Left out: the
bytes, resizing, audience and signature of tokens, time (a token not used may expire, a tick
may come at any moment).

### Bootstrap

Any number of runs of `init-project` and one control-api on an empty database, one action per
call.

| code | actions |
|---|---|
| `store.New`, `Migrate`, of both programs | `Start`, `Connect`, `Check`, `Execute`, `Record`, `Commit` |
| `EnsureAccount` | `FindAccount`, `InsertAccount` |
| the rest of `init-project` | `CreateProject`, `CreateCDK`, `PrintCDK` |
| a failing call, a kill | `Fail` |

`applied` counts what `recorded` (the rows of `schema_migrations`) only says happened. `Execute`
waits for another transaction in the same file (`Blocked`), as CREATE TABLE does in PostgreSQL,
and then fails, as the tables exist. Failing calls whose effect stays are a step followed by
`Fail`. Runs that overlap in EnsureAccount, or one whose SELECT fails, make several accounts, as
the code does: no property says otherwise, since nothing in the repository prevents it. Left
out: limits, names and the CDK's format.

### Admission

Extends Bootstrap with clients, tokens and time.

| code | actions |
|---|---|
| `POST /v1/auth/exchange`, `allowAuth`, `ResolveCDK` | `ExchangeServed`, `ExchangeLimited`; `ExchangeFails` (lost, or the database fails) |
| `doJSON` and its retries | `ExchangeUnreachable`, `NoAnswer` |
| `GET /v1/connection` and its caller | `ConnectionServed`, `ConnectionFails` |
| `runSync`: dial, round, ticker, refresh | `Dial`, `EndRound`, `Wake`; the places are the values of `cli` |
| user, administrator, time | `Launch`, `Quit`, `Disable`, `Tick` |
| a restart of control-api | `Installation`: a step of Bootstrap, which empties the limiter when control-api stops |

`Exchange` is called in three places: at the start ("login"), by `main` after a failed
Connection ("renew"), by `runSync` after a failed refresh ("reexchange"); `Denied` and `Granted`
say what each makes of the answer. A session token is checked by its signature and lifetime
alone (`Authed`), a sync token at the dial (`Dial`): an open session goes on, for any number of
ticks, until its SyncOnce returns (`EndRound`), whatever has expired meanwhile (sync/ws.go:51,
63). `granted` is a ghost, the exchanges admitted within the last window, however
the limiter counts them. Left out: signature and audience, the cached CDK file and its deletion
(main.go:44), the usage page, HTTP timeouts (a request that times out fails).

## The runs

| run | bounds | shows |
|---|---|---|
| `server_races` | 2 sessions, 1 path, failing calls, 1 crash, Claude | types; the lock discipline; one winner; index newest; acknowledgements durable; temporary files bounded; refinement of RevisionStore |
| `server_quota` | 2 paths, 2 sizes, one session in cleanup mode, no Claude | quota and cleanup rule at the commit; no invented cloud version; downloads never older than their revision |
| `server_live` | 2 sessions, fairness; 1 crash, or 1 session sent to the wrong directory | every request ends; a reconciliation records what it scanned; the index converges to the project's directory |
| `server_overwrite` (violation) | 1 path | an upload replaces Claude's unreconciled bytes: README.md:23 |
| `client_safety` | 2 devices with 1 path and 2 edits, or 1 device with 3 paths and 3 edits (`Small`); 2 contents, 1 fault (kill, restart, failed call or read, broken connection), revisions to 3, symmetry in devices, paths and contents | nothing overwritten unseen; scanned edits safe; no rollback; the baseline tells the truth |
| `client_live` | 1 device, 1 path, 3 edits, 2 faults, fairness | convergence of directory and workspace |
| `client_deleted` (violation) | 1 device, 3 edits | a version kept in a conflict is deleted one round later: manifest.go:51 |
| `client_recreated` (violation) | 1 device, 3 edits, fairness | a new file at a deleted path is never uploaded: manifest.go:116 |
| `usage` | 1 file of at most 2 lines, 4 kinds of line, alike ones of which parse when glued, 1 truncation, 1 fault | a count is what a written line says; nothing skipped; a scan catches up |
| `terminal` | 2 projects with a client each, 2 starts, 2 connections, 1 change of quota, 1 fault, fairness | every attached terminal is registered; only projects over quota lose terminals, and they lose all; no handler outlives its client |
| `admission` | 2 runs of `init-project`, 2 migrations, 2 faults; or 2 clients behind one address, limit 1, 2 starts, 1 fault; fairness | each migration once, complete before anything runs on it; a CDK opens the project of its run; the limiter admits no more than its limit and turns away only when that is used up; a revoked CDK dials no more when its tokens have run out; control-api and synchronisation come back |
| `cli_return` (violation) | 1 client, 2 changes of quota, fairness | cleanup mode is never left: README.md:50 |

Why the bounds suffice. Paths meet only in the quota and in one reconciliation, hence two paths
in `server_quota` and one elsewhere. A race needs two writers, and Claude is a third. A
revision bound of 2 lets a version be created, replaced and deleted, and one crash can fall
at every step. For the client, two edits give every combination of local and remote change
of one path, one device each. To file the answer to one request under another path takes three
requests of one round: one whose answer is left unread, one that takes it, and one that takes
the second one's; hence three paths for one device, and an edit for each. `Small` keeps the two
apart: a second device on three paths multiplies the states and adds no case, as devices meet at
a path. It and the symmetry touch no liveness property, as `client_live` has neither. Two lines suffice for a cursor that has a complete line behind it
and half a line in hand, and for a glued one. `CHECK_DEADLOCK FALSE` in the client's
configurations: no round starts beyond `MaxRev`. In `client_live` that bound is out of reach of
three edits, so no behaviour is cut short by it. In `terminal`, two starts give either two
terminals of two projects or an old and a new one of the same, and one change of quota can
fall at any point of both.

`server_live` lets only one of its two sessions stray: the sessions are alike, and the other is
then the one that repairs. A crash and a stray session exclude each other, to keep the run
small. `admission` starts either on an empty database, without clients (`Fresh`), or on one
whose projects exist, with one fault left (`Provisioned`): what is being set up and what is in
use meet in the restart of control-api only, which the second includes. The repository has one
migration so far; `Files = 2` shows what happens between two. Both clients have one limiter
key, as clients behind Caddy do, and one attempt per window makes every exchange of one an
obstacle for the other. A tick is the pause between two rounds; a window of 2, a session token
of 3 and a sync token of 2 ticks let each of them expire before and after each other one.

Fairness. `SyncServer`: a session's steps are weakly fair (websocket writes have deadlines, a
read ends by data, by an error or by the 60-second deadline); taking the lock is strongly fair,
since Go's mutex goes to a waiter that has been passed over for a millisecond; a session's
manifest request is strongly fair because every round of a client starts with one. Nothing is
assumed about puts, deletes, Claude or crashes. `SyncSessions`: the same, and opening a
connection shares the strong fairness of the manifest, being how a round begins. `SyncClient`: `Step(d)` is weakly fair, from the
ticker of runSync; edits, faults and kills are not. `TerminalAccess`: handlers and their
goroutines are weakly fair (PTY reads end with the session, websocket reads with the 60-second
pong deadline, docker calls return), and so is the ticking loop; nothing is assumed of clients. `Bootstrap`: control-api is started again whenever it ends (compose,
`restart: unless-stopped`), and a process that runs makes its calls; nobody need run ccwadmin.
`Admission`: a client that runs makes its requests, its SyncOnce returns and its tickers fire, and
time passes; `Tick` waits for the requests of the tick before, which take less than the pause
between two rounds, and not for sync sessions. `client_live` stands for a client that is
started again after it was killed, and its `Commit` is fair as well: the call to the database
returns.

Exceptions stated inside properties, each a hazard of its own. `LocalEditsSurvive` does not cover
an edit made after the scan of the running round: the code does not look again. It,
`NoBlindOverwrite`, `NoRollback` and `BaselineMatchesVersion` except a device that took the answer
to another request (`misled`): it may file a revision or bytes of one path under another. Without
the exception TLC finds `NoRollback` and `BaselineMatchesVersion` violated within the bounds of
`client_safety`; the other two then need a misfiled revision that becomes the path's own later,
which takes more edits. `NoBlindOverwrite` and `NoRollback`
count what stood in the workspace under a row (`stood`) as given under its number, since the
unlocked get may hand it out: what a round writes need not be a version, and if Claude takes the
edit back before anyone reconciles, the version of that number is replaced though nobody was
given it. `EventuallyConverged` excepts a torn `index.json`, a misled device and a stranded path.
Stranded is a file whose row is a tombstone and which is not known to be unchanged: one created
or edited there, and also one that was downloaded, for want of a digest, until its next upload.
`ScanCatchesUp` excepts a file that was truncated and grew past the cursor unnoticed (`Regrown`),
`CountedIsWritten` only the lines read from such a file while a half line of the old content is
kept: one of them is counted if it parses. `RevocationHolds` is about dials; an open session is
never verified again.
`LimiterBound` is about one run of control-api, as the limiter lives in its memory.
`SyncRecovers` excepts a disabled CDK among the clients of one address: its client asks for
ever and may use up every window. A downloaded file has no digest in the baseline
(syncclient.go:132) and is uploaded again, so that two devices keep each other busy with equal
contents; convergence is therefore checked with one.

Each module holds, next to the definitions, mistakes the code could have made (names ending in
`Bug`). No action uses them; put in place of the definition they are mistakes of, TLC finds the
property violated that is paired with them in `PROJECT.json`.

## The proofs

Each module of proofs is about one module of the model, for every value of its constants: any
sets of sessions, devices, paths, contents, files or clients, any bounds, with and without
faults. The assumptions on constants are the named `ASSUME`s of the model; two of them matter
to a reader. `FinitePaths` says that a project has finitely many paths (their length is limited
by PATH_MAX), without which the quota's sum means nothing; `FilesAssumption` says that the
collector has a file to read.

An invariant is an inductive conjunction (`IInv` and the like) of which the property is a part
or a consequence. Its proof has one step per action, and a case for each way the action ends.

### SyncServerProofs

| theorem | shows |
|---|---|
| `TypeCorrect` | `[]TypeOK` |
| `Serialised` | `[]CriticalSection` |
| `OneWinner` | `[]CasWinner` |
| `NewestIndexed` | `[]IndexIsNewest` |
| `AckDurable` | `[]AckIsVersion` |
| `TempsAreDiscarded` | `[]TempsBounded` |
| `Implements` | `Refinement` |
| `ManifestIsComplete` | `[]ReconcileRecorded`, if no call fails |
| `NothingInvented` | `[]NoFalseCloudVersion`, if `Quiet` |
| `GetsAreFresh` | `[]GetNotStale`, if `Quiet` |

None of the properties is inductive alone: that a commit creates a new revision needs the row
read under the lock to be current (`ReadsAreCurrent`), which needs nobody else to be in a
critical section (`LockInv`), and the uniqueness of revisions needs the index to bound them
(`IndexIsNewest`). The inductive invariant is

    TypeOK /\ TempsOK /\ TempsBounded /\ CriticalSection /\ IndexIsNewest /\ CasWinner
           /\ KnownRevisions /\ AckIsVersion

where `KnownRevisions` (no request names a revision the index does not have) is what makes a
deletion of a path without a row acknowledge revision 0, and `TempsOK` (an upload before its
rename has a temporary file) is what keeps the counter a natural number. `TempsBounded` needs
the lock: of two uploads at a time only one would be allowed for. Refinement: a step maps to
Publish when it commits and to a stutter otherwise; `CasWinner` and `IndexIsNewest` say that the
head is the row.

The last three theorems have hypotheses, which are the constants of the runs that check the
same properties, and which the code needs. A reconciliation skips a path whose commit fails
(syncserver.go:178 and 183), so `ManifestIsComplete` is about calls that do not fail: while a session
reconciles, each path it scanned is recorded or still to do (`Recording`). `Quiet` (no failing
calls, no edits by Claude, no crash) is when the directory can be told from the index at all:
each of the three can leave a file that no row describes. Under it the directory agrees with
the index except at a path that is about to be committed (`Agrees`), what is about to be
committed is what was written (`Written`), and no scan finds anything to do. A download reads
the row before the file; `Opening` and `Sent` say that the row it read stays at most as new as
the index, and what it sent is no older than its revision, while others commit.

### SyncQuotaProofs

| theorem | shows |
|---|---|
| `QuotaRespected` | `PutRespectsQuota` |
| `CleanupShrinks` | `CleanupOnlyShrinks` |

The quota is checked in one step and the row written two steps later. `Admitted` says that in
between the check would still succeed: only the holder of the lock changes the table, so the
sum cannot have moved (`AdmittedStep`). What a commit makes of the sum is arithmetic about it,
and the sum is a fold of the community modules: `SumsExist` shows that the recursive function
behind the fold exists for a finite set, `OneWeight` that changing one weight changes the sum by
as much, `TotalSizeChange` that replacing one row does. These are inductions over cardinalities,
done by a smallest counterexample (`Smallest`, from the well-foundedness of the numbers in the
library), as the induction theorems themselves cannot be used.

### SyncSessionsProofs

| theorem | shows, of the sessions of `SyncSessions` |
|---|---|
| `SerialisedAstray` | `[]CriticalSection` |
| `OneWinnerAstray` | `[]CasWinner` |
| `AckDurableAstray` | `[]AckIsVersion` |
| `ImplementsAstray` | `Refinement` |
| `ManifestIsCompleteAstray` | `[]ReconcileRecorded`, if no call fails |

However many lookups fail and whatever the two directories hold, the revisions are as good as
without. The lemmas of `SyncServerProofs` hold of any directory, so the module takes them a
second time, with the other directory in place of the project's (`Astray`). Every step of
`SyncSessions` is a step of `SyncServer` on one of the two that leaves the other alone
(`Directed`), and the invariant asks nothing of a directory but its type (`SameInvariant`).

### SyncClientProofs

| theorem | shows |
|---|---|
| `TypeCorrect` | `[]TypeOK` |
| `BaselineIsVersion` | `[]BaselineMatchesVersion` |
| `NoBlindOverwriteHolds` | `NoBlindOverwrite` |
| `LocalEditsSurviveHolds` | `LocalEditsSurvive` |
| `NoRollbackHolds` | `NoRollback` |

The invariant has five parts. `StoreOK`: the head is the newest version, no revision has two,
and what the workspace holds is on record (`Served`) under its row. `SeenOK`: so is what a user
was given under the number the row has now. `EntryOK`, of the saved baseline and of the one being
built: an entry stands for something the user was given under its number, and its digest, if it
has one, is that of the version. `RoundOK`: the manifest of the round is not older than the
baseline, what the round is going to write is newer than it, and a file is replaced only if the
scan found it as the baseline says. `PutOK`: the change whose row is still to come replaces what
its user was given. The last four say nothing of a misled device, and `misled` only grows, so that
a device is of no more concern once it is in there.

The entry is built from the revision of one answer and the bytes of the next, which the server
read at different times: an entry from a download therefore has no digest, and this is what the
proof uses there. A stale manifest does no harm because a put and a deletion name the revision of
the baseline, and a download takes the revision of its own answer. That the base revision is
still the row's when the row is committed is the lock's doing (`putting`).

### UsageCollectorProofs

| theorem | shows |
|---|---|
| `TypeCorrect` | `[]TypeOK` |
| `CountedLinesExist` | `CountedIsWritten` |
| `NothingIsSkipped` | `[]NothingSkipped` |
| `ScanCatchesUpHolds` | `ScanCatchesUp` |

`LogOK` says what a log is: lines of two units, of which the last may be half written.
`CursorOK` says that a cursor measured in the file as it is now splits it into lines that are
counted, the half line it keeps, and the unread rest; of a cursor from before a truncation it
says only that it keeps no newline. That is enough for `CountedIsWritten`, whatever glued halves
parse as (`Parse` is any function that takes the halves of one line for the line): what is handed
to the sink is a line of the log if no half line was kept or the one kept is the log's own, and
otherwise the file grew back over it.

### TerminalAccessProofs

| theorem | shows |
|---|---|
| `TypeCorrect` | `[]TypeOK` |
| `NoHiddenTerminal` | `[]TerminalsRegistered` |
| `OnlyOverQuota` | `OthersUnharmed` |

The invariant is `TypeOK /\ Owned /\ HandlersRegistered /\ PtysServed /\ Blamed`. A PTY
is attached only while the handler serves or ends (`PtysServed`), and a handler is registered
until its deferred calls (`HandlersRegistered`): together they are `TerminalsRegistered`, which
alone says nothing of a handler about to attach. `Blamed` follows the reason of a cancellation
from the quota over the project in hand to the copied cancel functions; it is preserved because
these belong to connections accepted earlier (`Owned`), whose project never changes.

### BootstrapProofs, AdmissionProofs

| theorem | shows |
|---|---|
| `BootTypeCorrect`, `TypeCorrect` | `[]BootTypeOK`; `[]TypeOK` of Admission |
| `OnceEach`, `MigratedUnderLoad` | `[]MigratedOnce`, of Bootstrap and of Admission |
| `SchemaFirst`, `SchemaUnderLoad` | `[]RunsOnSchema`, of Bootstrap and of Admission |
| `OwnProject`, `OwnProjectUnderLoad` | `[]CdkOpensProject`, of Bootstrap and of Admission |
| `Revoked` | `RevocationHolds` |
| `LimiterHolds` | `[]LimiterBound` |
| `OnlyLimitedForCause` | `LimitedForCause` |

The invariant of Bootstrap is `BootTypeOK /\ MigratedOnce /\ InOrder /\ Exclusive /\
RunsOnSchema /\ Owned`. A commit records a migration for the first time because a
transaction in progress has one that is neither recorded nor another transaction's
(`Exclusive`); it leaves no gap because a process comes to a migration past recorded ones only
(`InOrder`), which also makes the schema complete at the end of Migrate. `Owned` says that a run
past CreateProject has the project of its slug, that it has it only then, and that the account it
found or made is there: UNIQUE makes the second run with a slug end before it has a CDK. In Admission
a client's step takes nothing of this but a fault, so the invariant carries over.

`Revoked` needs to bound what the tokens of a revoked CDK have left (`Lifetimes`): a session
token was minted before the revocation, so that the time since and the time it has left make at
most `SessionTTL + 1`; a sync token is minted while the session token is valid, which bounds the
sum by `SessionTTL + ConnTTL`; both survive a tick because one of the summands grows and the
other shrinks. A dial succeeds only while the sync token has something left.

The limiter's theorems rest on one fact (`Limiter`): what it keeps is, attempt by attempt, what
was admitted in the last window. `allowAuth` computes it by a loop over the attempts, `Recent`;
of this the proof needs only what it makes of no attempt and of one more (`RecentOfNone`,
`RecentAndOne`), from which follow, by induction over the sequence (`OneByOne`), that looking
twice changes nothing (`RecentIs`: a rejected attempt drops what is old and counts for nothing)
and that what is out of the window does not come back as time passes (`RecentOfOlder`).

### Only model-checked

`EventuallyReconciled`, `EveryRequestEnds`, `EventuallyConverged`, `OverQuotaClosed`,
`HandlersEnd`, `ApiServes` and `SyncRecovers`: liveness under fairness, and ENABLED, are out of
the prover's reach. The quota under failing lookups is not stated: the fallback of the limit is
not in the model. The violations are shown by TLC's behaviours.

## Not modelled

Path rules, CDK hashing, Docker arguments, configuration and pages have no state and are unit
tested. Deployment is files and scripts. The data race between the heartbeat and the copy of the
PTY (terminal/ws.go:95) is inside the websocket library. What each module leaves out is said
with it.

## Plan

Done: all modules of the inventory, and a proof of every safety property the runs check. Open,
in this order:

1. Proofs: which part of the safety under liveness can be stated and proved, first of all for
   `EventuallyConverged`: that a round which neither fails nor meets an edit leaves file,
   baseline and head of its paths in agreement.
2. `SyncClient` as a part of a composition with `SyncServer`: its server is `SyncServer` with the
   critical section of an upload cut to three steps, which is argued above and not checked.
3. Documented statements worth a run of their own: syncserver.go:62 (a put whose commit fails
   has already replaced the file), syncserver.go:154 (a tombstone is for a file that
   vanished; a session on the wrong directory writes one for every file), ws.go:37 (the caller of `Serve` has just checked the quota; worker-agent
   does not), http.go:52 (the limit is per client; behind Caddy it is per proxy), design.md:173
   (a downloaded file is uploaded again).
