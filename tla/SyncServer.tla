----------------------------- MODULE SyncServer -----------------------------
(***************************************************************************)
(* The worker's side of workspace synchronisation: the sync sessions of    *)
(* one project (internal/sync/syncserver.go), the file_index table they    *)
(* share (internal/store/sync.go), the workspace directory they write      *)
(* (internal/sync/server.go) and Claude, which edits the same directory    *)
(* from inside its container without taking the project lock.              *)
(*                                                                         *)
(* A step of a session is what it does between two points where another    *)
(* session, Claude, an error or a crash of the worker can come in: a       *)
(* database call, a rename, an unlink, the end of an upload.  A file's     *)
(* bytes, its SHA-256 and its size are one value of Contents.              *)
(***************************************************************************)
EXTENDS FiniteSetsExt

CONSTANTS
    Sessions,    \* the sync connections of the project
    NoSession,   \* nobody: a free lock, and the "cloud" device
    Paths,
    Contents,    \* what a file can hold
    Gone,        \* no such file; in the index, a tombstone (or no row)
    Size,        \* the size of each content
    Mode,        \* session -> "rw" or "cleanup", fixed when it connects
    MaxBytes,    \* upload limit of one file
    Limit,       \* disk quota of the project
    CloudEdits,  \* what Claude may leave at a path; {} when it is not running
    Faulty,      \* may database and file system calls fail?
    MaxRev,      \* bound: no client request or cloud edit at this revision
    MaxCrash     \* bound on the crashes of the worker

Values == Contents \cup {Gone}

ASSUME NoSessionAssumption == NoSession \notin Sessions
ASSUME GoneAssumption == Gone \notin Contents
ASSUME PathsAssumption == Paths # {}
ASSUME FinitePaths == IsFiniteSet(Paths)  \* PATH_MAX; TotalSize is a sum over them
ASSUME ConfigAssumption ==
    /\ Size \in [Contents -> Nat]
    /\ Mode \in [Sessions -> {"rw", "cleanup"}]
    /\ MaxBytes \in Nat /\ Limit \in Nat
    /\ CloudEdits \subseteq Values
    /\ Faulty \in BOOLEAN
    /\ MaxRev \in Nat /\ MaxCrash \in Nat

VARIABLES
    index,    \* file_index: the revision and content last committed per path
    disk,     \* the workspace directory
    temps,    \* number of .cclaude.tmp.* files in the workspace
    crashes,
    history,  \* every row ever committed, and by whom (never read by the code)
    lock,     \* the project lock: its holder, or NoSession
    pc,       \* where each session is
    req,      \* the request each session is serving
    row,      \* the index row a session read with Current
    scan,     \* the versions reconcileCloud would commit of what it scanned
    todo,     \* the paths it has still to commit
    reply     \* the last answer of each session

store == <<index, disk, temps, crashes, history>>
local == <<req, row, scan, todo>>
vars == <<store, lock, pc, local, reply>>

-----------------------------------------------------------------------------
Row(n, v) == [rev |-> n, val |-> v]
NoRow == Row(0, Gone)
NoScan == [p \in Paths |-> NoRow]
Version(p, n, v, s) == [path |-> p, rev |-> n, val |-> v, by |-> s]

Request(op, p, n, v, sha) ==
    [op |-> op, path |-> p, base |-> n, val |-> v, sha |-> sha]
NoRequest == Request("none", CHOOSE p \in Paths : TRUE, 0, Gone, Gone)

Reply(kind, p, n, v) == [kind |-> kind, path |-> p, rev |-> n, val |-> v]
NoReply == Reply("none", NoRequest.path, 0, Gone)

SizeOf(v) == IF v = Gone THEN 0 ELSE Size[v]

(* Store.TotalSize: the sum over the rows that are not tombstones. *)
TotalSize(ix) == MapThenSumSet(LAMBDA p : SizeOf(ix[p].val), Paths)

AllowBug(used, old, new) == new <= old \/ new <= Limit
(* Gate.Allow: shrinking is always allowed, growing only within the limit. *)
Allow(used, old, new) == new <= old \/ (used - old) + new <= Limit

ModeAllowsBug(s, old, new) == Mode[s] = "cleanup" => new <= old
(* A session in cleanup mode may only shrink a file. *)
ModeAllows(s, old, new) == Mode[s] = "cleanup" => new < old

NoCloudDeletionBug(p) == disk[p] # Gone /\ disk[p] # index[p].val
NoShaComparisonBug(p) == disk[p] # Gone \/ index[p].val # Gone
(* What reconcileCloud has to record: changed, new and vanished files. *)
Differs(p) == disk[p] # index[p].val

Init ==
    /\ index = [p \in Paths |-> NoRow]
    /\ disk = [p \in Paths |-> Gone]
    /\ temps = 0
    /\ crashes = 0
    /\ history = {Version(p, 0, Gone, NoSession) : p \in Paths}
    /\ lock = NoSession
    /\ pc = [s \in Sessions |-> "idle"]
    /\ req = [s \in Sessions |-> NoRequest]
    /\ row = [s \in Sessions |-> NoRow]
    /\ scan = [s \in Sessions |-> NoScan]
    /\ todo = [s \in Sessions |-> {}]
    /\ reply = [s \in Sessions |-> NoReply]

-----------------------------------------------------------------------------
(* Pieces of the steps.  A definition whose name ends in Bug is a mistake   *)
(* the code could have made: no action uses it, and with it in place of    *)
(* the definition below it TLC finds a property violated.                  *)

Goto(s, label) == pc' = [pc EXCEPT ![s] = label]

(* Continue the call at label: nothing is answered yet. *)
Continue(s, label) == Goto(s, label) /\ UNCHANGED reply

(* Answer the request; the call's local state ends with it. *)
Answer(s, r) ==
    /\ Goto(s, "idle")
    /\ reply' = [reply EXCEPT ![s] = r]
    /\ req' = [req EXCEPT ![s] = NoRequest]
    /\ row' = [row EXCEPT ![s] = NoRow]
    /\ scan' = [scan EXCEPT ![s] = NoScan]
    /\ todo' = [todo EXCEPT ![s] = {}]

Ack(s, n) == Answer(s, Reply("ack", req[s].path, n, req[s].val))
Reject(s) == Answer(s, Reply("reject", req[s].path, 0, Gone))

(* Every session of a project is given the same mutex. *)
MutexPerSessionBug == TRUE
Free == lock = NoSession

Acquire(s) == lock' = s
Release == lock' = NoSession

InsertOnlyBug(p, n, v, s) ==
    /\ index' = IF index[p].rev = 0 THEN [index EXCEPT ![p] = Row(n, v)] ELSE index
    /\ history' = history \cup {Version(p, n, v, s)}
(* Store.Commit is an unconditional upsert of the row. *)
Commit(p, n, v, s) ==
    /\ index' = [index EXCEPT ![p] = Row(n, v)]
    /\ history' = history \cup {Version(p, n, v, s)}

(* A call to Commit that returns an error: the row may have been written   *)
(* all the same.                                                           *)
CommitFails(p, n, v, s) ==
    /\ Faulty
    /\ Commit(p, n, v, s) \/ UNCHANGED <<index, history>>

-----------------------------------------------------------------------------
(* A request arrives.  A client knows only revisions it has been given.    *)

Accept(s, r) ==
    /\ pc[s] = "idle"
    /\ Goto(s, "wait")
    /\ req' = [req EXCEPT ![s] = r]
    /\ reply' = [reply EXCEPT ![s] = NoReply]
    /\ UNCHANGED <<store, lock, row, scan, todo>>

(* The bytes of the upload need not be those the client hashed earlier. *)
ReceivePut(s) ==
    \E p \in Paths, v, sha \in Contents : \E n \in 0..index[p].rev :
        n < MaxRev /\ Accept(s, Request("put", p, n, v, sha))

ReceiveDelete(s) ==
    \E p \in Paths : \E n \in 0..index[p].rev :
        n < MaxRev /\ Accept(s, Request("delete", p, n, Gone, Gone))

ReceiveGet(s) == \E p \in Paths : Accept(s, Request("get", p, 0, Gone, Gone))

ReceiveManifest(s) == Accept(s, [NoRequest EXCEPT !.op = "manifest"])

Waiting(s, op) == pc[s] = "wait" /\ req[s].op = op

-----------------------------------------------------------------------------
(* HandlePut. *)

NoCasBug(s) ==
    /\ Waiting(s, "put") /\ Free
    /\ Acquire(s)
    /\ row' = [row EXCEPT ![s] = Row(req[s].base, index[req[s].path].val)]
    /\ temps' = temps + 1
    /\ Continue(s, "put_receive")
    /\ UNCHANGED <<index, disk, crashes, history, req, scan, todo>>

(* Take the lock, read the row, check the client's base revision against   *)
(* it and open a temporary file.                                           *)
PutLock(s) ==
    LET p == req[s].path
    IN  /\ Waiting(s, "put")
        /\ Free
        /\ UNCHANGED <<index, disk, crashes, history>>
        /\ \/ /\ Faulty \/ index[p].rev # req[s].base
              /\ Reject(s)
              /\ UNCHANGED <<temps, lock>>
           \/ /\ index[p].rev = req[s].base
              /\ Acquire(s)
              /\ row' = [row EXCEPT ![s] = index[p]]
              /\ temps' = temps + 1
              /\ Continue(s, "put_receive")
              /\ UNCHANGED <<req, scan, todo>>

NoUnlockBug(s) == temps' = temps - 1 /\ UNCHANGED lock /\ Reject(s)
NoDiscardBug(s) == UNCHANGED temps /\ Release /\ Reject(s)
(* Give up before the rename: the temporary file is discarded. *)
PutAbort(s) ==
    /\ temps' = temps - 1
    /\ Release
    /\ Reject(s)

(* Stream the upload into the temporary file, then check its digest and    *)
(* the session's mode.  The connection may break at any point.             *)
PutReceive(s) ==
    LET r == req[s]
    IN  /\ pc[s] = "put_receive"
        /\ UNCHANGED <<index, disk, crashes, history>>
        /\ \/ PutAbort(s)
           \/ /\ Size[r.val] <= MaxBytes
              /\ r.val = r.sha
              /\ ModeAllows(s, SizeOf(row[s].val), Size[r.val])
              /\ Continue(s, "put_admit")
              /\ UNCHANGED <<temps, lock, local>>

CommitBeforePromoteBug(s) ==
    /\ pc[s] = "put_admit"
    /\ Commit(req[s].path, row[s].rev + 1, req[s].val, s)
    /\ Continue(s, "put_promote")
    /\ UNCHANGED <<disk, temps, crashes, lock, local>>

GoesOnAfterDiscardBug(s) ==
    /\ pc[s] = "put_admit"
    /\ \/ (Faulty \/ ~ Allow(TotalSize(index), SizeOf(row[s].val), Size[req[s].val]))
          /\ temps' = temps - 1
       \/ UNCHANGED temps
    /\ Continue(s, "put_promote")
    /\ UNCHANGED <<index, disk, crashes, history, lock, local>>
(* Check the quota against the sizes in the index. *)
PutAdmit(s) ==
    LET ok == Allow(TotalSize(index), SizeOf(row[s].val), Size[req[s].val])
    IN  /\ pc[s] = "put_admit"
        /\ UNCHANGED <<index, disk, crashes, history>>
        /\ \/ (Faulty \/ ~ok) /\ PutAbort(s)
           \/ ok /\ Continue(s, "put_promote") /\ UNCHANGED <<temps, lock, local>>

(* Rename the temporary file over the workspace file. *)
PutPromote(s) ==
    /\ pc[s] = "put_promote"
    /\ UNCHANGED <<index, crashes, history>>
    /\ \/ Faulty /\ PutAbort(s) /\ UNCHANGED disk
       \/ /\ disk' = [disk EXCEPT ![req[s].path] = req[s].val]
          /\ temps' = temps - 1
          /\ Continue(s, "put_commit")
          /\ UNCHANGED <<lock, local>>

AckBeforeCommitBug(s) ==
    /\ pc[s] = "put_commit"
    /\ Release /\ Ack(s, row[s].rev + 1)
    /\ UNCHANGED <<disk, temps, crashes>>
    /\ \/ Commit(req[s].path, row[s].rev + 1, req[s].val, s)
       \/ CommitFails(req[s].path, row[s].rev + 1, req[s].val, s)

(* Commit the row, release the lock and answer. *)
PutCommit(s) ==
    LET p == req[s].path
        n == row[s].rev + 1
    IN  /\ pc[s] = "put_commit"
        /\ Release
        /\ UNCHANGED <<disk, temps, crashes>>
        /\ \/ Commit(p, n, req[s].val, s) /\ Ack(s, n)
           \/ CommitFails(p, n, req[s].val, s) /\ Reject(s)

-----------------------------------------------------------------------------
(* HandleDelete.  A path that has no row is answered as deleted. *)

DeleteLock(s) ==
    LET p == req[s].path
    IN  /\ Waiting(s, "delete")
        /\ Free
        /\ UNCHANGED store
        /\ \/ /\ Faulty \/ index[p].rev \notin {0, req[s].base}
              /\ Reject(s)
              /\ UNCHANGED lock
           \/ /\ index[p].rev = 0
              /\ Ack(s, req[s].base)
              /\ UNCHANGED lock
           \/ /\ index[p].rev = req[s].base /\ index[p].rev # 0
              /\ Acquire(s)
              /\ row' = [row EXCEPT ![s] = index[p]]
              /\ Continue(s, "delete_remove")
              /\ UNCHANGED <<req, scan, todo>>

DeleteRemove(s) ==
    /\ pc[s] = "delete_remove"
    /\ UNCHANGED <<index, temps, crashes, history>>
    /\ \/ Faulty /\ Release /\ Reject(s) /\ UNCHANGED disk
       \/ /\ disk' = [disk EXCEPT ![req[s].path] = Gone]
          /\ Continue(s, "delete_commit")
          /\ UNCHANGED <<lock, local>>

NoTombstoneBug(s) ==
    /\ pc[s] = "delete_commit"
    /\ index' = [index EXCEPT ![req[s].path] = NoRow]
    /\ Release /\ Ack(s, row[s].rev + 1)
    /\ UNCHANGED <<disk, temps, crashes, history>>

(* Commit a tombstone, release the lock and answer. *)
DeleteCommit(s) ==
    LET p == req[s].path
        n == row[s].rev + 1
    IN  /\ pc[s] = "delete_commit"
        /\ Release
        /\ UNCHANGED <<disk, temps, crashes>>
        /\ \/ Commit(p, n, Gone, s) /\ Ack(s, n)
           \/ CommitFails(p, n, Gone, s) /\ Reject(s)

-----------------------------------------------------------------------------
(* HandleManifest: reconcileCloud under the lock, then Store.Manifest      *)
(* without it.                                                             *)

(* Scan the directory and read the index.  If either fails, the manifest   *)
(* is sent without reconciling.                                            *)
ReconcileScan(s) ==
    /\ Waiting(s, "manifest")
    /\ Free
    /\ UNCHANGED <<store, req, row>>
    /\ \/ Faulty /\ Continue(s, "list") /\ UNCHANGED <<lock, scan, todo>>
       \/ /\ Acquire(s)
          /\ scan' = [scan EXCEPT ![s] =
                [p \in Paths |-> Row(index[p].rev + 1, disk[p])]]
          /\ todo' = [todo EXCEPT ![s] = {p \in Paths : Differs(p)}]
          /\ Continue(s, "reconcile")

(* Commit what was scanned as the next revision of one path that differs   *)
(* from the index; a failed commit is skipped.                             *)
ReconcileCommit(s) ==
    \E p \in todo[s] :
        LET new == scan[s][p]
        IN  /\ pc[s] = "reconcile"
            /\ \/ Commit(p, new.rev, new.val, NoSession)
               \/ CommitFails(p, new.rev, new.val, NoSession)
            /\ todo' = [todo EXCEPT ![s] = @ \ {p}]
            /\ UNCHANGED <<disk, temps, crashes, lock, pc, req, row, scan, reply>>

StopEarlyBug(s) ==
    /\ pc[s] = "reconcile"
    /\ Release
    /\ Continue(s, "list")
    /\ UNCHANGED <<store, local>>

ReconcileDone(s) ==
    /\ pc[s] = "reconcile" /\ todo[s] = {}
    /\ Release
    /\ Continue(s, "list")
    /\ UNCHANGED <<store, local>>

(* Only the rows' consistency with the scan is of interest, not the list. *)
ManifestReply(s) ==
    /\ pc[s] = "list"
    /\ \/ Answer(s, [NoReply EXCEPT !.kind = "manifest"])
       \/ Faulty /\ Reject(s)
    /\ UNCHANGED <<store, lock>>

-----------------------------------------------------------------------------
(* HandleGet takes no lock: it reads the row, then opens the file. *)

GetCurrent(s) ==
    LET p == req[s].path
    IN  /\ Waiting(s, "get")
        /\ UNCHANGED <<store, lock>>
        /\ \/ (Faulty \/ index[p].rev = 0) /\ Reject(s)
           \/ /\ index[p].rev # 0
              /\ row' = [row EXCEPT ![s] = index[p]]
              /\ Continue(s, "open")
              /\ UNCHANGED <<req, scan, todo>>

GetOpen(s) ==
    LET p == req[s].path
    IN  /\ pc[s] = "open"
        /\ \/ (Faulty \/ disk[p] = Gone) /\ Reject(s)
           \/ disk[p] # Gone /\ Answer(s, Reply("file", p, row[s].rev, disk[p]))
        /\ UNCHANGED <<store, lock>>

-----------------------------------------------------------------------------
(* The world around the sessions. *)

(* Claude writes or removes a file in the mounted workspace. *)
CloudEdit ==
    \E p \in Paths, v \in CloudEdits :
        /\ index[p].rev < MaxRev
        /\ disk' = [disk EXCEPT ![p] = v]
        /\ UNCHANGED <<index, temps, crashes, history, lock, pc, local, reply>>

(* The worker dies and comes back: connections and the lock are gone, the  *)
(* table, the directory and any temporary file in it are not.              *)
Crash ==
    /\ crashes < MaxCrash
    /\ crashes' = crashes + 1
    /\ lock' = NoSession
    /\ pc' = [s \in Sessions |-> "idle"]
    /\ req' = [s \in Sessions |-> NoRequest]
    /\ row' = [s \in Sessions |-> NoRow]
    /\ scan' = [s \in Sessions |-> NoScan]
    /\ todo' = [s \in Sessions |-> {}]
    /\ reply' = [s \in Sessions |-> NoReply]
    /\ UNCHANGED <<index, disk, temps, history>>

Receive(s) ==
    ReceivePut(s) \/ ReceiveDelete(s) \/ ReceiveGet(s) \/ ReceiveManifest(s)
Enter(s) == PutLock(s) \/ DeleteLock(s) \/ ReconcileScan(s)
Put(s) == PutReceive(s) \/ PutAdmit(s) \/ PutPromote(s) \/ PutCommit(s)
Delete(s) == DeleteRemove(s) \/ DeleteCommit(s)
Manifest(s) == ReconcileCommit(s) \/ ReconcileDone(s) \/ ManifestReply(s)
Get(s) == GetCurrent(s) \/ GetOpen(s)
Work(s) == Put(s) \/ Delete(s) \/ Manifest(s) \/ Get(s)

Next ==
    \/ \E s \in Sessions : Receive(s) \/ Enter(s) \/ Work(s)
    \/ CloudEdit
    \/ Crash

Spec == Init /\ [][Next]_vars

(* A session that has work to do does it: reads and writes on a connection *)
(* carry deadlines.  sync.Mutex hands the lock to a waiter that has been   *)
(* waiting for a millisecond, so a waiter is not passed over for ever.  A  *)
(* client asks for the manifest at the start of every round.               *)
Fairness ==
    \A s \in Sessions : /\ WF_vars(Work(s))
                        /\ SF_vars(Enter(s))
                        /\ SF_vars(ReceiveManifest(s))

FairSpec == Spec /\ Fairness

-----------------------------------------------------------------------------
(* Properties. *)

PutSteps == {"put_receive", "put_admit", "put_promote", "put_commit"}
DeleteSteps == {"delete_remove", "delete_commit"}
Locked == PutSteps \cup DeleteSteps \cup {"reconcile"}
Labels == Locked \cup {"idle", "wait", "list", "open"}

Rows == [rev : Nat, val : Values]
Versions == [path : Paths, rev : Nat, val : Values, by : Sessions \cup {NoSession}]
Requests == [op : {"none", "put", "delete", "get", "manifest"}, path : Paths,
             base : Nat, val : Values, sha : Values]
Replies == [kind : {"none", "ack", "reject", "file", "manifest"}, path : Paths,
            rev : Nat, val : Values]

TypeOK ==
    /\ index \in [Paths -> Rows]
    /\ disk \in [Paths -> Values]
    /\ temps \in Nat
    /\ crashes \in Nat
    /\ history \subseteq Versions
    /\ lock \in Sessions \cup {NoSession}
    /\ pc \in [Sessions -> Labels]
    /\ req \in [Sessions -> Requests]
    /\ row \in [Sessions -> Rows]
    /\ scan \in [Sessions -> [Paths -> Rows]]
    /\ todo \in [Sessions -> SUBSET Paths]
    /\ reply \in [Sessions -> Replies]

(* The project lock is held by exactly the session that is between reading *)
(* a row and committing it ("全程串行，防并发TOCTOU").  Needed for the rest. *)
LockInv == \A s \in Sessions : pc[s] \in Locked <=> lock = s

(* What a session read under the lock is still what the table holds when   *)
(* it comes to commit on top of it, whatever happened in between.          *)
ReadsAreCurrent ==
    \A s \in Sessions :
        /\ pc[s] \in PutSteps \cup DeleteSteps => row[s] = index[req[s].path]
        /\ pc[s] # "reconcile" => todo[s] = {}
        /\ \A p \in todo[s] : scan[s][p].rev = index[p].rev + 1

CriticalSection == LockInv /\ ReadsAreCurrent

(* The table holds the newest version of every path and never anything     *)
(* that is not a version.                                                  *)
IndexIsNewest ==
    /\ \A h \in history : h.rev <= index[h.path].rev
    /\ \A p \in Paths : \E h \in history :
            h.path = p /\ h.rev = index[p].rev /\ h.val = index[p].val

(* Compare-and-swap: of all the uploads, deletions and reconciliations     *)
(* that start from one revision of a path, at most one is committed, so    *)
(* two clients are never both told that they replaced the same version,    *)
(* also across failed commits and restarts of the worker.                  *)
CasWinner ==
    \A g, h \in history : g.path = h.path /\ g.rev = h.rev => g = h

(* An acknowledged upload or deletion is a version of the project: the     *)
(* revision and content the client was told are in the table's history,    *)
(* committed for that very session.                                        *)
AckIsVersion ==
    \A s \in Sessions : reply[s].kind = "ack" =>
        \E by \in {s, NoSession} :
            /\ Version(reply[s].path, reply[s].rev, reply[s].val, by) \in history
            /\ by = NoSession => reply[s].rev = 0

(* "任何失败都Discard临时文件": only a crash of the worker strands a         *)
(* temporary file, and at most one at a time (uploads are serialised).     *)
TempsBounded ==
    temps <= crashes + (IF \E s \in Sessions :
                              pc[s] \in PutSteps \ {"put_commit"}
                        THEN 1 ELSE 0)

(* An upload is committed only within the project's quota, unless it       *)
(* shrinks the project: the size checked before the rename is still the    *)
(* size of the table when the row is written.                              *)
PutRespectsQuota ==
    [][\A h \in history' \ history : h.by \in Sessions =>
          TotalSize(index') <= Limit \/ TotalSize(index') <= TotalSize(index)]_vars

(* A session in cleanup mode never makes the project larger. *)
CleanupOnlyShrinks ==
    [][\A h \in history' \ history :
          h.by \in Sessions /\ Mode[h.by] = "cleanup" /\ h.val # Gone =>
              TotalSize(index') < TotalSize(index)]_vars

(* Without Claude, failures and crashes the directory differs from the     *)
(* index only at the path being written by the session that holds the      *)
(* lock, so reconciliation never invents a version of a client's upload    *)
(* ("客户端刚put的文件……不会重复入账").                                        *)
NoFalseCloudVersion ==
    /\ \A p \in Paths : disk[p] # index[p].val =>
            \E s \in Sessions : pc[s] \in {"put_commit", "delete_commit"} /\ req[s].path = p
    /\ \A h \in history : h.by = NoSession => h.rev = 0

(* HandleGet reads the row before it opens the file, so what it sends is   *)
(* at least as new as the revision it names: it may send newer bytes under *)
(* an older revision, never older bytes under a newer one, which a client  *)
(* would take for up to date for ever.                                     *)
GetNotStale ==
    \A s \in Sessions : reply[s].kind = "file" =>
        LET r == reply[s]
        IN  \/ \E h \in history : h.path = r.path /\ h.val = r.val /\ h.rev >= r.rev
            \/ \E t \in Sessions : /\ pc[t] = "put_commit"
                                   /\ req[t].path = r.path /\ req[t].val = r.val

(* "这样客户端拉到的清单包含云端最新状态": when the manifest is read, after    *)
(* the lock is released, everything the reconciliation scanned is in the   *)
(* history, as the current version of its path or as a superseded one.     *)
ReconcileRecorded ==
    \A s \in Sessions : pc[s] = "list" =>
        \A p \in Paths :
            \E h \in history : /\ h.path = p /\ h.val = scan[s][p].val
                               /\ h.rev \in {scan[s][p].rev - 1, scan[s][p].rev}

(* Once Claude stops writing, the index describes the directory, also      *)
(* after a crash between rename and commit: the next manifest of any       *)
(* client repairs it.                                                      *)
EventuallyReconciled ==
    <>[][~ CloudEdit]_vars => <>[](\A p \in Paths : index[p].val = disk[p])

(* Every request is answered (or dropped by a crash): an upload that holds *)
(* the lock while its bytes arrive does not shut the others out for ever.  *)
EveryRequestEnds == \A s \in Sessions : pc[s] # "idle" ~> pc[s] = "idle"

-----------------------------------------------------------------------------
(* What the worker promises. *)

Promise == INSTANCE RevisionStore WITH
    head <- index,
    versions <- [p \in Paths |-> {Row(h.rev, h.val) : h \in {g \in history : g.path = p}}]

(* Every step of the worker publishes at most one version, on top of the   *)
(* newest one, or changes nothing a client can rely on.                    *)
Refinement == Promise!Spec

-----------------------------------------------------------------------------
(* A statement of the documentation that the code does not keep. *)

(* README.md:23, "CAS上传，冲突时双方文件都保留……绝不静默覆盖":               *)
(* a session replaces only bytes that are a version of the project.        *)
NoSilentOverwrite ==
    [][\A s \in Sessions :
          pc[s] = "put_promote" /\ pc'[s] = "put_commit" =>
              \E h \in history : h.path = req[s].path /\ h.val = disk[req[s].path]]_vars
=============================================================================
