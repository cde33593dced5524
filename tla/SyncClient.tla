----------------------------- MODULE SyncClient -----------------------------
(***************************************************************************)
(* The sync clients of one project (internal/sync/syncclient.go and the    *)
(* loop around it in cmd/cclaude/main.go): every device repeats rounds     *)
(* that fetch the server's manifest, scan the local directory, decide per  *)
(* path (ThreeWay), execute the decisions one request at a time and save   *)
(* the new baseline.  Meanwhile users edit files, Claude edits the cloud   *)
(* workspace, connections break, the worker restarts and clients are       *)
(* killed.                                                                 *)
(*                                                                         *)
(* The server is the part of SyncServer that clients can tell apart: the   *)
(* rows and the workspace, which a get reads without the project's lock,   *)
(* and the one upload or deletion that has changed the workspace but not   *)
(* yet its row.  Rows and versions change as RevisionStore says.           *)
(***************************************************************************)
EXTENDS ThreeWay, Sequences, FiniteSets

CONSTANTS
    Devices, Paths, Contents,
    Mode,         \* device -> "rw" or "cleanup", told by auth_ok
    UserEdits,    \* what users may leave at a path of their directory
    CloudEdits,   \* what Claude may leave at a path of the workspace
    MaxEdits,     \* bound on the edits of users and Claude
    MaxFaults,    \* bound on broken connections, failed calls and killed programs
    MaxRev        \* bound: no round starts once a path has this revision

Values == Contents \cup {Gone}

ASSUME ShaAssumption == NoSha \notin Values
ASSUME ContentAssumption == Gone \notin Contents
ASSUME ClientAssumption ==
    /\ Mode \in [Devices -> {"rw", "cleanup"}]
    /\ UserEdits \subseteq Values /\ CloudEdits \subseteq Values
    /\ MaxEdits \in Nat /\ MaxFaults \in Nat /\ MaxRev \in Nat

VARIABLES
    head, versions,  \* the row of every path, and all versions of it
    work,     \* the workspace
    putting,  \* the change of the workspace whose row is still to come, if any
    stood,    \* ghost: what stood in the workspace without being a version,
              \* each with the row it stood under
    file,     \* the local directory of each device
    base,     \* .cclaude/index.json of each device
    torn,     \* is index.json of the device cut short?
    pc,       \* idle, list, scan, run, save
    link,     \* is the connection of the running round up?
    wire,     \* answers of the server that the device has not read
    remote,   \* the manifest of the running round
    scan,     \* the directory as the running round scanned it
    plan,     \* what the running round has still to do per path
    got,      \* the revision the server found for a get, its file to be opened
    next,     \* the baseline being built
    seen,     \* ghost: what each user was given, and under which revision: as the
              \* file, as a copy next to it, or as a copy in spite of a deletion
    misled,   \* ghost: devices that took the answer to another request for theirs
    edits, faults

server == <<head, versions, work, putting, stood>>
disk == <<file, base, torn>>
round == <<pc, link, wire, remote, scan, plan, got, next>>
ghosts == <<seen, misled>>
bounds == <<edits, faults>>
vars == <<server, disk, round, ghosts, bounds>>

PerPath(x) == [p \in Paths |-> x]
Idle == PerPath("none")

Init ==
    /\ head = PerPath(NoEntry)
    /\ versions = PerPath({NoEntry})
    /\ work = PerPath(Gone)
    /\ putting = {}
    /\ stood = PerPath({})
    /\ file = [d \in Devices |-> PerPath(Gone)]
    /\ base = [d \in Devices |-> PerPath(NoEntry)]
    /\ torn = [d \in Devices |-> FALSE]
    /\ pc = [d \in Devices |-> "idle"]
    /\ link = [d \in Devices |-> FALSE]
    /\ wire = [d \in Devices |-> <<>>]
    /\ remote = [d \in Devices |-> PerPath(NoEntry)]
    /\ scan = [d \in Devices |-> PerPath(Gone)]
    /\ plan = [d \in Devices |-> Idle]
    /\ got = [d \in Devices |-> PerPath({})]
    /\ next = [d \in Devices |-> PerPath(NoEntry)]
    /\ seen = [d \in Devices |-> {}]
    /\ misled = {}
    /\ edits = 0 /\ faults = 0

Fault == faults < MaxFaults /\ faults' = faults + 1

-----------------------------------------------------------------------------
(* The server. *)

(* The project's lock is held from the check of an upload or deletion to   *)
(* the commit of its row.                                                  *)
Free == putting = {}

Row(n, v) == [rev |-> n, val |-> v]

(* The paths in S get their next version: what the workspace holds.        *)
Publish(S, v) ==
    /\ head' = [p \in Paths |-> IF p \in S THEN Row(head[p].rev + 1, v[p]) ELSE head[p]]
    /\ versions' = [p \in Paths |-> versions[p] \cup {head'[p]}]

(* Part of every step that changes rows or the workspace. *)
Stand ==
    stood' = [p \in Paths |-> stood[p] \cup ({Row(head'[p].rev, work'[p])} \ versions'[p])]

Answers == [op : {"ack", "reject", "conflict", "file", "bytes"},
            rev : Nat, val : Values]
Ack(n) == [op |-> "ack", rev |-> n, val |-> Gone]
Refusal(reason) == [op |-> reason, rev |-> 0, val |-> Gone]
File(n) == [op |-> "file", rev |-> n, val |-> Gone]
Bytes(v) == [op |-> "bytes", rev |-> 0, val |-> v]

-----------------------------------------------------------------------------
(* The round.  As in SyncServer, a definition whose name ends in Bug is a   *)
(* mistake the code could have made; no action uses it.                    *)

(* Forget the round; its variables are locals of SyncOnce. *)
EndRound(d) ==
    /\ pc' = [pc EXCEPT ![d] = "idle"]
    /\ link' = [link EXCEPT ![d] = FALSE]
    /\ wire' = [wire EXCEPT ![d] = <<>>]
    /\ remote' = [remote EXCEPT ![d] = PerPath(NoEntry)]
    /\ scan' = [scan EXCEPT ![d] = PerPath(Gone)]
    /\ plan' = [plan EXCEPT ![d] = Idle]
    /\ got' = [got EXCEPT ![d] = PerPath({})]
    /\ next' = [next EXCEPT ![d] = PerPath(NoEntry)]

(* ScanDir and LocalIndex.Load, as far as they can differ from the state.  *)
Scanned(d) == file[d]
LoadFails(d) == torn[d]

(* writeLocal: a temporary file, renamed when it is complete.              *)
WriteLocal(d, p, v) == file' = [file EXCEPT ![d][p] = v]

(* Connect and ask for the manifest: the server first reconciles.  What    *)
(* differs from its row, edits of Claude and uploads whose commit failed,  *)
(* becomes a version, but for the paths whose commit fails.                *)
Begin(d) ==
    /\ pc[d] = "idle" /\ Free
    /\ \A p \in Paths : head[p].rev < MaxRev
    /\ pc' = [pc EXCEPT ![d] = "list"]
    /\ link' = [link EXCEPT ![d] = TRUE]
    /\ LET differ == {p \in Paths : work[p] # head[p].val}
       IN  \E skipped \in SUBSET differ :
              /\ Publish(differ \ skipped, work)
              /\ IF skipped = {} THEN UNCHANGED faults ELSE Fault
    /\ UNCHANGED <<work, putting>> /\ Stand
    /\ UNCHANGED <<disk, wire, remote, scan, plan, got, next, ghosts, edits>>

(* The manifest arrives.  wsTransport.Manifest takes a refusal for one     *)
(* without entries.                                                        *)
List(d) ==
    /\ pc[d] = "list"
    /\ \/ /\ link[d]
          /\ pc' = [pc EXCEPT ![d] = "scan"]
          /\ \/ remote' = [remote EXCEPT ![d] = head] /\ UNCHANGED faults
             \/ remote' = [remote EXCEPT ![d] = PerPath(NoEntry)] /\ Fault
          /\ UNCHANGED <<link, wire, scan, plan, got, next>>
       \/ ~ link[d] /\ EndRound(d) /\ UNCHANGED faults
    /\ UNCHANGED <<server, disk, ghosts, edits>>

(* Scan the directory, load the baseline and decide.  An index.json that   *)
(* does not parse ends the round.                                          *)
ScanAndDiff(d) ==
    /\ pc[d] = "scan"
    /\ \/ LoadFails(d) /\ EndRound(d)
       \/ /\ ~ LoadFails(d)
          /\ pc' = [pc EXCEPT ![d] = "run"]
          /\ scan' = [scan EXCEPT ![d] = Scanned(d)]
          /\ plan' = [plan EXCEPT ![d] =
                [p \in Paths |-> Decide(base[d][p], Scanned(d)[p], remote[d][p])]]
          /\ next' = [next EXCEPT ![d] =
                [p \in Paths |-> KeptBaseline(base[d][p], Scanned(d)[p])]]
          /\ UNCHANGED <<link, wire, remote, got>>
    /\ UNCHANGED <<server, disk, ghosts, bounds>>

(* execute goes through the lists of the plan one after the other.  An     *)
(* upload or deletion is answered ("sent") before anything else is asked   *)
(* for, one refused as a conflict is resolved before the next one, and so  *)
(* is a get.                                                               *)
Order == <<"sent", "resolve", "upload", "download", "delete_remote", "delete_local", "conflict">>
Doing(d, p, what) ==
    /\ pc[d] = "run" /\ plan[d][p] = what
    /\ \A q \in Paths, i, j \in DOMAIN Order :
          Order[i] = what /\ Order[j] = plan[d][q] => i <= j
    /\ \A q \in Paths \ {p} : got[d][q] = {}
    /\ UNCHANGED <<pc, remote, scan, base, torn, edits>>

(* The path is done; its entry in the next baseline is b. *)
Finish(d, p, b) ==
    /\ plan' = [plan EXCEPT ![d][p] = "none"]
    /\ next' = [next EXCEPT ![d][p] = b]
    /\ got' = [got EXCEPT ![d][p] = {}]

Skip(d, p) == Finish(d, p, next[d][p])

See(d, p, n, v, how) ==
    seen' = [seen EXCEPT ![d] = @ \cup {[path |-> p, rev |-> n, val |-> v, as |-> how]}]

(* Answers carry no request: whatever was left unread is taken first.      *)
Queue(d, answers) == wire[d] \o answers
Takes(d, answers, n) ==
    /\ wire' = [wire EXCEPT ![d] = SubSeq(Queue(d, answers), n + 1, Len(Queue(d, answers)))]
    /\ misled' = IF wire[d] = <<>> THEN misled ELSE misled \cup {d}
Leaves(d, answer) == wire' = [wire EXCEPT ![d] = Append(@, answer)] /\ UNCHANGED misled

(* A request that needs no answer of the server, or gets none.             *)
Silent == UNCHANGED <<wire, misled>>

(* Without a connection every request fails, and the round goes on.        *)
NoConnection(d, p) ==
    /\ ~ link[d]
    /\ \E what \in {Order[i] : i \in DOMAIN Order} \ {"delete_local"} : Doing(d, p, what)
    /\ Skip(d, p)
    /\ Silent
    /\ UNCHANGED <<server, file, link, seen, faults>>

(* What Put makes of the answer it reads: any but a refusal, also that of  *)
(* a get, is success, and only an acknowledgement carries a revision.      *)
PutAnswered(d, p, answer) ==
    LET a == Head(Queue(d, <<answer>>))
    IN  /\ Takes(d, <<answer>>, 1)
        /\ \/ /\ a.op = "conflict"
              /\ plan' = [plan EXCEPT ![d][p] = "resolve"]
              /\ UNCHANGED <<next, got>>
           \/ /\ a.op \in {"reject", "bytes"}
              /\ Skip(d, p)
           \/ /\ a.op \in {"ack", "file"}
              /\ Finish(d, p, Entry(IF a.op = "ack" THEN a.rev ELSE 0, scan[d][p]))

AdmitsNoCasBug(d, p) == file[d][p] = scan[d][p]
AdmitsNoShaCheckBug(d, p) == head[p].rev = base[d][p].rev
(* HandlePut compares the base revision with the row's, then the digest of *)
(* the scan with that of the bytes it receives, which are read only now.   *)
Admits(d, p) == head[p].rev = base[d][p].rev /\ file[d][p] = scan[d][p]

(* The workspace changes; the row will follow. *)
Change(d, p, v) ==
    /\ work' = [work EXCEPT ![p] = v]
    /\ putting' = {[to |-> d, path |-> p, val |-> v]}
    /\ plan' = [plan EXCEPT ![d][p] = "sent"]
    /\ UNCHANGED <<head, versions, next, got>>
    /\ Stand
    /\ Silent

(* Upload: skipped in cleanup mode and when the file cannot be opened.     *)
(* The server may also refuse for other reasons.  If reading the file      *)
(* fails half-way, Put returns before the answer to what was sent.         *)
Upload(d, p) ==
    LET up == link[d] /\ Mode[d] = "rw" /\ file[d][p] # Gone
        refusal == Refusal(IF head[p].rev # base[d][p].rev THEN "conflict" ELSE "reject")
    IN  /\ Doing(d, p, "upload")
        /\ UNCHANGED <<file, link, seen>>
        /\ \/ /\ ~ up /\ link[d]
              /\ Skip(d, p) /\ Silent
              /\ UNCHANGED <<server, faults>>
           \/ /\ up /\ Free /\ Admits(d, p)
              /\ Change(d, p, file[d][p])
              /\ UNCHANGED faults
           \/ /\ up /\ Free
              /\ IF Admits(d, p) THEN Fault ELSE UNCHANGED faults
              /\ PutAnswered(d, p, refusal)
              /\ UNCHANGED server
           \/ /\ up /\ Free /\ Fault
              /\ Leaves(d, refusal)
              /\ Skip(d, p)
              /\ UNCHANGED server

(* The local deletion is sent with the baseline's revision.  The baseline  *)
(* loses the entry whatever the answer is.  Without a row there is nothing *)
(* to delete, which is a success.                                          *)
DeleteRemote(d, p) ==
    LET n == base[d][p].rev
    IN  /\ Doing(d, p, "delete_remote")
        /\ link[d] /\ Free
        /\ UNCHANGED <<file, link, seen>>
        /\ \/ /\ head[p].rev = n /\ n # 0
              /\ Change(d, p, Gone)
              /\ UNCHANGED faults
           \/ /\ IF head[p].rev = n /\ n # 0 THEN Fault ELSE UNCHANGED faults
              /\ Takes(d, <<IF head[p].rev = 0 THEN Ack(n) ELSE Refusal("reject")>>, 1)
              /\ Skip(d, p)
              /\ UNCHANGED server

(* The answer reaches the device, if it is still waiting for it.           *)
Answered(r, answer) ==
    LET d == r.to
        p == r.path
    IN  \/ /\ link[d] /\ plan[d][p] = "sent"
           /\ \/ r.val # Gone /\ PutAnswered(d, p, answer)
              \/ r.val = Gone /\ Takes(d, <<answer>>, 1) /\ Skip(d, p)
        \/ /\ ~ (link[d] /\ plan[d][p] = "sent")
           /\ UNCHANGED <<plan, next, got>> /\ Silent

(* The row of the changed file is committed and the lock released.  A      *)
(* commit that reports failure may or may not have taken effect.           *)
Commit ==
    \E r \in putting :
        /\ putting' = {}
        /\ UNCHANGED work
        /\ \/ /\ Publish({r.path}, [p \in Paths |-> r.val])
              /\ See(r.to, r.path, head[r.path].rev + 1, r.val, "file")
              /\ \/ Answered(r, Ack(head[r.path].rev + 1)) /\ UNCHANGED faults
                 \/ Answered(r, Refusal("reject")) /\ Fault
           \/ /\ UNCHANGED <<head, versions, seen>>
              /\ Answered(r, Refusal("reject")) /\ Fault
        /\ Stand
        /\ UNCHANGED <<disk, pc, link, remote, scan, edits>>

(* A get: the server reads the row, of a tombstone too ...                 *)
Get(d, p, what) ==
    /\ Doing(d, p, what)
    /\ link[d] /\ got[d][p] = {}
    /\ \/ got' = [got EXCEPT ![d][p] = {head[p].rev}] /\ UNCHANGED faults
       \/ got' = [got EXCEPT ![d][p] = {0}] /\ Fault
    /\ Silent
    /\ UNCHANGED <<server, plan, next, file, link, seen>>

(* ... and then opens the file, without the lock: what it finds may be an  *)
(* edit that is not reconciled or an upload that is not committed.  The    *)
(* answer carries no digest, so the baseline gets an empty one.            *)
Fetch(d, p, what, how) ==
    \E n \in got[d][p] :
        LET found == n # 0 /\ work[p] # Gone
            answers == IF found THEN <<File(n), Bytes(work[p])>> ELSE <<Refusal("reject")>>
            first == Head(Queue(d, answers))
            content == Queue(d, answers)[2].val
        IN  /\ Doing(d, p, what)
            /\ link[d]
            /\ UNCHANGED <<server, link>>
            /\ \/ /\ first.op = "file"
                  /\ Takes(d, answers, 2)
                  /\ IF how = "file" THEN WriteLocal(d, p, content) ELSE UNCHANGED file
                  /\ Finish(d, p, Entry(first.rev, NoSha))
                  /\ See(d, p, first.rev, content, how)
                  /\ UNCHANGED faults
               \/ /\ IF first.op = "file" THEN Takes(d, answers, 2) /\ Fault
                                           ELSE Takes(d, answers, 1) /\ UNCHANGED faults
                  /\ Skip(d, p)
                  /\ UNCHANGED <<file, seen>>

NoTempFileBug(d, p) ==
    \/ Get(d, p, "download") \/ Fetch(d, p, "download", "file")
    \/ /\ Doing(d, p, "download") /\ got[d][p] # {} /\ link[d] /\ Fault
       /\ file' = [file EXCEPT ![d][p] = NoSha]
       /\ Skip(d, p) /\ Silent
       /\ UNCHANGED <<server, link, seen>>
Download(d, p) == Get(d, p, "download") \/ Fetch(d, p, "download", "file")

OverwriteOnConflictBug(d, p) ==
    \E what \in {"resolve", "conflict"} : Get(d, p, what) \/ Fetch(d, p, what, "file")
(* saveConflict: the local file stays, the server's version is written     *)
(* next to it and becomes the baseline.                                    *)
Conflict(d, p) ==
    \E what \in {"resolve", "conflict"} :
        \/ Get(d, p, what)
        \/ Fetch(d, p, what, IF scan[d][p] = Gone THEN "kept" ELSE "copy")

KeepsDeletedBug(d, p) ==
    /\ Doing(d, p, "delete_local")
    /\ Skip(d, p) /\ Silent
    /\ UNCHANGED <<server, file, link, seen, faults>>
DeleteLocal(d, p) ==
    /\ Doing(d, p, "delete_local")
    /\ file' = [file EXCEPT ![d][p] = Gone]
    /\ Finish(d, p, NoEntry) /\ Silent
    /\ UNCHANGED <<server, link, seen, faults>>

(* idx.Save, also when requests of the round failed: WriteFile truncates   *)
(* index.json and then writes it.                                          *)
Truncate(d) ==
    /\ pc[d] = "run" /\ plan[d] = Idle
    /\ pc' = [pc EXCEPT ![d] = "save"]
    /\ torn' = [torn EXCEPT ![d] = TRUE]
    /\ UNCHANGED <<server, file, base, link, wire, remote, scan, plan, got, next, ghosts, bounds>>

Save(d) ==
    /\ pc[d] = "save"
    /\ base' = [base EXCEPT ![d] = next[d]]
    /\ torn' = [torn EXCEPT ![d] = FALSE]
    /\ EndRound(d)
    /\ UNCHANGED <<server, file, ghosts, bounds>>

-----------------------------------------------------------------------------
(* The world around the rounds. *)

(* The connection breaks; what is left of the round goes on without it.    *)
Disconnect(d) ==
    /\ pc[d] \in {"list", "scan", "run"} /\ link[d]
    /\ Fault
    /\ link' = [link EXCEPT ![d] = FALSE]
    /\ wire' = [wire EXCEPT ![d] = <<>>]
    /\ UNCHANGED <<server, disk, pc, remote, scan, plan, got, next, ghosts, edits>>

(* The worker dies between a change of the workspace and its row.          *)
Restart ==
    /\ ~ Free
    /\ Fault
    /\ putting' = {}
    /\ link' = [d \in Devices |-> FALSE]
    /\ wire' = [d \in Devices |-> <<>>]
    /\ UNCHANGED <<head, versions, work, stood>>
    /\ UNCHANGED <<disk, pc, remote, scan, plan, got, next, ghosts, edits>>

Kill(d) ==
    /\ pc[d] # "idle"
    /\ Fault
    /\ EndRound(d)
    /\ UNCHANGED <<server, disk, ghosts, edits>>

Edit == edits < MaxEdits /\ edits' = edits + 1

UserEdit(d, p) ==
    \E v \in UserEdits \ {file[d][p]} :
        /\ Edit
        /\ file' = [file EXCEPT ![d][p] = v]
        /\ UNCHANGED <<server, base, torn, round, ghosts, faults>>

(* Claude edits the workspace; the row follows when a round reconciles.    *)
CloudEdit(p) ==
    \E v \in CloudEdits \ {work[p]} :
        /\ Edit
        /\ work' = [work EXCEPT ![p] = v]
        /\ UNCHANGED <<head, versions, putting>> /\ Stand
        /\ UNCHANGED <<disk, round, ghosts, faults>>

Execute(d) ==
    \E p \in Paths : \/ Upload(d, p) \/ Download(d, p) \/ Conflict(d, p)
                     \/ DeleteRemote(d, p) \/ DeleteLocal(d, p) \/ NoConnection(d, p)
Step(d) ==
    Begin(d) \/ List(d) \/ ScanAndDiff(d) \/ Execute(d) \/ Truncate(d) \/ Save(d)

Next ==
    \/ \E d \in Devices : Step(d) \/ Disconnect(d) \/ Kill(d)
    \/ Commit \/ Restart
    \/ \E d \in Devices, p \in Paths : UserEdit(d, p)
    \/ \E p \in Paths : CloudEdit(p)

Spec == Init /\ [][Next]_vars

(* The loop of cmd/cclaude starts a round every two seconds, and the steps *)
(* of a round end, by an answer or by a deadline; so do the worker's.      *)
FairSpec == Spec /\ WF_vars(Commit) /\ \A d \in Devices : WF_vars(Step(d))

-----------------------------------------------------------------------------
(* Properties. *)

Rows == [rev : Nat, val : Values]
Entries == [rev : Nat, val : Values \cup {NoSha}]
Plans == {"none"} \cup {Order[i] : i \in DOMAIN Order}
Views == [path : Paths, rev : Nat, val : Values, as : {"file", "copy", "kept"}]

TypeOK ==
    /\ head \in [Paths -> Rows]
    /\ versions \in [Paths -> SUBSET Rows]
    /\ work \in [Paths -> Values]
    /\ putting \subseteq [to : Devices, path : Paths, val : Values]
    /\ stood \in [Paths -> SUBSET Rows]
    /\ file \in [Devices -> [Paths -> Values]]
    /\ base \in [Devices -> [Paths -> Entries]]
    /\ torn \in [Devices -> BOOLEAN]
    /\ pc \in [Devices -> {"idle", "list", "scan", "run", "save"}]
    /\ link \in [Devices -> BOOLEAN]
    /\ wire \in [Devices -> Seq(Answers)]
    /\ remote \in [Devices -> [Paths -> Rows]]
    /\ scan \in [Devices -> [Paths -> Values]]
    /\ plan \in [Devices -> [Paths -> Plans]]
    /\ got \in [Devices -> [Paths -> SUBSET Nat]]
    /\ next \in [Devices -> [Paths -> Entries]]
    /\ seen \in [Devices -> SUBSET Views]
    /\ misled \subseteq Devices
    /\ edits \in Nat /\ faults \in Nat

(* A step of a client or the worker, as opposed to one of a user or Claude. *)
SyncStep == edits' = edits

(* What a get may have handed out: the versions, and what stood in the     *)
(* workspace under a row without being its version.                        *)
Served(p) == versions[p] \cup stood[p]

(* The user was given something under the number the row has now. *)
Given(d, p) ==
    \E s \in seen[d] : s.path = p /\ s.rev = head[p].rev /\ Row(s.rev, s.val) \in Served(p)

(* "绝不静默覆盖": what a client uploads or deletes replaces a version the   *)
(* client has given its user before, as the file or as a conflict copy,    *)
(* whatever the interleaving with other devices, lost answers and kills    *)
(* between the write of a file and the save of the baseline.  Two cases    *)
(* are excepted, both the code's: an unlocked get may have handed out what *)
(* stood in the workspace under that number in place of the version (and   *)
(* if Claude takes such an edit back, the version itself is replaced       *)
(* without ever having been given), and a device that went on after a      *)
(* failed local read takes answers for those of other requests.            *)
NoBlindOverwrite ==
    [][\A r \in putting :
          head'[r.path] # head[r.path] /\ head[r.path].rev # 0 /\ r.to \notin misled
              => Given(r.to, r.path)]_vars

(* A round replaces or removes a local file only if its content is safe on *)
(* the server, as a version of the path.  An edit made after the scan of   *)
(* the round is not protected: the code does not look at the file again.   *)
(* Nor is a file of a device that took the answer to another request.      *)
LocalEditsSurvive ==
    [][\A d \in Devices \ misled', p \in Paths :
          SyncStep /\ file'[d][p] # file[d][p] /\ file[d][p] = scan[d][p] /\ file[d][p] # Gone
              => \E ver \in versions[p] : ver.val = file[d][p]]_vars

(* A round never takes a file back: what it writes, or the deletion it     *)
(* applies, is newer than the client's baseline, also when the manifest    *)
(* was refused or is stale by then: a later version, or what stood in the  *)
(* workspace under the row of a later version.  A device that took the     *)
(* answer to another request may write anything.                           *)
NoRollback ==
    [][\A d \in Devices \ misled', p \in Paths :
          SyncStep /\ file'[d][p] # file[d][p]
              => \E s \in Served(p) : s.val = file'[d][p] /\ s.rev > base[d][p].rev]_vars

(* A digest in the baseline is that of the very version it is filed under, *)
(* although users write files between the scan and the upload: otherwise a *)
(* later edit would be taken for clean and be replaced by a download.      *)
BaselineMatchesVersion ==
    \A d \in Devices \ misled, p \in Paths : \A b \in {base[d][p], next[d][p]} :
        b.rev # 0 /\ b.val # NoSha => Row(b.rev, b.val) \in versions[p]

(* A file at a path whose last version is a tombstone stays on its device  *)
(* for good, unless it is known to be unchanged: one that was created or   *)
(* edited there (see RecreatedFileReachesServer), but also one that was    *)
(* downloaded, whose digest the baseline lacks until it is uploaded again. *)
Stranded(d, p) ==
    /\ head[p].rev # 0 /\ head[p].val = Gone
    /\ file[d][p] \notin {Gone, base[d][p].val}

Stable == <>[][SyncStep]_vars

(* Once users and Claude pause, the directory of the device and the        *)
(* workspace come to agree for good, in spite of failed requests, lost     *)
(* answers, restarts and kills, unless a kill cut index.json short (then   *)
(* every round ends at Load), the device took the answer to another        *)
(* request, or the path is stranded.                                       *)
EventuallyConverged ==
    Stable => \A d \in Devices, p \in Paths :
                <>[](file[d][p] = work[p] \/ Stranded(d, p) \/ torn[d] \/ d \in misled)

-----------------------------------------------------------------------------
(* Statements of the documentation that the code does not keep. *)

(* manifest.go:51, "deleted + 服务端已变 → 冲突（保留服务端版本）": a version   *)
(* kept on the server in spite of a local deletion is not deleted by that  *)
(* device after all.                                                       *)
KeepServerVersion ==
    [][\A r \in putting :
          r.val = Gone /\ head'[r.path] # head[r.path]
              => ~ \E s \in seen[r.to] :
                       s.path = r.path /\ s.rev = head[r.path].rev /\ s.as = "kept"]_vars

(* manifest.go:116, "新文件的BaseRevision=0也走CAS上传": a new file is        *)
(* uploaded, also where another one was deleted before.                    *)
RecreatedFileReachesServer ==
    Stable => \A d \in Devices, p \in Paths : []<>~ Stranded(d, p)
=============================================================================
