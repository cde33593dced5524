-------------------------- MODULE SyncServerProofs --------------------------
(***************************************************************************)
(* Proofs about SyncServer, for any number of sessions, paths, contents    *)
(* and crashes, with Claude editing the workspace and calls failing.       *)
(***************************************************************************)
EXTENDS SyncServer, TLAPS

USE NoSessionAssumption, GoneAssumption, PathsAssumption, ConfigAssumption

(* The records the actions build have the shapes TypeOK asks for. *)
LEMMA Shapes ==
    /\ NoRow \in Rows
    /\ NoScan \in [Paths -> Rows]
    /\ NoRequest \in Requests
    /\ NoReply \in Replies
BY DEF NoRow, Row, Rows, Values, NoScan, NoRequest, Request, Requests,
       NoReply, Reply, Replies

(* What is known of the variables of the sessions. *)
LocalOK ==
    /\ pc \in [Sessions -> Labels]
    /\ req \in [Sessions -> Requests]
    /\ row \in [Sessions -> Rows]
    /\ scan \in [Sessions -> [Paths -> Rows]]
    /\ todo \in [Sessions -> SUBSET Paths]
    /\ reply \in [Sessions -> Replies]

(* Answering keeps the session's variables typed. *)
LEMMA AnswerTyped ==
    ASSUME TypeOK, NEW s \in Sessions, NEW r \in Replies, Answer(s, r)
    PROVE  LocalOK'
BY Shapes DEF TypeOK, LocalOK, Answer, Goto, Labels

LEMMA AckTyped ==
    ASSUME TypeOK, NEW s \in Sessions, NEW n \in Nat, Ack(s, n)
    PROVE  LocalOK'
<1>1. Reply("ack", req[s].path, n, req[s].val) \in Replies
  BY DEF TypeOK, Requests, Replies, Reply
<1> QED
  BY <1>1, AnswerTyped DEF Ack

LEMMA RejectTyped ==
    ASSUME TypeOK, NEW s \in Sessions, Reject(s)
    PROVE  LocalOK'
<1>1. Reply("reject", req[s].path, 0, Gone) \in Replies
  BY DEF TypeOK, Requests, Replies, Reply, Values
<1> QED
  BY <1>1, AnswerTyped DEF Reject

(* So does taking in a request. *)
LEMMA AcceptTyped ==
    ASSUME TypeOK, NEW s \in Sessions, NEW r \in Requests, Accept(s, r)
    PROVE  TypeOK'
BY Shapes DEF TypeOK, Accept, Goto, Labels, store

(* A commit keeps the index and the history typed. *)
LEMMA CommitTyped ==
    ASSUME TypeOK, NEW p \in Paths, NEW n \in Nat, NEW v \in Values,
           NEW s \in Sessions \cup {NoSession},
           Commit(p, n, v, s) \/ CommitFails(p, n, v, s)
    PROVE  index' \in [Paths -> Rows] /\ history' \subseteq Versions
<1>1. Row(n, v) \in Rows /\ Version(p, n, v, s) \in Versions
  BY DEF Row, Rows, Version, Versions
<1>2. CASE Commit(p, n, v, s)
  BY <1>1, <1>2 DEF TypeOK, Commit
<1>3. CASE UNCHANGED <<index, history>>
  BY <1>3 DEF TypeOK
<1> QED
  BY <1>2, <1>3 DEF CommitFails

(* PutReceive ... PutPromote abort only while their temporary file exists. *)
TempsOK ==
    \A s \in Sessions : pc[s] \in PutSteps \ {"put_commit"} => temps > 0

LEMMA TypeStep ==
    ASSUME TypeOK, TempsOK, [Next]_vars
    PROVE  TypeOK'
<1> USE DEF TypeOK
<1>1. ASSUME NEW s \in Sessions, Receive(s)
      PROVE  TypeOK'
  <2>1. CASE ReceivePut(s)
    <3>1. PICK p \in Paths, v \in Contents, sha \in Contents, n \in Nat :
              Accept(s, Request("put", p, n, v, sha))
      BY <2>1 DEF ReceivePut, Rows
    <3>2. Request("put", p, n, v, sha) \in Requests
      BY DEF Request, Requests, Values
    <3> QED
      BY <3>1, <3>2, AcceptTyped
  <2>2. CASE ReceiveDelete(s)
    <3>1. PICK p \in Paths, n \in Nat : Accept(s, Request("delete", p, n, Gone, Gone))
      BY <2>2 DEF ReceiveDelete, Rows
    <3>2. Request("delete", p, n, Gone, Gone) \in Requests
      BY DEF Request, Requests, Values
    <3> QED
      BY <3>1, <3>2, AcceptTyped
  <2>3. CASE ReceiveGet(s)
    BY <2>3, AcceptTyped DEF ReceiveGet, Request, Requests, Values
  <2>4. CASE ReceiveManifest(s)
    <3>1. [NoRequest EXCEPT !.op = "manifest"] \in Requests
      BY Shapes DEF Requests
    <3> QED
      BY <2>4, <3>1, AcceptTyped DEF ReceiveManifest
  <2> QED
    BY <1>1, <2>1, <2>2, <2>3, <2>4 DEF Receive
<1>2. ASSUME NEW s \in Sessions, PutLock(s)
      PROVE  TypeOK'
  <2>1. CASE Reject(s) /\ UNCHANGED <<temps, lock>>
    BY <1>2, <2>1, RejectTyped DEF PutLock, LocalOK
  <2>2. CASE /\ lock' = s /\ temps' = temps + 1 /\ Continue(s, "put_receive")
             /\ row' = [row EXCEPT ![s] = index[req[s].path]]
             /\ UNCHANGED <<req, scan, todo>>
    <3>1. index[req[s].path] \in Rows
      BY DEF Requests
    <3>2. pc' \in [Sessions -> Labels]
      BY <2>2 DEF Continue, Goto, Labels, Locked, PutSteps
    <3>3. UNCHANGED <<index, disk, crashes, history>>
      BY <1>2 DEF PutLock
    <3>4. row' \in [Sessions -> Rows] /\ temps' \in Nat
      BY <2>2, <3>1
    <3>5. reply' = reply /\ lock' \in Sessions \cup {NoSession}
      BY <2>2 DEF Continue
    <3> QED
      BY <2>2, <3>2, <3>3, <3>4, <3>5
  <2> QED
    BY <1>2, <2>1, <2>2 DEF PutLock, Acquire
<1>3. ASSUME NEW s \in Sessions, PutAbort(s), UNCHANGED <<index, disk, crashes, history>>,
             temps > 0
      PROVE  TypeOK'
  BY <1>3, RejectTyped DEF PutAbort, Release, LocalOK
<1>4. ASSUME NEW s \in Sessions, PutReceive(s)
      PROVE  TypeOK'
  <2>1. CASE Continue(s, "put_admit") /\ UNCHANGED <<temps, lock, local>>
    BY <1>4, <2>1 DEF PutReceive, Continue, Goto, local, Labels, Locked, PutSteps
  <2> QED
    BY <1>4, <2>1, <1>3 DEF PutReceive, TempsOK, PutSteps
<1>5. ASSUME NEW s \in Sessions, PutAdmit(s)
      PROVE  TypeOK'
  <2>1. CASE Continue(s, "put_promote") /\ UNCHANGED <<temps, lock, local>>
    BY <1>5, <2>1 DEF PutAdmit, Continue, Goto, local, Labels, Locked, PutSteps
  <2> QED
    BY <1>5, <2>1, <1>3 DEF PutAdmit, TempsOK, PutSteps
<1>6. ASSUME NEW s \in Sessions, PutPromote(s)
      PROVE  TypeOK'
  <2>1. CASE /\ disk' = [disk EXCEPT ![req[s].path] = req[s].val]
             /\ temps' = temps - 1 /\ Continue(s, "put_commit")
             /\ UNCHANGED <<lock, local>>
    <3>1. temps > 0
      BY <1>6 DEF PutPromote, TempsOK, PutSteps
    <3>2. req[s].path \in Paths /\ req[s].val \in Values
      BY DEF Requests
    <3>3. pc' \in [Sessions -> Labels]
      BY <2>1 DEF Continue, Goto, Labels, Locked, PutSteps
    <3> QED
      BY <1>6, <2>1, <3>1, <3>2, <3>3 DEF PutPromote, Continue, local
  <2> QED
    BY <1>6, <2>1, <1>3 DEF PutPromote, TempsOK, PutSteps
<1>7. ASSUME NEW s \in Sessions, PutCommit(s) \/ DeleteCommit(s)
      PROVE  TypeOK'
  <2> DEFINE n == row[s].rev + 1
  <2>1. n \in Nat /\ req[s].path \in Paths /\ req[s].val \in Values /\ Gone \in Values
    BY DEF Rows, Requests, Values
  <2>2. LocalOK'
    BY <1>7, <2>1, AckTyped, RejectTyped DEF PutCommit, DeleteCommit
  <2>3. index' \in [Paths -> Rows] /\ history' \subseteq Versions
    BY <1>7, <2>1, CommitTyped DEF PutCommit, DeleteCommit
  <2> QED
    BY <1>7, <2>2, <2>3 DEF PutCommit, DeleteCommit, Release, LocalOK
<1>8. ASSUME NEW s \in Sessions, DeleteLock(s)
      PROVE  TypeOK'
  <2>1. CASE /\ lock' = s /\ Continue(s, "delete_remove")
             /\ row' = [row EXCEPT ![s] = index[req[s].path]]
             /\ UNCHANGED <<req, scan, todo>>
    <3>1. index[req[s].path] \in Rows
      BY DEF Requests
    <3>2. pc' \in [Sessions -> Labels]
      BY <2>1 DEF Continue, Goto, Labels, Locked, DeleteSteps
    <3> QED
      BY <1>8, <2>1, <3>1, <3>2 DEF DeleteLock, Continue, store
  <2>2. CASE (Reject(s) \/ Ack(s, req[s].base)) /\ UNCHANGED lock
    <3>1. req[s].base \in Nat
      BY DEF Requests
    <3> QED
      BY <1>8, <2>2, <3>1, RejectTyped, AckTyped DEF DeleteLock, store, LocalOK
  <2> QED
    BY <1>8, <2>1, <2>2 DEF DeleteLock, Acquire
<1>9. ASSUME NEW s \in Sessions, DeleteRemove(s)
      PROVE  TypeOK'
  <2>1. CASE /\ disk' = [disk EXCEPT ![req[s].path] = Gone]
             /\ Continue(s, "delete_commit") /\ UNCHANGED <<lock, local>>
    <3>1. req[s].path \in Paths /\ Gone \in Values
      BY DEF Requests, Values
    <3>2. pc' \in [Sessions -> Labels]
      BY <2>1 DEF Continue, Goto, Labels, Locked, DeleteSteps
    <3> QED
      BY <1>9, <2>1, <3>1, <3>2 DEF DeleteRemove, Continue, local
  <2>2. CASE Release /\ Reject(s) /\ UNCHANGED disk
    BY <1>9, <2>2, RejectTyped DEF DeleteRemove, Release, LocalOK
  <2> QED
    BY <1>9, <2>1, <2>2 DEF DeleteRemove
<1>10. ASSUME NEW s \in Sessions, ReconcileScan(s)
       PROVE  TypeOK'
  <2>1. [p \in Paths |-> Row(index[p].rev + 1, disk[p])] \in [Paths -> Rows]
    BY DEF Row, Rows
  <2>2. {p \in Paths : Differs(p)} \in SUBSET Paths
    OBVIOUS
  <2>3. CASE Continue(s, "list") /\ UNCHANGED <<lock, scan, todo>>
    BY <1>10, <2>3 DEF ReconcileScan, Continue, Goto, store, Labels
  <2>4. CASE /\ lock' = s /\ Continue(s, "reconcile")
             /\ scan' = [scan EXCEPT ![s] =
                           [p \in Paths |-> Row(index[p].rev + 1, disk[p])]]
             /\ todo' = [todo EXCEPT ![s] = {p \in Paths : Differs(p)}]
    <3>1. scan' \in [Sessions -> [Paths -> Rows]] /\ todo' \in [Sessions -> SUBSET Paths]
      BY <2>1, <2>2, <2>4
    <3>2. pc' \in [Sessions -> Labels]
      BY <2>4 DEF Continue, Goto, Labels, Locked
    <3> QED
      BY <1>10, <2>4, <3>1, <3>2 DEF ReconcileScan, Continue, store
  <2> QED
    BY <1>10, <2>3, <2>4 DEF ReconcileScan, Acquire
<1>11. ASSUME NEW s \in Sessions, ReconcileCommit(s)
       PROVE  TypeOK'
  <2>1. PICK p \in todo[s] :
            /\ \/ Commit(p, scan[s][p].rev, scan[s][p].val, NoSession)
               \/ CommitFails(p, scan[s][p].rev, scan[s][p].val, NoSession)
            /\ todo' = [todo EXCEPT ![s] = @ \ {p}]
            /\ UNCHANGED <<disk, temps, crashes, lock, pc, req, row, scan, reply>>
    BY <1>11 DEF ReconcileCommit
  <2>2. p \in Paths /\ scan[s][p].rev \in Nat /\ scan[s][p].val \in Values
    BY DEF Rows
  <2>3. index' \in [Paths -> Rows] /\ history' \subseteq Versions
    BY <2>1, <2>2, CommitTyped
  <2> QED
    BY <2>1, <2>3
<1>12. ASSUME NEW s \in Sessions, ReconcileDone(s) \/ ManifestReply(s)
       PROVE  TypeOK'
  <2>1. CASE ReconcileDone(s)
    BY <2>1 DEF ReconcileDone, Release, Continue, Goto, store, local, Labels
  <2>2. CASE ManifestReply(s)
    <3>1. [NoReply EXCEPT !.kind = "manifest"] \in Replies
      BY Shapes DEF Replies
    <3> QED
      BY <2>2, <3>1, AnswerTyped, RejectTyped DEF ManifestReply, store, LocalOK
  <2> QED
    BY <1>12, <2>1, <2>2
<1>13. ASSUME NEW s \in Sessions, GetCurrent(s) \/ GetOpen(s)
       PROVE  TypeOK'
  <2>1. CASE GetCurrent(s) /\ Continue(s, "open")
    BY <2>1 DEF GetCurrent, Continue, Goto, store, Labels, Requests, Reject, Answer
  <2>2. CASE (GetCurrent(s) \/ GetOpen(s)) /\ Reject(s)
    BY <2>2, RejectTyped DEF GetCurrent, GetOpen, store, LocalOK
  <2>3. CASE GetOpen(s) /\ Answer(s, Reply("file", req[s].path, row[s].rev, disk[req[s].path]))
    <3>1. Reply("file", req[s].path, row[s].rev, disk[req[s].path]) \in Replies
      BY DEF Reply, Replies, Requests, Rows
    <3> QED
      BY <2>3, <3>1, AnswerTyped DEF GetOpen, store, LocalOK
  <2> QED
    BY <1>13, <2>1, <2>2, <2>3 DEF GetCurrent, GetOpen
<1>14. CASE CloudEdit
  BY <1>14 DEF CloudEdit, local
<1>15. CASE Crash
  BY <1>15, Shapes DEF Crash, Labels
<1>16. CASE UNCHANGED vars
  BY <1>16 DEF vars, store, local
<1> QED
  BY <1>1, <1>2, <1>4, <1>5, <1>6, <1>7, <1>8, <1>9, <1>10, <1>11, <1>12, <1>13,
     <1>14, <1>15, <1>16
     DEF Next, Enter, Work, Put, Delete, Manifest, Get

-----------------------------------------------------------------------------
(* The project lock.  A step of session s moves only pc[s]; it takes the   *)
(* free lock, keeps it, gives it back, or has nothing to do with it.       *)

LEMMA LockStep ==
    ASSUME TypeOK, LockInv, NEW s \in Sessions, NEW l \in Labels, Goto(s, l),
           \/ lock = NoSession /\ lock' = s /\ l \in Locked
           \/ pc[s] \in Locked /\ lock' = lock /\ l \in Locked
           \/ pc[s] \in Locked /\ lock' = NoSession /\ l \notin Locked
           \/ pc[s] \notin Locked /\ lock' = lock /\ l \notin Locked
    PROVE  LockInv'
BY DEF TypeOK, LockInv, Goto

LEMMA LockPreserved ==
    ASSUME TypeOK, LockInv, [Next]_vars
    PROVE  LockInv'
<1> DEFINE Out == Labels \ Locked
<1>1. /\ {"idle", "wait", "list", "open"} \subseteq Out
      /\ PutSteps \cup DeleteSteps \cup {"reconcile"} \subseteq Locked \cap Labels
  BY DEF Labels, Locked, PutSteps, DeleteSteps
<1>2. ASSUME NEW s \in Sessions, Receive(s)
      PROVE  LockInv'
  <2>1. pc[s] = "idle" /\ Goto(s, "wait") /\ lock' = lock
    BY <1>2 DEF Receive, ReceivePut, ReceiveDelete, ReceiveGet, ReceiveManifest, Accept
  <2> QED
    BY <2>1, <1>1, LockStep
<1>3. ASSUME NEW s \in Sessions, Enter(s)
      PROVE  LockInv'
  <2>1. /\ pc[s] = "wait" /\ lock = NoSession
        /\ \/ lock' = s /\ \E l \in {"put_receive", "delete_remove", "reconcile"} : Goto(s, l)
           \/ lock' = lock /\ \E l \in {"idle", "list"} : Goto(s, l)
    BY <1>3 DEF Enter, PutLock, DeleteLock, ReconcileScan, Waiting, Free, Acquire,
                Continue, Reject, Ack, Answer
  <2>2. {"put_receive", "delete_remove", "reconcile"} \subseteq Locked \cap Labels
    BY <1>1 DEF PutSteps, DeleteSteps
  <2> QED
    BY <2>1, <2>2, <1>1, LockStep
<1>4. ASSUME NEW s \in Sessions, Put(s) \/ Delete(s)
      PROVE  LockInv'
  <2>1. /\ pc[s] \in PutSteps \cup DeleteSteps
        /\ \/ lock' = lock /\ \E l \in PutSteps \cup DeleteSteps : Goto(s, l)
           \/ lock' = NoSession /\ Goto(s, "idle")
    BY <1>4 DEF Put, Delete, PutReceive, PutAdmit, PutPromote, PutCommit, PutAbort,
                DeleteRemove, DeleteCommit, PutSteps, DeleteSteps, Release,
                Continue, Reject, Ack, Answer
  <2> QED
    BY <2>1, <1>1, LockStep
<1>5. ASSUME NEW s \in Sessions, Manifest(s)
      PROVE  LockInv'
  <2>1. CASE ReconcileCommit(s)
    BY <2>1 DEF ReconcileCommit, LockInv
  <2>2. CASE ReconcileDone(s)
    <3>1. pc[s] = "reconcile" /\ lock' = NoSession /\ Goto(s, "list")
      BY <2>2 DEF ReconcileDone, Release, Continue
    <3> QED
      BY <3>1, <1>1, LockStep
  <2>3. CASE ManifestReply(s)
    <3>1. pc[s] = "list" /\ lock' = lock /\ Goto(s, "idle")
      BY <2>3 DEF ManifestReply, Reject, Answer
    <3> QED
      BY <3>1, <1>1, LockStep
  <2> QED
    BY <1>5, <2>1, <2>2, <2>3 DEF Manifest
<1>6. ASSUME NEW s \in Sessions, Get(s)
      PROVE  LockInv'
  <2>1. pc[s] \in {"wait", "open"} /\ lock' = lock /\ \E l \in {"idle", "open"} : Goto(s, l)
    BY <1>6 DEF Get, GetCurrent, GetOpen, Waiting, Continue, Reject, Answer
  <2> QED
    BY <2>1, <1>1, LockStep
<1>7. CASE CloudEdit
  BY <1>7 DEF CloudEdit, LockInv
<1>8. CASE Crash
  BY <1>8, <1>1 DEF Crash, LockInv
<1>9. CASE UNCHANGED vars
  BY <1>9 DEF vars, LockInv
<1> QED
  BY <1>2, <1>3, <1>4, <1>5, <1>6, <1>7, <1>8, <1>9 DEF Next, Work

(* The holder of the lock is the only session in a critical section. *)
LEMMA Alone ==
    ASSUME LockInv, NEW s \in Sessions, NEW t \in Sessions, t # s,
           pc[s] \in Locked \/ lock = NoSession
    PROVE  pc[t] \notin Locked
BY DEF LockInv

-----------------------------------------------------------------------------
(* Every change of the index is a commit of the next revision of one path. *)

Publishes(p, v, by) == Commit(p, index[p].rev + 1, v, by)

LEMMA IndexStep ==
    ASSUME TypeOK, CriticalSection, [Next]_vars
    PROVE  \/ UNCHANGED <<index, history>>
           \/ \E p \in Paths, v \in Values, by \in Sessions \cup {NoSession} :
                 Publishes(p, v, by)
<1>1. ASSUME NEW s \in Sessions, PutCommit(s) \/ DeleteCommit(s)
      PROVE  \/ UNCHANGED <<index, history>>
             \/ \E p \in Paths, v \in Values : Publishes(p, v, s)
  <2>1. row[s] = index[req[s].path]
    BY <1>1 DEF CriticalSection, ReadsAreCurrent, PutCommit, DeleteCommit, PutSteps,
                DeleteSteps
  <2>2. req[s].path \in Paths /\ req[s].val \in Values /\ Gone \in Values
    BY DEF TypeOK, Requests, Values
  <2> QED
    BY <1>1, <2>1, <2>2 DEF PutCommit, DeleteCommit, CommitFails, Publishes
<1>2. ASSUME NEW s \in Sessions, ReconcileCommit(s)
      PROVE  \/ UNCHANGED <<index, history>>
             \/ \E p \in Paths, v \in Values : Publishes(p, v, NoSession)
  <2>1. PICK p \in todo[s] :
            \/ Commit(p, scan[s][p].rev, scan[s][p].val, NoSession)
            \/ CommitFails(p, scan[s][p].rev, scan[s][p].val, NoSession)
    BY <1>2 DEF ReconcileCommit
  <2>2. p \in Paths /\ scan[s][p].val \in Values
    BY DEF TypeOK, Rows
  <2>3. scan[s][p].rev = index[p].rev + 1
    BY DEF CriticalSection, ReadsAreCurrent
  <2> QED
    BY <2>1, <2>2, <2>3 DEF CommitFails, Publishes
<1>3. ASSUME NEW s \in Sessions, Receive(s) \/ Enter(s) \/ Get(s)
      PROVE  UNCHANGED <<index, history>>
  BY <1>3 DEF Receive, ReceivePut, ReceiveDelete, ReceiveGet, ReceiveManifest, Accept,
              Enter, PutLock, DeleteLock, ReconcileScan, Get, GetCurrent, GetOpen, store
<1>4. ASSUME NEW s \in Sessions,
             \/ PutReceive(s) \/ PutAdmit(s) \/ PutPromote(s) \/ DeleteRemove(s)
             \/ ReconcileDone(s) \/ ManifestReply(s)
      PROVE  UNCHANGED <<index, history>>
  BY <1>4 DEF PutReceive, PutAdmit, PutPromote, DeleteRemove, ReconcileDone,
              ManifestReply, store
<1>5. CASE CloudEdit \/ Crash \/ UNCHANGED vars
  BY <1>5 DEF CloudEdit, Crash, vars, store
<1> QED
  BY <1>1, <1>2, <1>3, <1>4, <1>5 DEF Next, Work, Put, Delete, Manifest

LEMMA NewestStep ==
    ASSUME TypeOK, CriticalSection, IndexIsNewest, [Next]_vars
    PROVE  IndexIsNewest'
<1>1. CASE UNCHANGED <<index, history>>
  BY <1>1 DEF IndexIsNewest
<1>2. ASSUME NEW p \in Paths, NEW v \in Values, NEW by \in Sessions \cup {NoSession},
             Publishes(p, v, by)
      PROVE  IndexIsNewest'
  <2> DEFINE new == Version(p, index[p].rev + 1, v, by)
  <2>1. /\ index' = [index EXCEPT ![p] = Row(index[p].rev + 1, v)]
        /\ history' = history \cup {new}
    BY <1>2 DEF Publishes, Commit
  <2>2. /\ \A q \in Paths : index[q].rev \in Nat
        /\ \A h \in history : h.path \in Paths /\ h.rev \in Nat
    BY DEF TypeOK, Rows, Versions
  <2>3. index'[p].rev = index[p].rev + 1 /\ index'[p].val = v
    BY <2>1 DEF TypeOK, Row
  <2>4. \A q \in Paths : q # p => index'[q] = index[q]
    BY <2>1 DEF TypeOK
  <2>5. new.path = p /\ new.rev = index[p].rev + 1 /\ new.val = v
    BY DEF Version
  <2>6. \A h \in history' : h.rev <= index'[h.path].rev
    BY <2>1, <2>2, <2>3, <2>4, <2>5 DEF IndexIsNewest
  <2>7. ASSUME NEW q \in Paths
        PROVE  \E h \in history' :
                   h.path = q /\ h.rev = index'[q].rev /\ h.val = index'[q].val
    BY <2>1, <2>3, <2>4, <2>5 DEF IndexIsNewest
  <2> QED
    BY <2>6, <2>7 DEF IndexIsNewest
<1> QED
  BY <1>1, <1>2, IndexStep

LEMMA CasStep ==
    ASSUME TypeOK, CriticalSection, IndexIsNewest, CasWinner, [Next]_vars
    PROVE  CasWinner'
<1>1. CASE UNCHANGED <<index, history>>
  BY <1>1 DEF CasWinner
<1>2. ASSUME NEW p \in Paths, NEW v \in Values, NEW by \in Sessions \cup {NoSession},
             Publishes(p, v, by)
      PROVE  CasWinner'
  <2> DEFINE new == Version(p, index[p].rev + 1, v, by)
  <2>1. history' = history \cup {new}
    BY <1>2 DEF Publishes, Commit
  <2>2. new.path = p /\ new.rev = index[p].rev + 1
    BY DEF Version
  <2>3. index[p].rev \in Nat /\ \A h \in history : h.rev \in Nat
    BY DEF TypeOK, Rows, Versions
  <2>4. \A h \in history : h.path = new.path => h.rev # new.rev
    BY <2>2, <2>3 DEF IndexIsNewest
  <2> QED
    BY <2>1, <2>4 DEF CasWinner
<1> QED
  BY <1>1, <1>2, IndexStep

-----------------------------------------------------------------------------
(* A step of one session leaves the local state of the others alone. *)

LEMMA Others ==
    ASSUME TypeOK, NEW s \in Sessions, Receive(s) \/ Enter(s) \/ Work(s),
           NEW t \in Sessions, t # s
    PROVE  /\ pc'[t] = pc[t] /\ req'[t] = req[t] /\ row'[t] = row[t]
           /\ scan'[t] = scan[t] /\ todo'[t] = todo[t] /\ reply'[t] = reply[t]
<1> USE DEF TypeOK, Goto, Continue, Answer, Ack, Reject, local
<1>1. CASE Receive(s)
  BY <1>1 DEF Receive, ReceivePut, ReceiveDelete, ReceiveGet, ReceiveManifest, Accept
<1>2. CASE Enter(s)
  BY <1>2 DEF Enter, PutLock, DeleteLock, ReconcileScan
<1>3. CASE Put(s)
  BY <1>3 DEF Put, PutReceive, PutAdmit, PutPromote, PutCommit, PutAbort
<1>4. CASE Delete(s)
  BY <1>4 DEF Delete, DeleteRemove, DeleteCommit
<1>5. CASE Manifest(s)
  BY <1>5 DEF Manifest, ReconcileCommit, ReconcileDone, ManifestReply
<1>6. CASE Get(s)
  BY <1>6 DEF Get, GetCurrent, GetOpen
<1> QED
  BY <1>1, <1>2, <1>3, <1>4, <1>5, <1>6 DEF Work

(* The index changes only in a critical section. *)
LEMMA IndexChange ==
    ASSUME NEW s \in Sessions, Receive(s) \/ Enter(s) \/ Work(s), pc[s] \notin Locked
    PROVE  UNCHANGED <<index, history>>
<1> USE DEF Locked, PutSteps, DeleteSteps
<1>1. CASE Receive(s) \/ Enter(s) \/ Get(s)
  BY <1>1 DEF Receive, ReceivePut, ReceiveDelete, ReceiveGet, ReceiveManifest, Accept,
              Enter, PutLock, DeleteLock, ReconcileScan, Get, GetCurrent, GetOpen, store
<1>2. CASE Put(s) \/ Delete(s) \/ Manifest(s)
  BY <1>2 DEF Put, PutReceive, PutAdmit, PutPromote, PutCommit, Delete, DeleteRemove,
              DeleteCommit, Manifest, ReconcileCommit, ReconcileDone, ManifestReply, store
<1> QED
  BY <1>1, <1>2 DEF Work

(* What one session may rely on while it holds the lock. *)
Current(s) ==
    /\ pc[s] \in PutSteps \cup DeleteSteps => row[s] = index[req[s].path]
    /\ pc[s] # "reconcile" => todo[s] = {}
    /\ \A p \in todo[s] : scan[s][p].rev = index[p].rev + 1

LEMMA ReadsStep ==
    ASSUME TypeOK, CriticalSection, [Next]_vars
    PROVE  ReadsAreCurrent'
<1>a. \A s \in Sessions : Current(s)
  BY DEF CriticalSection, ReadsAreCurrent, Current
<1>b. SUFFICES \A s \in Sessions : Current(s)'
  BY DEF ReadsAreCurrent, Current
<1>1. ASSUME NEW s \in Sessions, Receive(s) \/ Enter(s) \/ Work(s),
             NEW t \in Sessions, t # s
      PROVE  Current(t)'
  <2>1. CASE pc[s] \in Locked
    <3>1. pc[t] \notin Locked
      BY <1>1, <2>1, Alone DEF CriticalSection
    <3>2. todo[t] = {}
      BY <3>1, <1>a DEF Current, Locked
    <3> QED
      BY <1>1, <3>1, <3>2, Others DEF Current, Locked
  <2>2. CASE pc[s] \notin Locked
    BY <1>1, <2>2, <1>a, Others, IndexChange DEF Current
  <2> QED
    BY <2>1, <2>2
<1>2. ASSUME NEW s \in Sessions, Receive(s)
      PROVE  Current(s)'
  <2>1. pc[s] = "idle" /\ Goto(s, "wait") /\ UNCHANGED <<row, scan, todo>>
    BY <1>2 DEF Receive, ReceivePut, ReceiveDelete, ReceiveGet, ReceiveManifest, Accept
  <2> QED
    BY <2>1, <1>a DEF Current, Goto, TypeOK, PutSteps, DeleteSteps
<1>3. ASSUME NEW s \in Sessions, NEW r, Answer(s, r)
      PROVE  Current(s)'
  BY <1>3 DEF Answer, Goto, Current, TypeOK, PutSteps, DeleteSteps
<1>4. ASSUME NEW s \in Sessions, NEW l, Goto(s, l), UNCHANGED index,
             \/ UNCHANGED <<req, row, scan, todo>> /\ l # "wait"
             \/ /\ row' = [row EXCEPT ![s] = index[req[s].path]]
                /\ UNCHANGED <<req, scan, todo>>,
             pc[s] \in PutSteps \cup DeleteSteps \/ row'[s] = index[req[s].path],
             todo[s] = {}
      PROVE  Current(s)'
  BY <1>4, <1>a DEF Goto, Current, TypeOK
<1>5. ASSUME NEW s \in Sessions, PutLock(s) \/ DeleteLock(s)
      PROVE  Current(s)'
  <2>1. todo[s] = {}
    BY <1>5, <1>a DEF Current, PutLock, DeleteLock, Waiting
  <2>2. \/ \E r : Answer(s, r)
        \/ /\ \E l \in {"put_receive", "delete_remove"} : Goto(s, l)
           /\ row' = [row EXCEPT ![s] = index[req[s].path]]
           /\ UNCHANGED <<index, req, scan, todo>>
    BY <1>5 DEF PutLock, DeleteLock, Continue, Reject, Ack, store
  <2> QED
    BY <2>1, <2>2, <1>3, <1>4 DEF TypeOK
<1>6. ASSUME NEW s \in Sessions, ReconcileScan(s)
      PROVE  Current(s)'
  <2>1. todo[s] = {}
    BY <1>6, <1>a DEF Current, ReconcileScan, Waiting
  <2>2. CASE Goto(s, "list") /\ UNCHANGED <<index, scan, todo>>
    BY <2>1, <2>2 DEF Goto, Current, TypeOK, PutSteps, DeleteSteps
  <2>3. CASE /\ Goto(s, "reconcile") /\ UNCHANGED index
             /\ scan' = [scan EXCEPT ![s] =
                           [p \in Paths |-> Row(index[p].rev + 1, disk[p])]]
             /\ todo' = [todo EXCEPT ![s] = {p \in Paths : Differs(p)}]
    <3>1. todo'[s] \subseteq Paths
      BY <2>3 DEF TypeOK
    <3>2. \A p \in Paths : scan'[s][p].rev = index'[p].rev + 1
      BY <2>3 DEF TypeOK, Row
    <3>3. pc'[s] = "reconcile"
      BY <2>3 DEF TypeOK, Goto
    <3> QED
      BY <3>1, <3>2, <3>3 DEF Current, PutSteps, DeleteSteps
  <2> QED
    BY <1>6, <2>2, <2>3 DEF ReconcileScan, Continue, store
<1>7. ASSUME NEW s \in Sessions, Put(s) \/ Delete(s)
      PROVE  Current(s)'
  <2>1. \/ \E r : Answer(s, r)
        \/ /\ pc[s] \in PutSteps \cup DeleteSteps
           /\ \E l \in PutSteps \cup DeleteSteps : Goto(s, l)
           /\ UNCHANGED <<index, req, row, scan, todo>>
    BY <1>7 DEF Put, Delete, PutReceive, PutAdmit, PutPromote, PutCommit, PutAbort,
                DeleteRemove, DeleteCommit, PutSteps, DeleteSteps, Continue, Reject,
                Ack, local
  <2>2. pc[s] \in PutSteps \cup DeleteSteps => todo[s] = {}
    BY <1>a DEF Current, PutSteps, DeleteSteps
  <2> QED
    BY <2>1, <2>2, <1>3, <1>4 DEF PutSteps, DeleteSteps
<1>8. ASSUME NEW s \in Sessions, Manifest(s)
      PROVE  Current(s)'
  <2>1. CASE ReconcileCommit(s)
    <3>1. PICK p \in todo[s] :
              /\ \/ index' = [index EXCEPT ![p] = Row(scan[s][p].rev, scan[s][p].val)]
                 \/ UNCHANGED index
              /\ todo' = [todo EXCEPT ![s] = @ \ {p}]
              /\ pc[s] = "reconcile"
              /\ UNCHANGED <<pc, req, row, scan>>
      BY <2>1 DEF ReconcileCommit, Commit, CommitFails
    <3>2. \A q \in todo'[s] : q \in todo[s] /\ q \in Paths /\ index'[q] = index[q]
      BY <3>1 DEF TypeOK
    <3> QED
      BY <3>1, <3>2, <1>a DEF Current, PutSteps, DeleteSteps
  <2>2. CASE ReconcileDone(s)
    BY <2>2, <1>a DEF ReconcileDone, Continue, Goto, Current, TypeOK, store, local,
                      PutSteps, DeleteSteps
  <2>3. CASE ManifestReply(s)
    BY <2>3, <1>3 DEF ManifestReply, Reject
  <2> QED
    BY <1>8, <2>1, <2>2, <2>3 DEF Manifest
<1>9. ASSUME NEW s \in Sessions, Get(s)
      PROVE  Current(s)'
  <2>1. CASE \E r : Answer(s, r)
    BY <2>1, <1>3
  <2>2. CASE GetCurrent(s) /\ Goto(s, "open") /\ UNCHANGED <<scan, todo>>
    BY <2>2, <1>a DEF GetCurrent, Waiting, Goto, Current, TypeOK, store, PutSteps, DeleteSteps
  <2> QED
    BY <1>9, <2>1, <2>2 DEF Get, GetCurrent, GetOpen, Continue, Reject
<1>10. CASE CloudEdit
  BY <1>10, <1>a DEF CloudEdit, Current, local
<1>11. CASE Crash
  BY <1>11 DEF Crash, Current, PutSteps, DeleteSteps
<1>12. CASE UNCHANGED vars
  BY <1>12, <1>a DEF vars, store, local, Current
<1>13. ASSUME NEW s \in Sessions, Receive(s) \/ Enter(s) \/ Work(s)
       PROVE  Current(s)'
  BY <1>13, <1>2, <1>5, <1>6, <1>7, <1>8, <1>9 DEF Enter, Work
<1> QED
  BY <1>1, <1>10, <1>11, <1>12, <1>13 DEF Next

-----------------------------------------------------------------------------
(* While an upload can still be given up, its temporary file exists. *)

LEMMA TempsStep ==
    ASSUME TypeOK, LockInv, TempsOK, [Next]_vars
    PROVE  TempsOK'
<1> DEFINE Temporary == PutSteps \ {"put_commit"}
<1>1. ASSUME NEW s \in Sessions, PutLock(s)
      PROVE  TempsOK'
  <2>1. CASE temps' = temps + 1
    BY <2>1 DEF TypeOK, TempsOK
  <2>2. CASE Reject(s) /\ temps' = temps
    BY <2>2 DEF TypeOK, TempsOK, Reject, Answer, Goto, PutSteps
  <2> QED
    BY <1>1, <2>1, <2>2 DEF PutLock
<1>2. ASSUME NEW s \in Sessions, Put(s)
      PROVE  TempsOK'
  <2>1. \A t \in Sessions : t # s => pc[t] \notin PutSteps
    BY <1>2, Alone DEF Put, PutReceive, PutAdmit, PutPromote, PutCommit, PutSteps, Locked
  <2>2. \A t \in Sessions : t # s => pc'[t] = pc[t]
    BY <1>2, Others DEF Work
  <2>3. pc'[s] \in Temporary => temps' = temps /\ pc[s] \in Temporary
    BY <1>2 DEF Put, PutReceive, PutAdmit, PutPromote, PutCommit, PutAbort, PutSteps,
                Continue, Ack, Reject, Answer, Goto, TypeOK
  <2> QED
    BY <2>1, <2>2, <2>3 DEF TempsOK
<1>3. ASSUME NEW s \in Sessions,
             Receive(s) \/ DeleteLock(s) \/ ReconcileScan(s) \/ Delete(s) \/ Manifest(s) \/ Get(s)
      PROVE  TempsOK'
  <2>1. temps' = temps
    BY <1>3 DEF Receive, ReceivePut, ReceiveDelete, ReceiveGet, ReceiveManifest, Accept,
                DeleteLock, ReconcileScan, Delete, DeleteRemove, DeleteCommit, Manifest,
                ReconcileCommit, ReconcileDone, ManifestReply, Get, GetCurrent, GetOpen, store
  <2>2. pc'[s] \notin PutSteps \/ pc'[s] = pc[s]
    BY <1>3 DEF Receive, ReceivePut, ReceiveDelete, ReceiveGet, ReceiveManifest, Accept,
                DeleteLock, ReconcileScan, Delete, DeleteRemove, DeleteCommit, Manifest,
                ReconcileCommit, ReconcileDone, ManifestReply, Get, GetCurrent, GetOpen,
                Continue, Ack, Reject, Answer, Goto, TypeOK, PutSteps
  <2>3. \A t \in Sessions : t # s => pc'[t] = pc[t]
    BY <1>3, Others DEF Enter, Work
  <2> QED
    BY <2>1, <2>2, <2>3 DEF TempsOK
<1>4. CASE CloudEdit \/ Crash \/ UNCHANGED vars
  BY <1>4 DEF CloudEdit, Crash, vars, store, TempsOK, PutSteps
<1> QED
  BY <1>1, <1>2, <1>3, <1>4 DEF Next, Enter, Work

-----------------------------------------------------------------------------
(* Every temporary file but that of the running upload was left behind by  *)
(* a crash.                                                                *)

Temporary == PutSteps \ {"put_commit"}
Uploading == \E s \in Sessions : pc[s] \in Temporary

LEMMA TempsBoundedStep ==
    ASSUME TypeOK, LockInv, TempsBounded, [Next]_vars
    PROVE  TempsBounded'
<1>a. temps \in Nat /\ crashes \in Nat
  BY DEF TypeOK
<1>b. (Uploading => temps <= crashes + 1) /\ (~ Uploading => temps <= crashes)
  BY <1>a DEF TempsBounded, Uploading, Temporary
<1>c. ASSUME crashes' \in Nat, temps' <= crashes' + (IF Uploading' THEN 1 ELSE 0)
      PROVE  TempsBounded'
  BY <1>c DEF TempsBounded, Uploading, Temporary
<1>1. ASSUME NEW s \in Sessions, Receive(s) \/ Enter(s) \/ Work(s), crashes' = crashes,
             \/ temps' = temps /\ (pc'[s] \in Temporary <=> pc[s] \in Temporary)
             \/ temps' = temps + 1 /\ lock = NoSession /\ pc'[s] \in Temporary
             \/ temps' = temps - 1 /\ pc[s] \in Temporary /\ pc'[s] \notin Temporary
      PROVE  TempsBounded'
  <2>1. \A t \in Sessions : t # s => pc'[t] = pc[t]
    BY <1>1, Others
  <2>2. CASE temps' = temps /\ (pc'[s] \in Temporary <=> pc[s] \in Temporary)
    <3>1. Uploading' <=> Uploading
      BY <2>1, <2>2 DEF Uploading
    <3> QED
      BY <1>1, <1>a, <1>b, <1>c, <2>2, <3>1
  <2>3. CASE temps' = temps + 1 /\ lock = NoSession /\ pc'[s] \in Temporary
    <3>1. ~ Uploading
      BY <2>3 DEF Uploading, Temporary, LockInv, Locked
    <3>2. Uploading'
      BY <2>3 DEF Uploading
    <3> QED
      BY <1>1, <1>a, <1>b, <1>c, <2>3, <3>1, <3>2
  <2>4. CASE temps' = temps - 1 /\ pc[s] \in Temporary /\ pc'[s] \notin Temporary
    <3>1. Uploading /\ \A t \in Sessions : t # s => pc[t] \notin Temporary
      BY <2>4, Alone DEF Uploading, Temporary, Locked
    <3>2. ~ Uploading'
      BY <2>1, <2>4, <3>1 DEF Uploading
    <3> QED
      BY <1>1, <1>a, <1>b, <1>c, <2>4, <3>1, <3>2
  <2> QED
    BY <1>1, <2>2, <2>3, <2>4
<1> USE DEF Continue, Ack, Reject, Answer, Goto, TypeOK, Temporary, PutSteps
<1>2. ASSUME NEW s \in Sessions, PutLock(s)
      PROVE  TempsBounded'
  <2>1. crashes' = crashes
    BY <1>2 DEF PutLock
  <2>2. CASE temps' = temps /\ Reject(s)
    BY <1>2, <2>1, <2>2, <1>1 DEF PutLock, Waiting, Enter
  <2>3. CASE temps' = temps + 1 /\ Continue(s, "put_receive")
    BY <1>2, <2>1, <2>3, <1>1 DEF PutLock, Free, Enter
  <2> QED
    BY <1>2, <2>2, <2>3 DEF PutLock
<1>3. ASSUME NEW s \in Sessions, Put(s)
      PROVE  TempsBounded'
  <2>1. /\ crashes' = crashes
        /\ \/ temps' = temps /\ (pc'[s] \in Temporary <=> pc[s] \in Temporary)
           \/ temps' = temps - 1 /\ pc[s] \in Temporary /\ pc'[s] \notin Temporary
    BY <1>3 DEF Put, PutReceive, PutAdmit, PutPromote, PutCommit, PutAbort
  <2> QED
    BY <1>3, <2>1, <1>1 DEF Work
<1>4. ASSUME NEW s \in Sessions,
             Receive(s) \/ DeleteLock(s) \/ ReconcileScan(s) \/ Delete(s) \/ Manifest(s) \/ Get(s)
      PROVE  TempsBounded'
  <2>1. /\ crashes' = crashes /\ temps' = temps
        /\ pc'[s] \notin Temporary /\ pc[s] \notin Temporary
    BY <1>4 DEF Receive, ReceivePut, ReceiveDelete, ReceiveGet, ReceiveManifest, Accept,
                DeleteLock, ReconcileScan, Waiting, Delete, DeleteRemove, DeleteCommit,
                Manifest, ReconcileCommit, ReconcileDone, ManifestReply, Get, GetCurrent,
                GetOpen, store
  <2> QED
    BY <1>4, <2>1, <1>1 DEF Enter, Work
<1>5. CASE CloudEdit \/ UNCHANGED vars
  <2>1. UNCHANGED <<temps, crashes, pc>>
    BY <1>5 DEF CloudEdit, vars, store
  <2> QED
    BY <2>1, <1>a, <1>b, <1>c DEF Uploading
<1>6. CASE Crash
  <2>1. temps' = temps /\ crashes' = crashes + 1 /\ ~ Uploading'
    BY <1>6 DEF Crash, Uploading
  <2> QED
    BY <2>1, <1>a, <1>b, <1>c
<1> QED
  BY <1>2, <1>3, <1>4, <1>5, <1>6 DEF Next, Enter, Work

-----------------------------------------------------------------------------
(* What a client can name, and what a deletion acknowledges. *)

Known(s) ==
    /\ req[s].base <= index[req[s].path].rev
    /\ pc[s] \in DeleteSteps => req[s].op = "delete"
    /\ req[s].op = "delete" => req[s].val = Gone

KnownRevisions ==
    /\ \A s \in Sessions : Known(s)
    /\ \A p \in Paths : Version(p, 0, Gone, NoSession) \in history

LEMMA Grows ==
    ASSUME TypeOK, CriticalSection, [Next]_vars
    PROVE  /\ history \subseteq history'
           /\ \A p \in Paths : index[p].rev <= index'[p].rev
<1>1. \A p \in Paths : index[p].rev \in Nat
  BY DEF TypeOK, Rows
<1>2. CASE UNCHANGED <<index, history>>
  BY <1>1, <1>2
<1>3. ASSUME NEW p \in Paths, NEW v \in Values, NEW by \in Sessions \cup {NoSession},
             Publishes(p, v, by)
      PROVE  /\ history \subseteq history'
             /\ \A q \in Paths : index[q].rev <= index'[q].rev
  BY <1>1, <1>3 DEF Publishes, Commit, Row, TypeOK
<1> QED
  BY <1>2, <1>3, IndexStep

LEMMA KnownStep ==
    ASSUME TypeOK, CriticalSection, KnownRevisions, [Next]_vars
    PROVE  KnownRevisions'
<1>a. \A p \in Paths : Version(p, 0, Gone, NoSession) \in history'
  BY Grows DEF KnownRevisions
<1>b. SUFFICES \A s \in Sessions : Known(s)'
  BY <1>a DEF KnownRevisions
<1>1. ASSUME NEW s \in Sessions, req'[s] = req[s],
             pc'[s] = pc[s] \/ pc'[s] \notin DeleteSteps \/ pc[s] \in DeleteSteps
      PROVE  Known(s)'
  <2>1. req[s].path \in Paths /\ req[s].base \in Nat
    BY DEF TypeOK, Requests
  <2>2. /\ index[req[s].path].rev \in Nat
        /\ index'[req[s].path].rev \in Nat
        /\ index[req[s].path].rev <= index'[req[s].path].rev
    <3>1. index' \in [Paths -> Rows] \/ UNCHANGED index
      <4>1. ASSUME NEW p \in Paths, NEW v \in Values,
                   NEW by \in Sessions \cup {NoSession}, Publishes(p, v, by)
            PROVE  index' \in [Paths -> Rows]
        <5>1. index[p].rev + 1 \in Nat
          BY DEF TypeOK, Rows
        <5> QED
          BY <4>1, <5>1, CommitTyped DEF Publishes
      <4> QED
        BY <4>1, IndexStep
    <3> QED
      BY <2>1, <3>1, Grows DEF TypeOK, Rows
  <2> QED
    BY <1>1, <2>1, <2>2 DEF KnownRevisions, Known
<1>2. ASSUME NEW s \in Sessions, req'[s] = NoRequest, pc'[s] = "idle"
      PROVE  Known(s)'
  <2>1. NoRequest.path \in Paths /\ NoRequest.base = 0 /\ NoRequest.op # "delete"
    BY Shapes DEF NoRequest, Request, Requests
  <2>2. index[NoRequest.path].rev \in Nat
    BY <2>1 DEF TypeOK, Rows
  <2>3. 0 <= index'[NoRequest.path].rev
    <3>1. CASE UNCHANGED index
      BY <2>2, <3>1
    <3>2. ASSUME NEW p \in Paths, NEW v \in Values, NEW by \in Sessions \cup {NoSession},
                 Publishes(p, v, by)
          PROVE  index'[NoRequest.path].rev \in Nat
      BY <2>1, <2>2, <3>2 DEF Publishes, Commit, Row, TypeOK
    <3> QED
      BY <3>1, <3>2, IndexStep
  <2> QED
    BY <1>2, <2>1, <2>3 DEF Known, DeleteSteps
<1>3. ASSUME NEW s \in Sessions, Answer(s, reply'[s])
      PROVE  req'[s] = NoRequest /\ pc'[s] = "idle"
  BY <1>3 DEF Answer, Goto, TypeOK
<1>4. ASSUME NEW s \in Sessions, NEW r, Answer(s, r)
      PROVE  Known(s)'
  BY <1>4, <1>2 DEF Answer, Goto, TypeOK
<1>5. ASSUME NEW s \in Sessions, Receive(s)
      PROVE  Known(s)'
  <2>1. ASSUME NEW r, Accept(s, r)
        PROVE  req'[s] = r /\ pc'[s] = "wait" /\ UNCHANGED index
    BY <2>1 DEF Accept, Goto, TypeOK, store
  <2>2. CASE ReceivePut(s)
    BY <2>1, <2>2 DEF ReceivePut, Request, Known, DeleteSteps, TypeOK, Rows
  <2>3. CASE ReceiveDelete(s)
    BY <2>1, <2>3 DEF ReceiveDelete, Request, Known, DeleteSteps, TypeOK, Rows
  <2>4. CASE ReceiveGet(s)
    BY <2>1, <2>4 DEF ReceiveGet, Request, Known, DeleteSteps, TypeOK, Rows
  <2>5. CASE ReceiveManifest(s)
    <3> DEFINE r == [NoRequest EXCEPT !.op = "manifest"]
    <3>1. r.path \in Paths /\ r.base = 0 /\ r.op = "manifest"
      BY Shapes DEF NoRequest, Request, Requests
    <3>2. index[r.path].rev \in Nat
      BY <3>1 DEF TypeOK, Rows
    <3>3. req'[s] = r /\ pc'[s] = "wait" /\ UNCHANGED index
      BY <2>1, <2>5 DEF ReceiveManifest
    <3> QED
      BY <3>1, <3>2, <3>3 DEF Known, DeleteSteps
  <2> QED
    BY <1>5, <2>2, <2>3, <2>4, <2>5 DEF Receive
<1>6. ASSUME NEW s \in Sessions, Enter(s) \/ Work(s)
      PROVE  Known(s)'
  <2>1. CASE \E r : Answer(s, r)
    BY <2>1, <1>4
  <2>2. CASE Enter(s) /\ ~ \E r : Answer(s, r)
    <3>1. /\ req' = req
          /\ \E l \in {"put_receive", "delete_remove", "reconcile", "list"} : Goto(s, l)
          /\ pc'[s] = "delete_remove" => req[s].op = "delete"
      BY <2>2 DEF Enter, PutLock, DeleteLock, ReconcileScan, Waiting, Continue, Reject,
                  Ack, Goto, TypeOK
    <3>2. CASE pc'[s] = "delete_remove"
      <4>1. req[s].op = "delete" /\ UNCHANGED index
        BY <3>1, <3>2, <2>2 DEF Enter, PutLock, DeleteLock, ReconcileScan, store
      <4> QED
        BY <3>1, <4>1 DEF KnownRevisions, Known
    <3>3. CASE pc'[s] \notin DeleteSteps
      BY <3>1, <3>3, <1>1
    <3> QED
      BY <3>1, <3>2, <3>3 DEF DeleteSteps, Goto, TypeOK
  <2>3. CASE Work(s) /\ ~ \E r : Answer(s, r)
    <3>1. req' = req /\ (pc[s] \in DeleteSteps \/ pc'[s] \notin DeleteSteps \/ pc'[s] = pc[s])
      BY <2>3 DEF Work, Put, Delete, Manifest, Get, PutReceive, PutAdmit, PutPromote,
                  PutCommit, PutAbort, DeleteRemove, DeleteCommit, ReconcileCommit,
                  ReconcileDone, ManifestReply, GetCurrent, GetOpen, Continue, Reject,
                  Ack, Goto, TypeOK, DeleteSteps, local
    <3> QED
      BY <3>1, <1>1
  <2> QED
    BY <1>6, <2>1, <2>2, <2>3
<1>7. ASSUME NEW s \in Sessions, Receive(s) \/ Enter(s) \/ Work(s),
             NEW t \in Sessions, t # s
      PROVE  Known(t)'
  BY <1>7, <1>1, Others
<1>8. CASE CloudEdit \/ UNCHANGED vars
  BY <1>8, <1>1 DEF CloudEdit, vars, local
<1>9. CASE Crash
  BY <1>9, <1>2 DEF Crash
<1> QED
  BY <1>5, <1>6, <1>7, <1>8, <1>9 DEF Next

(* An acknowledgement names a version this session, or nobody, published. *)
Honest(s) ==
    reply[s].kind = "ack" =>
        \E by \in {s, NoSession} :
            /\ Version(reply[s].path, reply[s].rev, reply[s].val, by) \in history
            /\ by = NoSession => reply[s].rev = 0

LEMMA AckStep ==
    ASSUME TypeOK, CriticalSection, KnownRevisions, AckIsVersion, [Next]_vars
    PROVE  AckIsVersion'
<1>a. history \subseteq history'
  BY Grows
<1>b. SUFFICES \A s \in Sessions : Honest(s)'
  BY DEF AckIsVersion, Honest
<1>1. ASSUME NEW s \in Sessions, reply'[s] = reply[s]
      PROVE  Honest(s)'
  BY <1>1, <1>a DEF AckIsVersion, Honest
<1>2. ASSUME NEW s \in Sessions, reply'[s].kind # "ack"
      PROVE  Honest(s)'
  BY <1>2 DEF Honest
<1>3. ASSUME NEW s \in Sessions, NEW n, Ack(s, n),
             \/ Version(req[s].path, n, req[s].val, s) \in history'
             \/ n = 0 /\ Version(req[s].path, n, req[s].val, NoSession) \in history'
      PROVE  Honest(s)'
  <2>1. reply'[s] = Reply("ack", req[s].path, n, req[s].val)
    BY <1>3 DEF Ack, Answer, TypeOK
  <2> QED
    BY <1>3, <2>1 DEF Honest, Reply
<1>4. ASSUME NEW s \in Sessions, PutCommit(s) \/ DeleteCommit(s)
      PROVE  Honest(s)'
  <2>1. CASE Reject(s)
    BY <2>1, <1>2 DEF Reject, Answer, Reply, TypeOK
  <2>2. CASE PutCommit(s) /\ Ack(s, row[s].rev + 1)
            /\ Commit(req[s].path, row[s].rev + 1, req[s].val, s)
    BY <2>2, <1>3 DEF Commit
  <2>3. CASE DeleteCommit(s) /\ Ack(s, row[s].rev + 1)
            /\ Commit(req[s].path, row[s].rev + 1, Gone, s)
    <3>1. req[s].val = Gone
      BY <2>3 DEF DeleteCommit, KnownRevisions, Known, DeleteSteps
    <3> QED
      BY <2>3, <3>1, <1>3 DEF Commit
  <2> QED
    BY <1>4, <2>1, <2>2, <2>3 DEF PutCommit, DeleteCommit
<1>5. ASSUME NEW s \in Sessions, DeleteLock(s)
      PROVE  Honest(s)'
  <2>1. CASE Reject(s)
    BY <2>1, <1>2 DEF Reject, Answer, Reply, TypeOK
  <2>2. CASE index[req[s].path].rev = 0 /\ Ack(s, req[s].base)
    <3>1. /\ req[s].op = "delete" /\ req[s].path \in Paths /\ req[s].base \in Nat
      BY <1>5 DEF DeleteLock, Waiting, TypeOK, Requests
    <3>2. req[s].base = 0 /\ req[s].val = Gone
      BY <2>2, <3>1 DEF KnownRevisions, Known
    <3> QED
      BY <2>2, <3>1, <3>2, <1>a, <1>3 DEF KnownRevisions
  <2>3. CASE Continue(s, "delete_remove")
    BY <2>3, <1>1 DEF Continue
  <2> QED
    BY <1>5, <2>1, <2>2, <2>3 DEF DeleteLock
<1>6. ASSUME NEW s \in Sessions, Receive(s)
      PROVE  Honest(s)'
  <2>1. reply'[s] = NoReply
    BY <1>6 DEF Receive, ReceivePut, ReceiveDelete, ReceiveGet, ReceiveManifest, Accept, TypeOK
  <2> QED
    BY <2>1, <1>2 DEF NoReply, Reply
<1>7. ASSUME NEW s \in Sessions, NEW r, Answer(s, r), r.kind # "ack"
      PROVE  Honest(s)'
  BY <1>7, <1>2 DEF Answer, TypeOK
<1>8. ASSUME NEW s \in Sessions,
             \/ PutLock(s) \/ ReconcileScan(s) \/ PutReceive(s) \/ PutAdmit(s)
             \/ PutPromote(s) \/ DeleteRemove(s) \/ Manifest(s) \/ Get(s)
      PROVE  Honest(s)'
  <2>1. reply' = reply \/ \E r : Answer(s, r) /\ r.kind # "ack"
    <3>1. CASE Reject(s)
      BY <3>1 DEF Reject, Reply
    <3>2. CASE ManifestReply(s) /\ Answer(s, [NoReply EXCEPT !.kind = "manifest"])
      BY <3>2 DEF NoReply, Reply
    <3>3. CASE GetOpen(s) /\ Answer(s, Reply("file", req[s].path, row[s].rev, disk[req[s].path]))
      BY <3>3 DEF Reply
    <3> QED
      BY <1>8, <3>1, <3>2, <3>3
         DEF PutLock, ReconcileScan, PutReceive, PutAdmit, PutPromote, PutAbort,
             DeleteRemove, Manifest, ReconcileCommit, ReconcileDone, ManifestReply,
             Get, GetCurrent, GetOpen, Continue
  <2> QED
    BY <2>1, <1>1, <1>7
<1>9. ASSUME NEW s \in Sessions, Receive(s) \/ Enter(s) \/ Work(s),
             NEW t \in Sessions, t # s
      PROVE  Honest(t)'
  BY <1>9, <1>1, Others
<1>10. CASE CloudEdit \/ UNCHANGED vars
  BY <1>10, <1>1 DEF CloudEdit, vars
<1>11. CASE Crash
  BY <1>11, <1>2 DEF Crash, NoReply, Reply
<1> QED
  BY <1>4, <1>5, <1>6, <1>8, <1>9, <1>10, <1>11
     DEF Next, Enter, Work, Put, Delete
-----------------------------------------------------------------------------
(* The inductive invariant and the theorems. *)

IInv == /\ TypeOK /\ TempsOK /\ TempsBounded /\ CriticalSection
        /\ IndexIsNewest /\ CasWinner /\ KnownRevisions /\ AckIsVersion

LEMMA Initially == Init => IInv
<1> SUFFICES ASSUME Init PROVE IInv
  OBVIOUS
<1>1. TypeOK
  BY Shapes DEF Init, TypeOK, Labels, Version, Versions, Values
<1>2. TempsOK /\ TempsBounded /\ CriticalSection
  BY DEF Init, TempsOK, TempsBounded, CriticalSection, LockInv, ReadsAreCurrent, PutSteps, DeleteSteps, Locked
<1>3. IndexIsNewest
  <2>1. \A h \in history : h.path \in Paths /\ h.rev = 0
    BY DEF Init, Version
  <2>2. \A p \in Paths : index[p].rev = 0 /\ index[p].val = Gone
    BY DEF Init, NoRow, Row
  <2>3. ASSUME NEW p \in Paths
        PROVE  \E h \in history : h.path = p /\ h.rev = 0 /\ h.val = Gone
    <3> DEFINE h == Version(p, 0, Gone, NoSession)
    <3>1. h \in history /\ h.path = p /\ h.rev = 0 /\ h.val = Gone
      BY DEF Init, Version
    <3> QED
      BY <3>1
  <2> QED
    BY <2>1, <2>2, <2>3 DEF IndexIsNewest
<1>4. CasWinner
  BY DEF Init, CasWinner, Version
<1>5. KnownRevisions
  <2>1. NoRequest.path \in Paths /\ NoRequest.base = 0 /\ NoRequest.op # "delete"
    BY Shapes DEF NoRequest, Request, Requests
  <2> QED
    BY <2>1 DEF Init, KnownRevisions, Known, NoRow, Row, DeleteSteps
<1>6. AckIsVersion
  BY DEF Init, AckIsVersion, NoReply, Reply
<1> QED
  BY <1>1, <1>2, <1>3, <1>4, <1>5, <1>6 DEF IInv

LEMMA Inductive == IInv /\ [Next]_vars => IInv'
BY TypeStep, TempsStep, TempsBoundedStep, LockPreserved, ReadsStep, NewestStep, CasStep, KnownStep, AckStep
   DEF IInv, CriticalSection

LEMMA Invariance == Spec => []IInv
BY Initially, Inductive, PTL DEF Spec

(* The variables keep their types, for any number of sessions and paths,   *)
(* whatever Claude, failing calls and crashes do.                          *)
THEOREM TypeCorrect == Spec => []TypeOK
BY Invariance, PTL DEF IInv

(* syncserver.go:44, the lock serialises the writers of the project: at    *)
(* most one session is between reading a row and committing it, and what   *)
(* it read is still current when it commits.                               *)
THEOREM Serialised == Spec => []CriticalSection
BY Invariance, PTL DEF IInv

(* Compare-and-swap of HandlePut, HandleDelete and reconcileCloud: no two  *)
(* commits ever produce the same revision of a path.                       *)
THEOREM OneWinner == Spec => []CasWinner
BY Invariance, PTL DEF IInv

(* file_index always holds the newest version of every path. *)
THEOREM NewestIndexed == Spec => []IndexIsNewest
BY Invariance, PTL DEF IInv

(* HandlePut and HandleDelete acknowledge only what has been committed,    *)
(* under the revision and with the content they acknowledge.               *)
THEOREM AckDurable == Spec => []AckIsVersion
BY Invariance, PTL DEF IInv

(* syncserver.go:62, "任何失败都Discard临时文件": an upload that is            *)
(* given up takes its temporary file with it, so that only a crash leaves  *)
(* one, and uploads being serialised at most one per crash.                *)
THEOREM TempsAreDiscarded == Spec => []TempsBounded
BY Invariance, PTL DEF IInv

-----------------------------------------------------------------------------
(* What a manifest answers, while calls do not fail: a reconciliation has  *)
(* recorded what it scanned but for what it still has to do.               *)

Recorded(s, p) ==
    \E h \in history : /\ h.path = p /\ h.val = scan[s][p].val
                       /\ h.rev \in {scan[s][p].rev - 1, scan[s][p].rev}

Recording(s) ==
    pc[s] \in {"reconcile", "list"} => \A p \in Paths : p \in todo[s] \/ Recorded(s, p)

LEMMA RecordingStep ==
    ASSUME ~ Faulty, TypeOK, CriticalSection, IndexIsNewest,
           \A s \in Sessions : Recording(s), [Next]_vars
    PROVE  \A s \in Sessions : Recording(s)'
<1>a. history \subseteq history'
  BY Grows
<1>1. ASSUME NEW s \in Sessions, scan'[s] = scan[s], todo'[s] = todo[s], pc'[s] = pc[s]
      PROVE  Recording(s)'
  BY <1>1, <1>a DEF Recording, Recorded
<1>2. ASSUME NEW s \in Sessions, pc'[s] \notin {"reconcile", "list"}
      PROVE  Recording(s)'
  BY <1>2 DEF Recording
<1>3. ASSUME NEW s \in Sessions, ReconcileScan(s)
      PROVE  Recording(s)'
  <2>1. /\ scan' = [scan EXCEPT ![s] = [p \in Paths |-> Row(index[p].rev + 1, disk[p])]]
        /\ todo' = [todo EXCEPT ![s] = {p \in Paths : Differs(p)}]
    BY <1>3 DEF ReconcileScan
  <2>2. ASSUME NEW p \in Paths, p \notin todo'[s]
        PROVE  Recorded(s, p)'
    <3>1. scan'[s][p].rev = index[p].rev + 1 /\ scan'[s][p].val = disk[p]
      BY <2>1 DEF TypeOK, Row
    <3>2. disk[p] = index[p].val
      BY <2>1, <2>2 DEF TypeOK, Differs
    <3>3. PICK h \in history : h.path = p /\ h.rev = index[p].rev /\ h.val = index[p].val
      BY DEF IndexIsNewest
    <3>4. index[p].rev \in Nat
      BY DEF TypeOK, Rows
    <3> QED
      BY <1>a, <3>1, <3>2, <3>3, <3>4 DEF Recorded
  <2> QED
    BY <2>2 DEF Recording
<1>4. ASSUME NEW s \in Sessions, ReconcileCommit(s)
      PROVE  Recording(s)'
  <2>1. PICK p \in todo[s] :
            /\ Commit(p, scan[s][p].rev, scan[s][p].val, NoSession)
            /\ todo' = [todo EXCEPT ![s] = @ \ {p}]
            /\ pc[s] = "reconcile" /\ UNCHANGED scan
    BY <1>4 DEF ReconcileCommit, CommitFails
  <2>2. Version(p, scan[s][p].rev, scan[s][p].val, NoSession) \in history'
    BY <2>1 DEF Commit
  <2>3. Recorded(s, p)'
    BY <2>1, <2>2 DEF Recorded, Version
  <2>4. \A q \in Paths : Recorded(s, q) => Recorded(s, q)'
    BY <1>a, <2>1 DEF Recorded
  <2> QED
    BY <2>1, <2>3, <2>4 DEF Recording, TypeOK
<1>5. ASSUME NEW s \in Sessions, ReconcileDone(s)
      PROVE  Recording(s)'
  <2>1. UNCHANGED <<scan, todo, history>> /\ pc[s] = "reconcile"
    BY <1>5 DEF ReconcileDone, store, local
  <2> QED
    BY <2>1 DEF Recording, Recorded
<1>6. ASSUME NEW s \in Sessions,
             \/ Receive(s) \/ PutLock(s) \/ DeleteLock(s) \/ Put(s) \/ Delete(s)
             \/ ManifestReply(s) \/ Get(s)
      PROVE  Recording(s)'
  <2>1. pc'[s] \notin {"reconcile", "list"}
    BY <1>6 DEF Receive, ReceivePut, ReceiveDelete, ReceiveGet, ReceiveManifest, Accept,
                PutLock, DeleteLock, Put, PutReceive, PutAdmit, PutPromote, PutCommit,
                PutAbort, Delete, DeleteRemove, DeleteCommit, ManifestReply, Get,
                GetCurrent, GetOpen, Continue, Ack, Reject, Answer, Goto, TypeOK
  <2> QED
    BY <2>1, <1>2
<1>7. ASSUME NEW s \in Sessions, Receive(s) \/ Enter(s) \/ Work(s)
      PROVE  \A t \in Sessions : Recording(t)'
  <2>1. Recording(s)'
    BY <1>3, <1>4, <1>5, <1>6, <1>7 DEF Enter, Work, Manifest
  <2> QED
    BY <1>1, <1>7, <2>1, Others
<1>8. CASE CloudEdit \/ UNCHANGED vars
  BY <1>1, <1>8 DEF CloudEdit, vars, local
<1>9. CASE Crash
  BY <1>2, <1>9 DEF Crash
<1> QED
  BY <1>7, <1>8, <1>9 DEF Next

(* syncserver.go:148, reconcileCloud before Store.Manifest: what a client  *)
(* is told of the project includes everything the scan has found, although *)
(* the table is read after the lock is released.  A commit that fails is   *)
(* skipped by the code, so this holds of a database that does not fail.    *)
THEOREM ManifestIsComplete == Spec /\ ~ Faulty => []ReconcileRecorded
<1> DEFINE I == ~ Faulty /\ IInv /\ \A s \in Sessions : Recording(s)
<1>1. Init /\ ~ Faulty => I
  BY Initially DEF Init, Recording
<1>2. I /\ [Next]_vars => I'
  BY Inductive, RecordingStep DEF IInv
<1>3. I => ReconcileRecorded
  BY DEF IInv, CriticalSection, ReadsAreCurrent, Recording, Recorded, ReconcileRecorded
<1> QED
  BY <1>1, <1>2, <1>3, PTL DEF Spec

-----------------------------------------------------------------------------
(* The directory and the index, as long as only clients write, nothing     *)
(* fails and the worker does not crash: each of these can leave a file     *)
(* that no row describes, which is what reconciliation is for.             *)

Quiet == ~ Faulty /\ CloudEdits = {} /\ MaxCrash = 0

Writing(s) == pc[s] \in {"put_commit", "delete_commit"}

(* What the session between its rename or unlink and its commit has left.  *)
Written(s) ==
    /\ pc[s] = "put_commit" => disk[req[s].path] = req[s].val
    /\ pc[s] = "delete_commit" => disk[req[s].path] = Gone

Agrees(p) == disk[p] = index[p].val \/ \E s \in Sessions : Writing(s) /\ req[s].path = p

(* A reconciliation starts when nobody is writing and finds nothing.       *)
NothingToDo == \A s \in Sessions : todo[s] = {}

NoCloudVersion == \A h \in history : h.by = NoSession => h.rev = 0

QuietInv ==
    /\ \A p \in Paths : Agrees(p)
    /\ \A s \in Sessions : Written(s)
    /\ NothingToDo
    /\ NoCloudVersion

LEMMA QuietStep ==
    ASSUME Quiet, IInv, QuietInv, [Next]_vars
    PROVE  QuietInv'
<1> USE DEF Quiet, IInv, TypeOK
<1>a. \A s \in Sessions : req[s].path \in Paths /\ req[s].val \in Values
  BY DEF Requests
<1>1. ASSUME NEW s \in Sessions, Receive(s) \/ Enter(s) \/ Work(s),
             UNCHANGED <<disk, index, history>>,
             pc'[s] \notin {"put_commit", "delete_commit"}, pc[s] \notin {"put_commit", "delete_commit"},
             todo'[s] = {}
      PROVE  QuietInv'
  <2>1. \A t \in Sessions : /\ Writing(t) = Writing(t)'
                            /\ Writing(t) => pc'[t] = pc[t] /\ req'[t] = req[t]
    BY <1>1, Others DEF Writing
  <2>2. \A p \in Paths : Agrees(p)'
    BY <1>1, <2>1 DEF QuietInv, Agrees
  <2>3. \A t \in Sessions : Written(t)'
    BY <1>1, <2>1 DEF QuietInv, Written, Writing
  <2>4. NothingToDo' /\ NoCloudVersion'
    BY <1>1, Others DEF QuietInv, NothingToDo, NoCloudVersion
  <2> QED
    BY <2>2, <2>3, <2>4 DEF QuietInv
<1>2. ASSUME NEW s \in Sessions, Receive(s) \/ Enter(s) \/ Get(s)
      PROVE  QuietInv'
  <2>1. CASE ReconcileScan(s)
    <3>1. \A p \in Paths : disk[p] = index[p].val
      <4>1. lock = NoSession
        BY <2>1 DEF ReconcileScan, Free
      <4>2. \A t \in Sessions : pc[t] \notin Locked
        BY <4>1 DEF CriticalSection, LockInv
      <4>3. \A t \in Sessions : ~ Writing(t)
        BY <4>2 DEF Writing, Locked, PutSteps, DeleteSteps
      <4> QED
        BY <4>3 DEF QuietInv, Agrees
    <3>2. /\ todo' = [todo EXCEPT ![s] = {p \in Paths : Differs(p)}]
          /\ Goto(s, "reconcile") /\ pc[s] = "wait"
          /\ UNCHANGED <<disk, index, history>>
      BY <2>1 DEF ReconcileScan, Waiting, Continue, store
    <3>3. todo'[s] = {}
      BY <3>1, <3>2 DEF Differs
    <3> QED
      BY <1>1, <2>1, <3>2, <3>3 DEF Enter, Goto
  <2>2. CASE Receive(s) \/ PutLock(s) \/ DeleteLock(s) \/ Get(s)
    <3>1. /\ UNCHANGED <<disk, index, history>>
          /\ pc'[s] \notin {"put_commit", "delete_commit"}
          /\ pc[s] \notin {"put_commit", "delete_commit"}
          /\ todo'[s] = {} \/ todo'[s] = todo[s]
      BY <2>2 DEF Receive, ReceivePut, ReceiveDelete, ReceiveGet, ReceiveManifest, Accept,
                  PutLock, DeleteLock, Waiting, Get, GetCurrent, GetOpen, Continue, Ack,
                  Reject, Answer, Goto, store
    <3> QED
      BY <1>1, <1>2, <3>1 DEF Work, QuietInv, NothingToDo
  <2> QED
    BY <1>2, <2>1, <2>2 DEF Enter
<1>3. ASSUME NEW s \in Sessions, PutReceive(s) \/ PutAdmit(s) \/ ReconcileDone(s) \/ ManifestReply(s)
      PROVE  QuietInv'
  <2>1. /\ UNCHANGED <<disk, index, history>>
        /\ pc'[s] \notin {"put_commit", "delete_commit"}
        /\ pc[s] \notin {"put_commit", "delete_commit"}
        /\ todo'[s] = {} \/ todo'[s] = todo[s]
    BY <1>3 DEF PutReceive, PutAdmit, PutAbort, ReconcileDone, ManifestReply, Continue,
                Reject, Answer, Goto, store, local
  <2> QED
    BY <1>1, <1>3, <2>1 DEF Work, Put, Manifest, QuietInv, NothingToDo
<1>4. ASSUME NEW s \in Sessions, ReconcileCommit(s)
      PROVE  QuietInv'
  BY <1>4 DEF ReconcileCommit, QuietInv, NothingToDo
<1>5. ASSUME NEW s \in Sessions, PutPromote(s) \/ DeleteRemove(s)
      PROVE  QuietInv'
  <2> DEFINE p == req[s].path
             v == IF pc[s] = "put_promote" THEN req[s].val ELSE Gone
  <2>1. /\ disk' = [disk EXCEPT ![p] = v]
        /\ UNCHANGED <<index, history, req, todo>>
        /\ pc[s] \in {"put_promote", "delete_remove"}
        /\ pc'[s] = IF pc[s] = "put_promote" THEN "put_commit" ELSE "delete_commit"
    BY <1>5 DEF PutPromote, DeleteRemove, Continue, Goto, local
  <2>2. \A t \in Sessions : t # s => pc'[t] = pc[t] /\ ~ Writing(t)
    <3>1. pc[s] \in Locked
      BY <2>1 DEF Locked, PutSteps, DeleteSteps
    <3>2. \A t \in Sessions : t # s => pc'[t] = pc[t] /\ pc[t] \notin Locked
      BY <1>5, <3>1, Others, Alone DEF Work, Put, Delete, CriticalSection
    <3> QED
      BY <3>2 DEF Writing, Locked, PutSteps, DeleteSteps
  <2>3. ASSUME NEW q \in Paths
        PROVE  Agrees(q)'
    <3>1. CASE q = p
      BY <2>1, <3>1 DEF Agrees, Writing
    <3>2. CASE q # p
      <4>1. disk[q] = index[q].val
        BY <2>1, <2>2 DEF QuietInv, Agrees, Writing
      <4> QED
        BY <2>1, <3>2, <4>1 DEF Agrees
    <3> QED
      BY <3>1, <3>2
  <2>4. \A t \in Sessions : Written(t)'
    BY <1>a, <2>1, <2>2 DEF Written, Writing
  <2>5. NothingToDo' /\ NoCloudVersion'
    BY <2>1 DEF QuietInv, NothingToDo, NoCloudVersion
  <2> QED
    BY <2>3, <2>4, <2>5 DEF QuietInv
<1>6. ASSUME NEW s \in Sessions, PutCommit(s) \/ DeleteCommit(s)
      PROVE  QuietInv'
  <2> DEFINE p == req[s].path
             n == row[s].rev + 1
             v == IF pc[s] = "put_commit" THEN req[s].val ELSE Gone
  <2>1. /\ Commit(p, n, v, s) /\ Answer(s, reply'[s])
        /\ UNCHANGED disk
        /\ pc[s] \in {"put_commit", "delete_commit"}
    BY <1>6 DEF PutCommit, DeleteCommit, CommitFails, Ack, Answer
  <2>2. \A t \in Sessions : t # s => pc'[t] = pc[t] /\ ~ Writing(t) /\ todo'[t] = todo[t]
    <3>1. pc[s] \in Locked
      BY <2>1 DEF Locked, PutSteps, DeleteSteps
    <3>2. \A t \in Sessions : t # s => /\ pc'[t] = pc[t] /\ pc[t] \notin Locked
                                       /\ todo'[t] = todo[t]
      BY <1>6, <3>1, Others, Alone DEF Work, Put, Delete, CriticalSection
    <3> QED
      BY <3>2 DEF Writing, Locked, PutSteps, DeleteSteps
  <2>3. pc'[s] = "idle" /\ todo'[s] = {}
    BY <2>1 DEF Answer, Goto
  <2>4. ASSUME NEW q \in Paths
        PROVE  Agrees(q)'
    <3>1. CASE q = p
      <4>1. index'[p].val = v
        BY <1>a, <2>1 DEF Commit, Row
      <4>2. disk[p] = v
        BY <2>1 DEF QuietInv, Written
      <4> QED
        BY <2>1, <3>1, <4>1, <4>2 DEF Agrees
    <3>2. CASE q # p
      <4>1. disk[q] = index[q].val
        BY <2>2, <3>2 DEF QuietInv, Agrees
      <4>2. index'[q] = index[q]
        BY <2>1, <3>2 DEF Commit
      <4> QED
        BY <2>1, <4>1, <4>2 DEF Agrees
    <3> QED
      BY <3>1, <3>2
  <2>5. \A t \in Sessions : Written(t)'
    BY <2>2, <2>3 DEF Written, Writing
  <2>6. NothingToDo'
    BY <2>2, <2>3 DEF QuietInv, NothingToDo
  <2>7. NoCloudVersion'
    BY <2>1 DEF QuietInv, NoCloudVersion, Commit, Version
  <2> QED
    BY <2>4, <2>5, <2>6, <2>7 DEF QuietInv
<1>7. ~ CloudEdit /\ ~ Crash
  BY DEF CloudEdit, Crash
<1>8. CASE UNCHANGED vars
  BY <1>8 DEF vars, store, local, QuietInv, Agrees, Written, Writing, NothingToDo,
              NoCloudVersion
<1> QED
  BY <1>2, <1>3, <1>4, <1>5, <1>6, <1>7, <1>8 DEF Next, Work, Put, Delete, Manifest

LEMMA Quietly == Spec /\ Quiet => [](IInv /\ Quiet /\ QuietInv)
<1> DEFINE I == IInv /\ Quiet /\ QuietInv
<1>1. Init /\ Quiet => I
  <2> SUFFICES ASSUME Init PROVE QuietInv
    BY Initially
  <2>1. (\A p \in Paths : Agrees(p)) /\ (\A s \in Sessions : Written(s)) /\ NothingToDo
    BY DEF Init, Agrees, Written, NothingToDo, NoRow, Row
  <2>2. NoCloudVersion
    BY DEF Init, NoCloudVersion, Version
  <2> QED
    BY <2>1, <2>2 DEF QuietInv
<1>2. I /\ [Next]_vars => I'
  BY Inductive, QuietStep DEF Quiet
<1> QED
  BY <1>1, <1>2, PTL DEF Spec

(* syncserver.go:154, "客户端刚put的文件sha与索引一致会被跳过，不会重复入账":     *)
(* the directory differs from the index only where the holder of the lock  *)
(* is between its rename or unlink and its commit, and a reconciliation    *)
(* never runs at that time.                                                *)
THEOREM NothingInvented == Spec /\ Quiet => []NoFalseCloudVersion
<1>1. IInv /\ Quiet /\ QuietInv => NoFalseCloudVersion
  BY DEF QuietInv, Agrees, Writing, NoCloudVersion, NoFalseCloudVersion
<1> QED
  BY <1>1, Quietly, PTL

-----------------------------------------------------------------------------
(* HandleGet: a file is of the revision sent with it, or newer, or it is   *)
(* that of an upload that is being committed.                              *)

NotStale(r) ==
    \/ \E h \in history : h.path = r.path /\ h.val = r.val /\ h.rev >= r.rev
    \/ \E t \in Sessions : /\ pc[t] = "put_commit"
                           /\ req[t].path = r.path /\ req[t].val = r.val

Opening(s) == pc[s] = "open" => row[s].rev <= index[req[s].path].rev
Sent(s) == reply[s].kind = "file" =>
               reply[s].rev <= index[reply[s].path].rev /\ NotStale(reply[s])

GetInv == \A s \in Sessions : Opening(s) /\ Sent(s)

LEMMA Typed == ASSUME IInv, [Next]_vars PROVE TypeOK /\ TypeOK'
BY Inductive DEF IInv

LEMMA StaysFresh ==
    ASSUME Quiet, IInv, [Next]_vars, NEW r \in Replies,
           r.rev <= index[r.path].rev, NotStale(r)
    PROVE  r.rev <= index'[r.path].rev /\ NotStale(r)'
<1> USE DEF Quiet, IInv
<1>a. /\ history \subseteq history'
      /\ \A p \in Paths : index[p].rev <= index'[p].rev
      /\ \A p \in Paths : index[p].rev \in Nat /\ index'[p].rev \in Nat
  <2>1. \A p \in Paths : index[p].rev \in Nat /\ index'[p].rev \in Nat
    BY Typed DEF TypeOK, Rows
  <2> QED
    BY <2>1, Grows
<1>b. r.path \in Paths /\ r.rev \in Nat
  BY DEF Replies
<1>1. r.rev <= index'[r.path].rev
  BY <1>a, <1>b
<1>2. CASE \E h \in history : h.path = r.path /\ h.val = r.val /\ h.rev >= r.rev
  BY <1>a, <1>1, <1>2 DEF NotStale
<1>3. ASSUME NEW t \in Sessions, pc[t] = "put_commit",
             req[t].path = r.path, req[t].val = r.val
      PROVE  NotStale(r)'
  <2>1. CASE pc'[t] = pc[t] /\ req'[t] = req[t]
    BY <1>3, <2>1 DEF NotStale
  <2>2. CASE PutCommit(t)
    <3>1. Commit(r.path, row[t].rev + 1, r.val, t)
      BY <1>3, <2>2 DEF PutCommit, CommitFails
    <3>2. row[t] = index[r.path]
      BY <1>3 DEF CriticalSection, ReadsAreCurrent, PutSteps
    <3>3. Version(r.path, index[r.path].rev + 1, r.val, t) \in history'
      BY <3>1, <3>2 DEF Commit
    <3>4. index[r.path].rev + 1 >= r.rev
      BY <1>a, <1>b
    <3> QED
      BY <3>3, <3>4 DEF NotStale, Version
  <2>3. CASE \E s \in Sessions : Receive(s) \/ Enter(s) \/ Work(s)
    <3>1. PICK s \in Sessions : Receive(s) \/ Enter(s) \/ Work(s)
      BY <2>3
    <3>2. CASE s # t
      BY <3>1, <3>2, <2>1, Others
    <3>3. CASE s = t
      <4>1. PutCommit(t)
        BY <1>3, <3>1, <3>3
           DEF Receive, ReceivePut, ReceiveDelete, ReceiveGet, ReceiveManifest, Accept,
               Enter, PutLock, DeleteLock, ReconcileScan, Waiting, Work, Put, PutReceive,
               PutAdmit, PutPromote, Delete, DeleteRemove, DeleteCommit, Manifest,
               ReconcileCommit, ReconcileDone, ManifestReply, Get, GetCurrent, GetOpen
      <4> QED
        BY <4>1, <2>2
    <3> QED
      BY <3>2, <3>3
  <2>4. ~ CloudEdit /\ ~ Crash
    BY DEF CloudEdit, Crash, TypeOK
  <2>5. CASE UNCHANGED vars
    BY <2>1, <2>5 DEF vars, local
  <2> QED
    BY <2>3, <2>4, <2>5 DEF Next
<1> QED
  BY <1>1, <1>2, <1>3 DEF NotStale

LEMMA GetStep ==
    ASSUME Quiet, IInv, QuietInv, GetInv, [Next]_vars
    PROVE  GetInv'
<1> USE DEF IInv
<1>a. /\ \A p \in Paths : /\ index[p].rev \in Nat /\ index'[p].rev \in Nat
                          /\ index[p].rev <= index'[p].rev
      /\ \A s \in Sessions : /\ req[s].path \in Paths /\ row[s].rev \in Nat
                             /\ reply[s] \in Replies
  <2>1. \A p \in Paths : index[p].rev \in Nat /\ index'[p].rev \in Nat
    BY Typed DEF TypeOK, Rows
  <2>2. \A s \in Sessions : req[s].path \in Paths /\ row[s].rev \in Nat /\ reply[s] \in Replies
    BY DEF TypeOK, Requests, Rows
  <2> QED
    BY <2>1, <2>2, Grows
<1>1. ASSUME NEW s \in Sessions, \/ pc'[s] # "open"
                               \/ UNCHANGED <<pc[s], req[s], row[s]>>
      PROVE  Opening(s)'
  BY <1>1, <1>a DEF GetInv, Opening
<1>2. ASSUME NEW s \in Sessions, reply'[s].kind # "file" \/ reply'[s] = reply[s]
      PROVE  Sent(s)'
  <2>1. CASE reply'[s].kind # "file"
    BY <2>1 DEF Sent
  <2>2. CASE reply'[s] = reply[s] /\ reply[s].kind = "file"
    <3>1. PICK r \in Replies : r = reply[s]
      BY <1>a
    <3>2. r.rev <= index[r.path].rev /\ NotStale(r)
      BY <2>2, <3>1 DEF GetInv, Sent
    <3>3. r.rev <= index'[r.path].rev /\ NotStale(r)'
      BY <3>2, StaysFresh
    <3> QED
      BY <2>2, <3>1, <3>3 DEF Sent, NotStale
  <2> QED
    BY <1>2, <2>1, <2>2
<1>3. ASSUME NEW s \in Sessions, GetCurrent(s)
      PROVE  Opening(s)' /\ Sent(s)'
  <2>1. CASE Reject(s)
    BY <2>1, <1>1, <1>2 DEF Reject, Answer, Goto, Reply, TypeOK
  <2>2. CASE row' = [row EXCEPT ![s] = index[req[s].path]] /\ UNCHANGED <<index, req, reply>>
    <3>1. row'[s] = index'[req'[s].path] /\ row'[s].rev \in Nat
      BY <1>a, <2>2 DEF TypeOK
    <3>2. Opening(s)'
      BY <3>1 DEF Opening
    <3> QED
      BY <2>2, <3>2, <1>2
  <2> QED
    BY <1>3, <2>1, <2>2 DEF GetCurrent, Continue, store
<1>4. ASSUME NEW s \in Sessions, GetOpen(s)
      PROVE  Opening(s)' /\ Sent(s)'
  <2>1. CASE Reject(s)
    BY <2>1, <1>1, <1>2 DEF Reject, Answer, Goto, Reply, TypeOK
  <2>2. CASE /\ disk[req[s].path] # Gone
             /\ Answer(s, Reply("file", req[s].path, row[s].rev, disk[req[s].path]))
    <3>0. PICK p \in Paths, r \in Replies :
             p = req[s].path /\ r = Reply("file", p, row[s].rev, disk[p])
      BY <1>a DEF Reply, Replies, TypeOK
    <3>1. pc[s] = "open" /\ UNCHANGED <<index, history>>
      BY <1>4 DEF GetOpen, store
    <3>2. row[s].rev <= index[p].rev
      BY <3>0, <3>1 DEF GetInv, Opening
    <3>3. r.path = p /\ r.rev = row[s].rev /\ r.val = disk[p]
      BY <3>0 DEF Reply
    <3>4. reply'[s] = r /\ pc'[s] = "idle" /\ \A t \in Sessions : t # s =>
             pc'[t] = pc[t] /\ req'[t] = req[t]
      BY <2>2, <3>0 DEF Answer, Goto, TypeOK
    <3>5. NotStale(r)'
      <4>1. CASE disk[p] = index[p].val
        <5>1. PICK h \in history : h.path = p /\ h.rev = index[p].rev /\ h.val = index[p].val
          BY <1>a DEF IndexIsNewest
        <5> QED
          BY <1>a, <3>1, <3>2, <3>3, <4>1, <5>1 DEF NotStale
      <4>2. ASSUME NEW t \in Sessions, Writing(t), req[t].path = p
            PROVE  NotStale(r)'
        <5>1. pc[t] = "put_commit" /\ req[t].val = disk[p]
          BY <2>2, <3>0, <4>2 DEF QuietInv, Written, Writing
        <5>2. t # s
          BY <3>1, <5>1
        <5> QED
          BY <3>3, <3>4, <4>2, <5>1, <5>2 DEF NotStale
      <4> QED
        BY <1>a, <4>1, <4>2 DEF QuietInv, Agrees
    <3>6. Sent(s)'
      BY <3>1, <3>2, <3>3, <3>4, <3>5 DEF Sent, NotStale
    <3> QED
      BY <3>4, <3>6, <1>1
  <2> QED
    BY <1>4, <2>1, <2>2 DEF GetOpen
<1>5. ASSUME NEW s \in Sessions, Receive(s) \/ Enter(s) \/ Put(s) \/ Delete(s) \/ Manifest(s)
      PROVE  Opening(s)' /\ Sent(s)'
  <2>1. pc'[s] # "open"
    BY <1>5 DEF Receive, ReceivePut, ReceiveDelete, ReceiveGet, ReceiveManifest, Accept,
                Enter, PutLock, DeleteLock, ReconcileScan, Put, PutReceive, PutAdmit,
                PutPromote, PutCommit, PutAbort, Delete, DeleteRemove, DeleteCommit,
                Manifest, ReconcileCommit, ReconcileDone, ManifestReply, Continue, Ack,
                Reject, Answer, Goto, TypeOK
  <2>2. reply'[s] = reply[s] \/ reply'[s].kind # "file"
    <3>1. \/ reply'[s] = reply[s] \/ reply'[s] = NoReply
          \/ Reject(s) \/ \E n : Ack(s, n)
          \/ Answer(s, [NoReply EXCEPT !.kind = "manifest"])
      BY <1>5 DEF Receive, ReceivePut, ReceiveDelete, ReceiveGet, ReceiveManifest, Accept,
                  Enter, PutLock, DeleteLock, ReconcileScan, Put, PutReceive, PutAdmit,
                  PutPromote, PutCommit, PutAbort, Delete, DeleteRemove, DeleteCommit,
                  Manifest, ReconcileCommit, ReconcileDone, ManifestReply, Continue, TypeOK
    <3>2. NoReply.kind # "file" /\ [NoReply EXCEPT !.kind = "manifest"].kind # "file"
      BY DEF NoReply, Reply
    <3>3. ASSUME NEW r, Answer(s, r)
          PROVE  reply'[s] = r
      BY <3>3 DEF Answer, TypeOK
    <3>4. CASE Reject(s) \/ \E n : Ack(s, n)
      <4>1. Reject(s) => reply'[s].kind = "reject"
        BY <3>3 DEF Reject, Reply
      <4>2. ASSUME NEW n, Ack(s, n)
            PROVE  reply'[s].kind = "ack"
        BY <3>3, <4>2 DEF Ack, Reply
      <4> QED
        BY <3>4, <4>1, <4>2
    <3>5. CASE Answer(s, [NoReply EXCEPT !.kind = "manifest"])
      BY <3>2, <3>3, <3>5
    <3> QED
      BY <3>1, <3>2, <3>4, <3>5
  <2> QED
    BY <2>1, <2>2, <1>1, <1>2
<1>6. ASSUME NEW s \in Sessions, Receive(s) \/ Enter(s) \/ Work(s)
      PROVE  GetInv'
  <2>1. Opening(s)' /\ Sent(s)'
    BY <1>3, <1>4, <1>5, <1>6 DEF Work, Get
  <2>2. ASSUME NEW t \in Sessions, t # s
        PROVE  Opening(t)' /\ Sent(t)'
    BY <1>6, <2>2, <1>1, <1>2, Others
  <2> QED
    BY <2>1, <2>2 DEF GetInv
<1>7. ~ CloudEdit /\ ~ Crash
  BY DEF CloudEdit, Crash, TypeOK, Quiet
<1>8. CASE UNCHANGED vars
  BY <1>8, <1>1, <1>2 DEF vars, local, GetInv
<1> QED
  BY <1>6, <1>7, <1>8 DEF Next

(* syncserver.go:190, HandleGet reads the row and then opens the file, and *)
(* takes no lock: a client is never given old bytes under a new revision,  *)
(* however the get interleaves with uploads and deletions.                 *)
THEOREM GetsAreFresh == Spec /\ Quiet => []GetNotStale
<1>1. Init => GetInv
  BY DEF Init, GetInv, Opening, Sent, NoReply, Reply
<1>2. (IInv /\ Quiet /\ QuietInv) /\ GetInv /\ [Next]_vars => GetInv'
  BY GetStep
<1>3. GetInv => GetNotStale
  BY DEF GetInv, Sent, NotStale, GetNotStale
<1> QED
  BY <1>1, <1>2, <1>3, Quietly, PTL DEF Spec

-----------------------------------------------------------------------------
(* The worker implements RevisionStore. *)

VersionsOf(p) == {Row(h.rev, h.val) : h \in {g \in history : g.path = p}}

LEMMA PromiseInit == Init => Promise!Init
<1> SUFFICES ASSUME Init PROVE Promise!Init
  OBVIOUS
<1>1. index = [p \in Paths |-> Promise!Never]
  BY DEF Init, NoRow, Row, Promise!Never
<1>2. ASSUME NEW p \in Paths
      PROVE  VersionsOf(p) = {Promise!Never}
  <2>1. {g \in history : g.path = p} = {Version(p, 0, Gone, NoSession)}
    BY DEF Init, Version
  <2>2. Row(Version(p, 0, Gone, NoSession).rev, Version(p, 0, Gone, NoSession).val)
            = Promise!Never
    BY DEF Version, Row, Promise!Never
  <2> QED
    BY <2>1, <2>2 DEF VersionsOf
<1> QED
  BY <1>1, <1>2 DEF Promise!Init, VersionsOf

LEMMA PromiseStep ==
    ASSUME IInv, [Next]_vars
    PROVE  [Promise!Next]_<<index, [p \in Paths |-> VersionsOf(p)]>>
<1>1. CASE UNCHANGED <<index, history>>
  BY <1>1 DEF VersionsOf
<1>2. ASSUME NEW p \in Paths, NEW v \in Values, NEW by \in Sessions \cup {NoSession},
             Publishes(p, v, by)
      PROVE  Promise!Next
  <2> DEFINE n == index[p].rev
             new == Version(p, n + 1, v, by)
  <2>1. index' = [index EXCEPT ![p] = [rev |-> n + 1, val |-> v]] /\ history' = history \cup {new}
    BY <1>2 DEF Publishes, Commit, Row
  <2>2. new.path = p /\ Row(new.rev, new.val) = [rev |-> n + 1, val |-> v]
    BY DEF Version, Row
  <2>3. VersionsOf(p)' = VersionsOf(p) \cup {[rev |-> n + 1, val |-> v]}
    BY <2>1, <2>2 DEF VersionsOf
  <2>4. \A q \in Paths : q # p => VersionsOf(q)' = VersionsOf(q)
    BY <2>1, <2>2 DEF VersionsOf
  <2> HIDE DEF new
  <2>5. [q \in Paths |-> VersionsOf(q)]' =
            [[q \in Paths |-> VersionsOf(q)] EXCEPT ![p] = @ \cup {[rev |-> n + 1, val |-> v]}]
    BY <2>3, <2>4
  <2>6. Promise!Publish(p, n, v)
    BY <2>1, <2>5 DEF Promise!Publish, VersionsOf
  <2>7. v \in Promise!Values
    BY DEF Values, Promise!Values
  <2> QED
    BY <2>6, <2>7 DEF Promise!Next
<1> QED
  BY <1>1, <1>2, IndexStep DEF IInv

(* What a client sees of the worker is a line of versions per path without *)
(* gaps, repetitions or rewriting: every step publishes one version on top *)
(* of the newest one, or nothing.                                          *)
THEOREM Implements == Spec => Refinement
<1>1. IInv /\ [Next]_vars => [Promise!Next]_<<index, [p \in Paths |-> VersionsOf(p)]>>
  BY PromiseStep
<1> QED
  BY <1>1, PromiseInit, Invariance, PTL DEF Spec, Refinement, Promise!Spec, VersionsOf
=============================================================================
