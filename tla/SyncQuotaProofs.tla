--------------------------- MODULE SyncQuotaProofs ---------------------------
(***************************************************************************)
(* What the quota of SyncServer comes to, for any number of sessions and   *)
(* paths: proofs about the sum TotalSize takes over the rows, and that the *)
(* size which was admitted is the size that is committed.                  *)
(***************************************************************************)
EXTENDS SyncServerProofs, FiniteSetTheorems

(* Induction by a smallest counterexample. *)
LEMMA Smallest ==
    ASSUME NEW S \in SUBSET Nat, S # {}
    PROVE  \E m \in S : \A n \in S : m <= n
<1>1. \E m \in S : \A n \in S : ~ (<<n, m>> \in OpToRel(<, Nat))
  BY WFMin, NatLessThanWellFounded
<1>2. ASSUME NEW m \in Nat, NEW n \in Nat, n < m
      PROVE  <<n, m>> \in OpToRel(<, Nat)
  <2>1. <<n, m>> \in Nat \X Nat /\ <<n, m>>[1] < <<n, m>>[2]
    BY <1>2
  <2> QED
    BY <2>1, Zenon DEF OpToRel
<1>3. PICK m \in S : \A n \in S : ~ (<<n, m>> \in OpToRel(<, Nat))
  BY <1>1
<1>4. \A n \in S : ~ (n < m)
  BY <1>2, <1>3
<1> QED
  BY <1>4

-----------------------------------------------------------------------------
(* Sums over the subsets of a finite set U.  g is such a sum of the        *)
(* weights w if it takes one element after the other, as MapThenSumSet     *)
(* does.                                                                   *)

Some(s) == CHOOSE x \in s : TRUE

Sums(w, D, g) ==
    g = [s \in D |-> IF s = {} THEN 0 ELSE w[Some(s)] + g[s \ {Some(s)}]]

UpTo(U, n) == {s \in SUBSET U : Cardinality(s) <= n}

LEMMA Smaller ==
    ASSUME NEW U, IsFiniteSet(U), NEW s \in SUBSET U
    PROVE  /\ Cardinality(s) \in Nat
           /\ s = {} <=> Cardinality(s) = 0
           /\ s # {} => /\ Some(s) \in s /\ s \ {Some(s)} \in SUBSET U
                        /\ Cardinality(s \ {Some(s)}) = Cardinality(s) - 1
<1>1. IsFiniteSet(s)
  BY FS_Subset
<1>2. s # {} => Some(s) \in s
  BY DEF Some
<1> QED
  BY <1>1, <1>2, FS_CardinalityType, FS_EmptySet, FS_RemoveElement

LEMMA SumsUpTo ==
    ASSUME NEW U, IsFiniteSet(U), NEW w, NEW n \in Nat
    PROVE  \E g : Sums(w, UpTo(U, n), g)
<1> DEFINE Bad == {k \in Nat : ~ \E g : Sums(w, UpTo(U, k), g)}
<1>1. ASSUME NEW k \in Nat, \E g : Sums(w, UpTo(U, k), g)
      PROVE  \E g : Sums(w, UpTo(U, k + 1), g)
  <2>1. PICK g : Sums(w, UpTo(U, k), g)
    BY <1>1
  <2> DEFINE Term(s) == IF s = {} THEN 0 ELSE w[Some(s)] + g[s \ {Some(s)}]
             h == [s \in UpTo(U, k + 1) |-> Term(s)]
  <2>2. ASSUME NEW s \in UpTo(U, k)
        PROVE  g[s] = h[s]
    <3>1. s \in UpTo(U, k + 1)
      <4>1. s \in SUBSET U /\ Cardinality(s) <= k
        BY DEF UpTo
      <4>2. Cardinality(s) \in Nat
        BY <4>1, Smaller
      <4> QED
        BY <4>1, <4>2 DEF UpTo
    <3> QED
      BY <2>1, <3>1 DEF Sums
  <2>3. ASSUME NEW s \in UpTo(U, k + 1), s # {}
        PROVE  s \ {Some(s)} \in UpTo(U, k)
    BY <2>3, Smaller DEF UpTo
  <2>4. \A s \in UpTo(U, k + 1) :
            Term(s) = IF s = {} THEN 0 ELSE w[Some(s)] + h[s \ {Some(s)}]
    BY <2>2, <2>3
  <2> QED
    BY <2>4 DEF Sums
<1>2. \E g : Sums(w, UpTo(U, 0), g)
  <2> DEFINE h == [s \in UpTo(U, 0) |-> 0]
  <2>1. ASSUME NEW s \in UpTo(U, 0)
        PROVE  s = {}
    <3>1. s \in SUBSET U /\ Cardinality(s) <= 0
      BY DEF UpTo
    <3>2. Cardinality(s) \in Nat /\ (s = {} <=> Cardinality(s) = 0)
      BY <3>1, Smaller
    <3> QED
      BY <3>1, <3>2
  <2> QED
    BY <2>1 DEF Sums
<1>3. SUFFICES ASSUME Bad # {} PROVE FALSE
  OBVIOUS
<1>4. PICK m \in Bad : \A k \in Bad : m <= k
  BY <1>3, Smallest
<1>5. m # 0 /\ m - 1 \in Nat /\ m - 1 \notin Bad
  BY <1>2, <1>4
<1> QED
  BY <1>1, <1>4, <1>5

LEMMA SumsExist ==
    ASSUME NEW U, IsFiniteSet(U), NEW w
    PROVE  \E g : Sums(w, SUBSET U, g)
<1>1. Cardinality(U) \in Nat /\ UpTo(U, Cardinality(U)) = SUBSET U
  BY FS_CardinalityType, FS_Subset DEF UpTo
<1> QED
  BY <1>1, SumsUpTo

(* Such a sum is a number, and a weight that changes changes it by as much *)
(* and nothing else.                                                       *)
LEMMA SumIsNat ==
    ASSUME NEW U, IsFiniteSet(U), NEW w \in [U -> Nat], NEW g, Sums(w, SUBSET U, g),
           NEW s \in SUBSET U
    PROVE  g[s] \in Nat
<1> DEFINE Bad == {n \in Nat : \E t \in SUBSET U : Cardinality(t) = n /\ g[t] \notin Nat}
<1>1. SUFFICES ASSUME Bad # {} PROVE FALSE
  BY Smaller
<1>2. PICK m \in Bad : \A k \in Bad : m <= k
  BY <1>1, Smallest
<1>3. PICK t \in SUBSET U : Cardinality(t) = m /\ g[t] \notin Nat
  BY <1>2
<1>4. g[t] = IF t = {} THEN 0 ELSE w[Some(t)] + g[t \ {Some(t)}]
  BY DEF Sums
<1>5. t # {}
  BY <1>3, <1>4
<1>6. /\ Some(t) \in U /\ t \ {Some(t)} \in SUBSET U
      /\ Cardinality(t \ {Some(t)}) = m - 1 /\ m - 1 \in Nat
  BY <1>3, <1>5, Smaller
<1>7. g[t \ {Some(t)}] \in Nat
  BY <1>2, <1>6
<1> QED
  BY <1>3, <1>4, <1>5, <1>6, <1>7

LEMMA OneWeight ==
    ASSUME NEW U, IsFiniteSet(U), NEW x \in U,
           NEW w \in [U -> Nat], NEW v \in [U -> Nat],
           \A y \in U : y # x => w[y] = v[y],
           NEW g, Sums(w, SUBSET U, g), NEW h, Sums(v, SUBSET U, h),
           NEW s \in SUBSET U
    PROVE  /\ x \notin s => h[s] = g[s]
           /\ x \in s => h[s] = g[s] - w[x] + v[x]
<1> DEFINE Good(t) == /\ x \notin t => h[t] = g[t]
                      /\ x \in t => h[t] = g[t] - w[x] + v[x]
           Bad == {n \in Nat : \E t \in SUBSET U : Cardinality(t) = n /\ ~ Good(t)}
<1>1. SUFFICES ASSUME Bad # {} PROVE FALSE
  BY Smaller
<1>2. PICK m \in Bad : \A k \in Bad : m <= k
  BY <1>1, Smallest
<1>3. PICK t \in SUBSET U : Cardinality(t) = m /\ ~ Good(t)
  BY <1>2
<1>4. /\ g[t] = IF t = {} THEN 0 ELSE w[Some(t)] + g[t \ {Some(t)}]
      /\ h[t] = IF t = {} THEN 0 ELSE v[Some(t)] + h[t \ {Some(t)}]
  BY DEF Sums
<1>5. t # {}
  BY <1>3, <1>4
<1>6. /\ Some(t) \in t /\ t \ {Some(t)} \in SUBSET U
      /\ Cardinality(t \ {Some(t)}) = m - 1 /\ m - 1 \in Nat
  <2>1. m \in Nat /\ m # 0
    BY <1>3, <1>5, Smaller
  <2> QED
    BY <1>3, <1>5, <2>1, Smaller
<1>7. Good(t \ {Some(t)})
  BY <1>2, <1>6
<1>8. /\ g[t \ {Some(t)}] \in Nat /\ h[t \ {Some(t)}] \in Nat
      /\ w[Some(t)] \in Nat /\ v[Some(t)] \in Nat /\ w[x] \in Nat /\ v[x] \in Nat
  BY <1>6, SumIsNat
<1>9. CASE Some(t) = x
  BY <1>3, <1>4, <1>5, <1>6, <1>7, <1>8, <1>9
<1>10. CASE Some(t) # x
  BY <1>3, <1>4, <1>5, <1>6, <1>7, <1>8, <1>10
<1> QED
  BY <1>9, <1>10

LEMMA WholeSum ==
    ASSUME NEW U, IsFiniteSet(U), NEW x \in U,
           NEW w \in [U -> Nat], NEW v \in [U -> Nat],
           \A y \in U : y # x => w[y] = v[y],
           NEW g, Sums(w, SUBSET U, g), NEW h, Sums(v, SUBSET U, h)
    PROVE  h[U] = g[U] - w[x] + v[x]
<1>1. ASSUME NEW s \in SUBSET U
      PROVE  x \in s => h[s] = g[s] - w[x] + v[x]
  BY OneWeight
<1> QED
  BY <1>1

-----------------------------------------------------------------------------
(* Store.TotalSize. *)

Weights(ix) == [p \in Paths |-> SizeOf(ix[p].val)]

(* The function that TotalSize is defined by, its operators expanded.      *)
Total(ix) ==
    CHOOSE g : g = [s \in SUBSET Paths |->
        IF s = {} THEN 0
        ELSE SizeOf(ix[CHOOSE x \in s : TRUE].val) + g[s \ {CHOOSE x \in s : TRUE}]]

LEMMA TotalSizeIsSum ==
    ASSUME NEW ix
    PROVE  TotalSize(ix) = Total(ix)[Paths] /\ Sums(Weights(ix), SUBSET Paths, Total(ix))
<1> DEFINE Body(g) ==
        [s \in SUBSET Paths |->
            IF s = {} THEN 0
            ELSE SizeOf(ix[CHOOSE x \in s : TRUE].val) + g[s \ {CHOOSE x \in s : TRUE}]]
<1>1. TotalSize(ix) = Total(ix)[Paths]
  BY DEF TotalSize, Total, MapThenSumSet, MapThenFoldSet
<1>2. PICK g : Sums(Weights(ix), SUBSET Paths, g)
  BY SumsExist, FinitePaths
<1>3. \A h : Body(h) = [s \in SUBSET Paths |->
                          IF s = {} THEN 0 ELSE Weights(ix)[Some(s)] + h[s \ {Some(s)}]]
  BY DEF Weights, Some
<1>4. g = Body(g)
  BY <1>2, <1>3 DEF Sums
<1>5. Total(ix) = Body(Total(ix))
  BY <1>4 DEF Total
<1>6. Sums(Weights(ix), SUBSET Paths, Total(ix))
  BY <1>3, <1>5 DEF Sums
<1> QED
  BY <1>1, <1>6

(* A commit changes it by the difference of the sizes. *)
LEMMA TotalSizeChange ==
    ASSUME NEW ix \in [Paths -> Rows], NEW jx \in [Paths -> Rows], NEW p \in Paths,
           \A q \in Paths : q # p => jx[q] = ix[q]
    PROVE  /\ TotalSize(ix) \in Nat
           /\ SizeOf(ix[p].val) \in Nat /\ SizeOf(jx[p].val) \in Nat
           /\ TotalSize(jx) = TotalSize(ix) - SizeOf(ix[p].val) + SizeOf(jx[p].val)
<1>1. ASSUME NEW r \in Rows PROVE SizeOf(r.val) \in Nat
  BY ConfigAssumption DEF Rows, Values, SizeOf
<1>2. Weights(ix) \in [Paths -> Nat] /\ Weights(jx) \in [Paths -> Nat]
  BY <1>1 DEF Weights
<1>3. \A q \in Paths : q # p => Weights(ix)[q] = Weights(jx)[q]
  BY DEF Weights
<1>4. /\ Sums(Weights(ix), SUBSET Paths, Total(ix)) /\ TotalSize(ix) = Total(ix)[Paths]
      /\ Sums(Weights(jx), SUBSET Paths, Total(jx)) /\ TotalSize(jx) = Total(jx)[Paths]
  BY TotalSizeIsSum
<1>5. TotalSize(ix) \in Nat
  BY <1>2, <1>4, SumIsNat, FinitePaths
<1>6. TotalSize(jx) = TotalSize(ix) - Weights(ix)[p] + Weights(jx)[p]
  <2>1. Total(jx)[Paths] = Total(ix)[Paths] - Weights(ix)[p] + Weights(jx)[p]
    <3>1. PICK w \in [Paths -> Nat], v \in [Paths -> Nat] :
             w = Weights(ix) /\ v = Weights(jx)
      BY <1>2
    <3>2. PICK g, h : g = Total(ix) /\ h = Total(jx)
      OBVIOUS
    <3>3. /\ Sums(w, SUBSET Paths, g) /\ Sums(v, SUBSET Paths, h)
          /\ \A y \in Paths : y # p => w[y] = v[y]
      BY <1>3, <1>4, <3>1, <3>2
    <3>4. h[Paths] = g[Paths] - w[p] + v[p]
      BY <3>3, WholeSum, FinitePaths
    <3> QED
      BY <3>1, <3>2, <3>4
  <2> QED
    BY <1>4, <2>1
<1> QED
  BY <1>1, <1>5, <1>6 DEF Weights

-----------------------------------------------------------------------------
(* What was checked before the rename still holds at the commit: the       *)
(* session has the lock, and nobody else changes the index.                *)

Admitted(s) ==
    /\ req[s].op = "put" => req[s].val \in Contents
    /\ pc[s] \in PutSteps => req[s].op = "put"
    /\ pc[s] \in PutSteps \ {"put_receive"} =>
          ModeAllows(s, SizeOf(row[s].val), Size[req[s].val])
    /\ pc[s] \in {"put_promote", "put_commit"} =>
          Allow(TotalSize(index), SizeOf(row[s].val), Size[req[s].val])

LEMMA AdmittedStep ==
    ASSUME IInv, \A s \in Sessions : Admitted(s), [Next]_vars
    PROVE  \A s \in Sessions : Admitted(s)'
<1> USE DEF IInv, TypeOK
<1>1. ASSUME NEW s \in Sessions, UNCHANGED <<pc[s], req[s], row[s]>>,
             UNCHANGED index \/ pc[s] \notin PutSteps
      PROVE  Admitted(s)'
  BY <1>1 DEF Admitted, ModeAllows, PutSteps
<1>2. ASSUME NEW s \in Sessions, NEW r, Answer(s, r)
      PROVE  Admitted(s)'
  <2>1. pc'[s] = "idle" /\ req'[s].op = "none"
    BY <1>2 DEF Answer, Goto, NoRequest, Request
  <2> QED
    BY <2>1 DEF Admitted, PutSteps
<1>3. ASSUME NEW s \in Sessions, Receive(s)
      PROVE  Admitted(s)'
  <2>1. ASSUME NEW r, Accept(s, r), r.op = "put" => r.val \in Contents
        PROVE  Admitted(s)'
    BY <2>1 DEF Accept, Goto, Admitted, PutSteps
  <2>2. CASE ReceivePut(s)
    BY <2>1, <2>2 DEF ReceivePut, Request
  <2>3. CASE ReceiveDelete(s)
    BY <2>1, <2>3 DEF ReceiveDelete, Request
  <2>4. CASE ReceiveGet(s)
    BY <2>1, <2>4 DEF ReceiveGet, Request
  <2>5. CASE ReceiveManifest(s)
    BY <2>1, <2>5 DEF ReceiveManifest, NoRequest, Request
  <2> QED
    BY <1>3, <2>2, <2>3, <2>4, <2>5 DEF Receive
<1>4. ASSUME NEW s \in Sessions, UNCHANGED req, pc'[s] \notin PutSteps
      PROVE  Admitted(s)'
  BY <1>4 DEF Admitted, PutSteps
<1>5. ASSUME NEW s \in Sessions, PutLock(s)
      PROVE  Admitted(s)'
  <2>1. CASE Continue(s, "put_receive") /\ UNCHANGED req /\ req[s].op = "put"
    BY <2>1 DEF Continue, Goto, Admitted
  <2> QED
    BY <1>2, <1>5, <2>1 DEF PutLock, Waiting, Reject
<1>6. ASSUME NEW s \in Sessions, PutReceive(s)
      PROVE  Admitted(s)'
  <2>1. CASE /\ ModeAllows(s, SizeOf(row[s].val), Size[req[s].val])
             /\ Continue(s, "put_admit") /\ UNCHANGED <<req, row>> /\ pc[s] = "put_receive"
    BY <2>1 DEF Continue, Goto, Admitted, ModeAllows, PutSteps
  <2> QED
    BY <1>2, <1>6, <2>1 DEF PutReceive, PutAbort, Reject, local
<1>7. ASSUME NEW s \in Sessions, PutAdmit(s)
      PROVE  Admitted(s)'
  <2>1. CASE /\ Allow(TotalSize(index), SizeOf(row[s].val), Size[req[s].val])
             /\ Continue(s, "put_promote") /\ UNCHANGED <<req, row, index>>
             /\ pc[s] = "put_admit"
    BY <2>1 DEF Continue, Goto, Admitted, ModeAllows, PutSteps
  <2> QED
    BY <1>2, <1>7, <2>1 DEF PutAdmit, PutAbort, Reject, local
<1>8. ASSUME NEW s \in Sessions, PutPromote(s)
      PROVE  Admitted(s)'
  <2>1. CASE Continue(s, "put_commit") /\ UNCHANGED <<req, row, index>> /\ pc[s] = "put_promote"
    BY <2>1 DEF Continue, Goto, Admitted, ModeAllows, PutSteps
  <2> QED
    BY <1>2, <1>8, <2>1 DEF PutPromote, PutAbort, Reject, local
<1>9. ASSUME NEW s \in Sessions,
             \/ DeleteLock(s) \/ ReconcileScan(s) \/ PutCommit(s) \/ Delete(s)
             \/ Manifest(s) \/ Get(s)
      PROVE  Admitted(s)'
  <2>1. (\E r : Answer(s, r)) \/ (UNCHANGED req /\ pc'[s] \notin PutSteps)
    BY <1>9 DEF DeleteLock, ReconcileScan, PutCommit, Delete, DeleteRemove, DeleteCommit,
                Manifest, ReconcileCommit, ReconcileDone, ManifestReply, Get, GetCurrent,
                GetOpen, Continue, Ack, Reject, Goto, local, PutSteps
  <2> QED
    BY <1>2, <1>4, <2>1
<1>10. ASSUME NEW s \in Sessions, Receive(s) \/ Enter(s) \/ Work(s)
       PROVE  \A t \in Sessions : Admitted(t)'
  <2>1. Admitted(s)'
    BY <1>3, <1>5, <1>6, <1>7, <1>8, <1>9, <1>10 DEF Enter, Work, Put
  <2>2. ASSUME NEW t \in Sessions, t # s
        PROVE  Admitted(t)'
    <3>1. UNCHANGED index \/ pc[t] \notin PutSteps
      BY <1>10, <2>2, IndexChange, Alone DEF CriticalSection, Locked
    <3> QED
      BY <1>1, <1>10, <2>2, <3>1, Others
  <2> QED
    BY <2>1, <2>2
<1>11. CASE CloudEdit \/ UNCHANGED vars
  BY <1>1, <1>11 DEF CloudEdit, vars, store, local
<1>12. CASE Crash
  BY <1>12 DEF Crash, Admitted, NoRequest, Request, PutSteps
<1> QED
  BY <1>10, <1>11, <1>12 DEF Next

(* A version of a session is what it commits at the end of a call.         *)
LEMMA OwnVersion ==
    ASSUME IInv, [Next]_vars, NEW s \in Sessions,
           NEW h \in history' \ history, h.by = s
    PROVE  /\ pc[s] \in {"put_commit", "delete_commit"}
           /\ h.val = IF pc[s] = "put_commit" THEN req[s].val ELSE Gone
           /\ row[s] = index[req[s].path]
           /\ req[s].path \in Paths /\ index' \in [Paths -> Rows]
           /\ index' = [index EXCEPT ![req[s].path] = Row(row[s].rev + 1, h.val)]
<1> USE DEF IInv
<1>1. PICK t \in Sessions : PutCommit(t) \/ DeleteCommit(t) \/ ReconcileCommit(t)
  BY DEF Next, Receive, ReceivePut, ReceiveDelete, ReceiveGet, ReceiveManifest, Accept,
         Enter, PutLock, DeleteLock, ReconcileScan, Work, Put, PutReceive, PutAdmit,
         PutPromote, Delete, DeleteRemove, Manifest, ReconcileDone, ManifestReply, Get,
         GetCurrent, GetOpen, CloudEdit, Crash, vars, store
<1>2. CASE ReconcileCommit(t)
  <2>1. h.by = NoSession
    BY <1>2 DEF ReconcileCommit, CommitFails, Commit, Version
  <2> QED
    BY <2>1, NoSessionAssumption
<1>3. CASE PutCommit(t) \/ DeleteCommit(t)
  <2> DEFINE v == IF pc[t] = "put_commit" THEN req[t].val ELSE Gone
  <2>1. /\ Commit(req[t].path, row[t].rev + 1, v, t)
        /\ pc[t] \in {"put_commit", "delete_commit"}
    BY <1>3 DEF PutCommit, DeleteCommit, CommitFails
  <2>2. h = Version(req[t].path, row[t].rev + 1, v, t)
    BY <2>1 DEF Commit
  <2>3. h.by = t /\ h.val = v
    BY <2>2 DEF Version
  <2>4. row[t] = index[req[t].path]
    BY <2>1 DEF CriticalSection, ReadsAreCurrent, PutSteps, DeleteSteps
  <2> QED
    BY <2>1, <2>3, <2>4, Typed DEF Commit, TypeOK, Requests
<1> QED
  BY <1>1, <1>2, <1>3

LEMMA StaysAdmitted == Spec => [](IInv /\ \A s \in Sessions : Admitted(s))
<1> DEFINE I == IInv /\ \A s \in Sessions : Admitted(s)
<1>1. Init => I
  BY Initially DEF Init, Admitted, NoRequest, Request, PutSteps
<1>2. I /\ [Next]_vars => I'
  BY Inductive, AdmittedStep
<1> QED
  BY <1>1, <1>2, PTL DEF Spec

(* What a commit of a session does to the size of the project.             *)
LEMMA CommittedSize ==
    ASSUME IInv, \A s \in Sessions : Admitted(s), [Next]_vars,
           NEW h \in history' \ history, h.by \in Sessions
    PROVE  /\ \/ TotalSize(index') <= Limit
              \/ TotalSize(index') <= TotalSize(index)
           /\ Mode[h.by] = "cleanup" /\ h.val # Gone =>
                  TotalSize(index') < TotalSize(index)
<1> DEFINE s == h.by
           p == req[s].path
           old == SizeOf(row[s].val)
           new == SizeOf(h.val)
<1>1. /\ pc[s] \in {"put_commit", "delete_commit"}
      /\ h.val = IF pc[s] = "put_commit" THEN req[s].val ELSE Gone
      /\ row[s] = index[p] /\ p \in Paths /\ index' \in [Paths -> Rows]
      /\ index' = [index EXCEPT ![p] = Row(row[s].rev + 1, h.val)]
  BY OwnVersion
<1>2. index \in [Paths -> Rows]
  BY DEF IInv, TypeOK
<1>3. index'[p].val = h.val /\ \A q \in Paths : q # p => index'[q] = index[q]
  BY <1>1, <1>2 DEF Row
<1>4. /\ TotalSize(index) \in Nat /\ old \in Nat /\ new \in Nat
      /\ TotalSize(index') = TotalSize(index) - old + new
  <2>1. PICK ix \in [Paths -> Rows], jx \in [Paths -> Rows] : ix = index /\ jx = index'
    BY <1>1, <1>2
  <2>2. \A q \in Paths : q # p => jx[q] = ix[q]
    BY <1>3, <2>1
  <2>3. /\ TotalSize(ix) \in Nat
        /\ SizeOf(ix[p].val) \in Nat /\ SizeOf(jx[p].val) \in Nat
        /\ TotalSize(jx) = TotalSize(ix) - SizeOf(ix[p].val) + SizeOf(jx[p].val)
    BY <1>1, <2>2, TotalSizeChange
  <2> QED
    BY <1>1, <1>3, <2>1, <2>3
<1> HIDE DEF old, new
<1>5. CASE pc[s] = "delete_commit"
  <2>1. h.val = Gone /\ new = 0
    BY <1>1, <1>5 DEF new, SizeOf
  <2> QED
    BY <1>4, <2>1
<1>6. CASE pc[s] = "put_commit"
  <2>1. /\ req[s].val \in Contents /\ h.val = req[s].val
        /\ ModeAllows(s, old, Size[req[s].val])
        /\ Allow(TotalSize(index), old, Size[req[s].val])
    BY <1>1, <1>6 DEF Admitted, PutSteps, old
  <2>2. new = Size[req[s].val]
    BY <2>1, GoneAssumption DEF new, SizeOf
  <2>3. /\ Mode[s] = "cleanup" => new < old
        /\ new <= old \/ TotalSize(index) - old + new <= Limit
    BY <2>1, <2>2 DEF ModeAllows, Allow
  <2> QED
    BY <1>4, <2>3
<1> QED
  BY <1>1, <1>5, <1>6

(* syncserver.go:101, Gate.Allow before the rename: no upload leaves the   *)
(* project above its limit, unless it makes it smaller, whatever Claude    *)
(* does meanwhile and the other sessions ask for.                          *)
THEOREM QuotaRespected == Spec => PutRespectsQuota
<1> DEFINE A == \A h \in history' \ history : h.by \in Sessions =>
                   TotalSize(index') <= Limit \/ TotalSize(index') <= TotalSize(index)
<1>1. IInv /\ (\A s \in Sessions : Admitted(s)) /\ [Next]_vars => [A]_vars
  BY CommittedSize
<1> QED
  BY <1>1, StaysAdmitted, PTL DEF Spec, PutRespectsQuota

(* syncserver.go:92, the check of the mode: an upload in a session that    *)
(* was opened for cleaning up makes the project smaller.                   *)
THEOREM CleanupShrinks == Spec => CleanupOnlyShrinks
<1> DEFINE A == \A h \in history' \ history :
                   h.by \in Sessions /\ Mode[h.by] = "cleanup" /\ h.val # Gone =>
                       TotalSize(index') < TotalSize(index)
<1>1. IInv /\ (\A s \in Sessions : Admitted(s)) /\ [Next]_vars => [A]_vars
  BY CommittedSize
<1> QED
  BY <1>1, StaysAdmitted, PTL DEF Spec, CleanupOnlyShrinks
=============================================================================
