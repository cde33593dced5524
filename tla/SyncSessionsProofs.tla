------------------------- MODULE SyncSessionsProofs -------------------------
(***************************************************************************)
(* A session that was sent to the wrong directory does the project's       *)
(* history no harm: what SyncServerProofs shows of the revisions holds     *)
(* while lookups fail, for any number of sessions, paths, contents,        *)
(* crashes and failing lookups.                                            *)
(*                                                                         *)
(* What is proved there holds of any directory, so it is taken twice, for  *)
(* the project's and for the other one; the two share the index, the lock  *)
(* and the sessions, and the invariant asks of a directory only what type  *)
(* it has.                                                                 *)
(***************************************************************************)
EXTENDS SyncSessions, SyncServerProofs

Astray == INSTANCE SyncServerProofs WITH disk <- stray

LEMMA SameConstants ==
    /\ Astray!NoSessionAssumption /\ Astray!GoneAssumption
    /\ Astray!PathsAssumption /\ Astray!FinitePaths /\ Astray!ConfigAssumption
<1>1. Astray!FinitePaths
  BY FinitePaths DEF Astray!FinitePaths, IsFiniteSet, Astray!IsFiniteSet
<1>2. Astray!ConfigAssumption
  BY ConfigAssumption DEF Astray!ConfigAssumption, Astray!Values, Values
<1> QED
  BY <1>1, <1>2, NoSessionAssumption, GoneAssumption, PathsAssumption
     DEF Astray!NoSessionAssumption, Astray!GoneAssumption, Astray!PathsAssumption

(* The steps of OnStray are those that Astray is about. *)
LEMMA SameSteps ==
    ASSUME NEW s \in Sessions
    PROVE  /\ OnStray!ReceivePut(s) <=> Astray!ReceivePut(s)
           /\ OnStray!ReceiveDelete(s) <=> Astray!ReceiveDelete(s)
           /\ OnStray!ReceiveGet(s) <=> Astray!ReceiveGet(s)
           /\ OnStray!ReceiveManifest(s) <=> Astray!ReceiveManifest(s)
           /\ OnStray!Enter(s) <=> Astray!Enter(s)
           /\ OnStray!Work(s) <=> Astray!Work(s)
<1> USE DEF OnStray!Values, Astray!Values, OnStray!Row, Astray!Row,
            OnStray!NoRow, Astray!NoRow, OnStray!NoScan, Astray!NoScan,
            OnStray!Version, Astray!Version, OnStray!Request, Astray!Request,
            OnStray!NoRequest, Astray!NoRequest, OnStray!Reply, Astray!Reply,
            OnStray!NoReply, Astray!NoReply, OnStray!store, Astray!store,
            OnStray!local, Astray!local, OnStray!Goto, Astray!Goto,
            OnStray!Continue, Astray!Continue, OnStray!Answer, Astray!Answer,
            OnStray!Ack, Astray!Ack, OnStray!Reject, Astray!Reject,
            OnStray!Free, Astray!Free, OnStray!Acquire, Astray!Acquire,
            OnStray!Release, Astray!Release, OnStray!Commit, Astray!Commit,
            OnStray!CommitFails, Astray!CommitFails,
            OnStray!Accept, Astray!Accept, OnStray!Waiting, Astray!Waiting,
            OnStray!SizeOf, Astray!SizeOf
<1>1. /\ OnStray!ReceivePut(s) <=> Astray!ReceivePut(s)
      /\ OnStray!ReceiveDelete(s) <=> Astray!ReceiveDelete(s)
      /\ OnStray!ReceiveGet(s) <=> Astray!ReceiveGet(s)
      /\ OnStray!ReceiveManifest(s) <=> Astray!ReceiveManifest(s)
  BY DEF OnStray!ReceivePut, Astray!ReceivePut,
         OnStray!ReceiveDelete, Astray!ReceiveDelete,
         OnStray!ReceiveGet, Astray!ReceiveGet,
         OnStray!ReceiveManifest, Astray!ReceiveManifest
<1>2. OnStray!Enter(s) <=> Astray!Enter(s)
  BY DEF OnStray!Enter, Astray!Enter, OnStray!PutLock, Astray!PutLock,
         OnStray!DeleteLock, Astray!DeleteLock,
         OnStray!ReconcileScan, Astray!ReconcileScan,
         OnStray!Differs, Astray!Differs
<1>3. OnStray!Put(s) <=> Astray!Put(s)
  BY DEF OnStray!Put, Astray!Put, OnStray!PutReceive, Astray!PutReceive,
         OnStray!PutAdmit, Astray!PutAdmit,
         OnStray!PutPromote, Astray!PutPromote,
         OnStray!PutCommit, Astray!PutCommit, OnStray!PutAbort, Astray!PutAbort,
         OnStray!ModeAllows, Astray!ModeAllows, OnStray!Allow, Astray!Allow,
         OnStray!TotalSize, Astray!TotalSize,
         OnStray!MapThenSumSet, Astray!MapThenSumSet,
         OnStray!MapThenFoldSet, Astray!MapThenFoldSet
<1>4. OnStray!Delete(s) <=> Astray!Delete(s)
  BY DEF OnStray!Delete, Astray!Delete,
         OnStray!DeleteRemove, Astray!DeleteRemove,
         OnStray!DeleteCommit, Astray!DeleteCommit
<1>5. OnStray!Manifest(s) <=> Astray!Manifest(s)
  BY DEF OnStray!Manifest, Astray!Manifest,
         OnStray!ReconcileCommit, Astray!ReconcileCommit,
         OnStray!ReconcileDone, Astray!ReconcileDone,
         OnStray!ManifestReply, Astray!ManifestReply
<1>6. OnStray!Get(s) <=> Astray!Get(s)
  BY DEF OnStray!Get, Astray!Get, OnStray!GetCurrent, Astray!GetCurrent,
         OnStray!GetOpen, Astray!GetOpen
<1> QED
  BY <1>1, <1>2, <1>3, <1>4, <1>5, <1>6 DEF OnStray!Work, Astray!Work

LEMMA SameInvariant ==
    disk \in [Paths -> Values] /\ stray \in [Paths -> Values] =>
        (Astray!IInv <=> IInv)
<1> SUFFICES ASSUME disk \in [Paths -> Values], stray \in [Paths -> Values]
             PROVE  Astray!IInv <=> IInv
  OBVIOUS
<1> USE DEF Astray!Values, Values, Astray!Rows, Rows, Astray!Version, Version,
            Astray!Labels, Labels, Astray!Locked, Locked,
            Astray!PutSteps, PutSteps, Astray!DeleteSteps, DeleteSteps
<1>1. Astray!TypeOK <=> TypeOK
  BY DEF Astray!TypeOK, TypeOK, Astray!Versions, Versions, Astray!Requests, Requests,
         Astray!Replies, Replies
<1>2. Astray!TempsOK /\ Astray!TempsBounded <=> TempsOK /\ TempsBounded
  BY DEF Astray!TempsOK, TempsOK, Astray!TempsBounded, TempsBounded
<1>3. Astray!CriticalSection <=> CriticalSection
  BY DEF Astray!CriticalSection, CriticalSection, Astray!LockInv, LockInv,
         Astray!ReadsAreCurrent, ReadsAreCurrent
<1>4. /\ Astray!IndexIsNewest <=> IndexIsNewest
      /\ Astray!CasWinner <=> CasWinner
      /\ Astray!AckIsVersion <=> AckIsVersion
  BY DEF Astray!IndexIsNewest, IndexIsNewest, Astray!CasWinner, CasWinner,
         Astray!AckIsVersion, AckIsVersion
<1>5. Astray!KnownRevisions <=> KnownRevisions
  BY DEF Astray!KnownRevisions, KnownRevisions, Astray!Known, Known
<1> QED
  BY <1>1, <1>2, <1>3, <1>4, <1>5 DEF Astray!IInv, IInv

-----------------------------------------------------------------------------
(* Every step is one of SyncServer, on one directory or the other.         *)

InProject == [Next]_vars /\ UNCHANGED stray
InStray == Astray!Next /\ UNCHANGED disk

LEMMA Directed == [SNext]_sessionVars => InProject \/ InStray
<1> SUFFICES ASSUME [SNext]_sessionVars PROVE InProject \/ InStray
  OBVIOUS
<1>1. ASSUME NEW s \in Sessions, Open(s) \/ OpenStray(s)
      PROVE  InProject
  BY <1>1 DEF Open, OpenStray, InProject
<1>2. ASSUME NEW s \in Sessions, SManifest(s)
      PROVE  InProject \/ InStray
  <2>1. ReceiveManifest(s) => Next
    BY DEF Receive, Next
  <2>2. OnStray!ReceiveManifest(s) => Astray!Next
    BY SameSteps DEF Astray!Receive, Astray!Next
  <2> QED
    BY <1>2, <2>1, <2>2 DEF SManifest, InProject, InStray
<1>3. ASSUME NEW s \in Sessions, SReceive(s) \/ SEnter(s) \/ SWork(s)
      PROVE  InProject \/ InStray
  <2>1. ReceivePut(s) \/ ReceiveDelete(s) \/ ReceiveGet(s) \/ Enter(s) \/ Work(s) => Next
    BY DEF Receive, Next
  <2>2. OnStray!ReceivePut(s) \/ OnStray!ReceiveDelete(s) \/ OnStray!ReceiveGet(s)
        \/ OnStray!Enter(s) \/ OnStray!Work(s) => Astray!Next
    BY SameSteps DEF Astray!Receive, Astray!Next
  <2> QED
    BY <1>3, <2>1, <2>2 DEF SReceive, SEnter, SWork, Routed, InProject, InStray
<1>4. CloudEdit /\ UNCHANGED <<root, stray, strays>> => InProject
  BY DEF Next, InProject
<1>5. Restart => InProject
  BY DEF Restart, Next, InProject
<1>6. UNCHANGED sessionVars => InProject
  BY DEF sessionVars, InProject
<1> QED
  BY <1>1, <1>2, <1>3, <1>4, <1>5, <1>6 DEF SNext

SInv == IInv /\ stray \in [Paths -> Values]

LEMMA AstrayInv == SInv => Astray!IInv
BY SameInvariant DEF SInv, IInv, TypeOK

LEMMA SInitially == SInit => SInv
BY Initially DEF SInit, SInv, Values

LEMMA SInductive == SInv /\ [SNext]_sessionVars => SInv'
<1> SUFFICES ASSUME SInv, InProject \/ InStray PROVE SInv'
  BY Directed
<1>1. CASE InProject
  BY <1>1, Inductive DEF InProject, SInv
<1>2. CASE InStray
  <2>1. Astray!IInv'
    BY <1>2, AstrayInv, SameConstants, Astray!Inductive DEF InStray
  <2>2. stray' \in [Paths -> Values] /\ disk' \in [Paths -> Values]
    BY <1>2, <2>1 DEF InStray, SInv, IInv, TypeOK,
                      Astray!IInv, Astray!TypeOK, Astray!Values, Values
  <2>3. (disk \in [Paths -> Values] /\ stray \in [Paths -> Values] =>
             (Astray!IInv <=> IInv))'
    BY SameInvariant, PTL
  <2> QED
    BY <2>1, <2>2, <2>3 DEF SInv
<1> QED
  BY <1>1, <1>2

LEMMA SInvariance == SSpec => []SInv
BY SInitially, SInductive, PTL DEF SSpec

(* The revisions are made one after the other, whichever directory the     *)
(* sessions work on: the lock is the project's, and so is the index.       *)
THEOREM SerialisedAstray == SSpec => []CriticalSection
<1>1. SInv => CriticalSection
  BY DEF SInv, IInv
<1> QED
  BY <1>1, SInvariance, PTL

(* No two commits make one revision of a path, not even from the files of  *)
(* two directories.                                                        *)
THEOREM OneWinnerAstray == SSpec => []CasWinner
<1>1. SInv => CasWinner
  BY DEF SInv, IInv
<1> QED
  BY <1>1, SInvariance, PTL

(* HandlePut and HandleDelete acknowledge only versions of the project.    *)
THEOREM AckDurableAstray == SSpec => []AckIsVersion
<1>1. SInv => AckIsVersion
  BY DEF SInv, IInv
<1> QED
  BY <1>1, SInvariance, PTL

(* A client still sees one line of versions per path: the files that are   *)
(* missing in the wrong directory are published as deletions on top of     *)
(* what there was, and nothing is rewritten.                               *)
THEOREM ImplementsAstray == SSpec => Refinement
<1> DEFINE Store == <<index, [p \in Paths |-> VersionsOf(p)]>>
<1>1. SInv /\ [SNext]_sessionVars => [Promise!Next]_Store
  <2> SUFFICES ASSUME SInv, InProject \/ InStray PROVE [Promise!Next]_Store
    BY Directed
  <2>1. CASE InProject
    BY <2>1, PromiseStep DEF InProject, SInv
  <2>2. CASE InStray
    <3>1. [Astray!Promise!Next]_<<index, [p \in Paths |-> Astray!VersionsOf(p)]>>
      BY <2>2, AstrayInv, SameConstants, Astray!PromiseStep DEF InStray
    <3> USE DEF Astray!VersionsOf, VersionsOf, Astray!Row, Row
    <3>2. UNCHANGED <<index, [p \in Paths |-> Astray!VersionsOf(p)]>> => UNCHANGED Store
      OBVIOUS
    <3>3. Astray!Promise!Next => Promise!Next
      BY DEF Astray!Promise!Next, Promise!Next, Astray!Promise!Publish, Promise!Publish,
             Astray!Promise!Values, Promise!Values
    <3> QED
      BY <3>1, <3>2, <3>3
  <2> QED
    BY <2>1, <2>2
<1>2. SInit => Promise!Init
  BY PromiseInit DEF SInit
<1> QED
  BY <1>1, <1>2, SInvariance, PTL DEF SSpec, Refinement, Promise!Spec, VersionsOf

(* A manifest that was reconciled with either directory is complete: what  *)
(* that directory held is recorded.                                        *)
THEOREM ManifestIsCompleteAstray == SSpec /\ ~ Faulty => []ReconcileRecorded
<1> DEFINE I == ~ Faulty /\ SInv /\ \A s \in Sessions : Recording(s)
<1>1. SInit /\ ~ Faulty => I
  BY SInitially DEF SInit, Init, Recording
<1>2. I /\ [SNext]_sessionVars => I'
  <2> SUFFICES ASSUME I, InProject \/ InStray
               PROVE  (\A s \in Sessions : Recording(s))'
    BY Directed, SInductive
  <2>1. CASE InProject
    BY <2>1, RecordingStep DEF InProject, SInv, IInv
  <2>2. CASE InStray
    <3> USE DEF Astray!Recording, Recording, Astray!Recorded, Recorded
    <3>1. \A s \in Sessions : Astray!Recording(s)
      OBVIOUS
    <3>2. Astray!TypeOK /\ Astray!CriticalSection /\ Astray!IndexIsNewest
      BY AstrayInv DEF Astray!IInv
    <3>3. \A s \in Sessions : Astray!Recording(s)'
      BY <2>2, <3>1, <3>2, SameConstants, Astray!RecordingStep DEF InStray
    <3> QED
      BY <3>3
  <2> QED
    BY <2>1, <2>2
<1>3. I => ReconcileRecorded
  BY DEF SInv, IInv, CriticalSection, ReadsAreCurrent, Recording, Recorded,
         ReconcileRecorded
<1> QED
  BY <1>1, <1>2, <1>3, SInductive, PTL DEF SSpec
=============================================================================
