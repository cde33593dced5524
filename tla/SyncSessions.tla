---------------------------- MODULE SyncSessions ----------------------------
(***************************************************************************)
(* How worker-agent opens sync sessions (cmd/worker-agent/main.go):        *)
(* sessionFactory asks the database for the project's slug, which names    *)
(* its directory, and takes the project's id instead when that fails: the  *)
(* session then works on another directory, which it makes, under the same *)
(* index and the same lock.  SyncServer says what a session does; here it  *)
(* does it in either directory.                                            *)
(*                                                                         *)
(* A connection is one round of a client, which asks for the manifest      *)
(* first of all and once.  Of the limit, which is looked up in the same    *)
(* way, nothing is said here; temporary files are counted together.        *)
(***************************************************************************)
EXTENDS SyncServer

CONSTANTS
    MayStray,  \* the sessions whose lookups may fail
    MaxStray   \* bound on the lookups that fail; where one has failed the
               \* worker does not crash, and conversely

ASSUME StrayAssumption == MayStray \subseteq Sessions /\ MaxStray \in Nat

VARIABLES
    root,    \* the directory of each session: "slug" is the project's; "id" is
             \* the other one, "listed" the same once the manifest was asked for
    stray,   \* what is in the other directory
    strays   \* how many lookups failed

sessionVars == <<vars, root, stray, strays>>

OnStray == INSTANCE SyncServer WITH disk <- stray

SInit ==
    /\ Init
    /\ root = [s \in Sessions |-> "slug"]
    /\ stray = [p \in Paths |-> Gone]
    /\ strays = 0

-----------------------------------------------------------------------------
(* A client dials again for its next round, and the lookup succeeds, ... *)
Open(s) ==
    /\ pc[s] = "idle" /\ root[s] # "slug"
    /\ root' = [root EXCEPT ![s] = "slug"]
    /\ UNCHANGED <<vars, stray, strays>>

(* ... or it fails. *)
OpenStray(s) ==
    /\ s \in MayStray
    /\ pc[s] = "idle" /\ root[s] = "slug"
    /\ strays < MaxStray /\ crashes = 0
    /\ strays' = strays + 1
    /\ root' = [root EXCEPT ![s] = "id"]
    /\ UNCHANGED <<vars, stray>>

(* A step of session s, done to the directory it was given. *)
Routed(s, inProject, inStray) ==
    \/ root[s] = "slug" /\ inProject /\ UNCHANGED <<root, stray, strays>>
    \/ root[s] = "listed" /\ inStray /\ UNCHANGED <<root, disk, strays>>

SManifest(s) ==
    \/ root[s] = "slug" /\ ReceiveManifest(s) /\ UNCHANGED <<root, stray, strays>>
    \/ /\ root[s] = "id" /\ OnStray!ReceiveManifest(s)
       /\ root' = [root EXCEPT ![s] = "listed"]
       /\ UNCHANGED <<disk, strays>>

SReceive(s) ==
    Routed(s, ReceivePut(s) \/ ReceiveDelete(s) \/ ReceiveGet(s),
           OnStray!ReceivePut(s) \/ OnStray!ReceiveDelete(s) \/ OnStray!ReceiveGet(s))
SEnter(s) == Routed(s, Enter(s), OnStray!Enter(s))
SWork(s) == Routed(s, Work(s), OnStray!Work(s))

(* The lookups of the connections after a restart succeed. *)
Restart ==
    /\ strays = 0 /\ Crash
    /\ root' = [s \in Sessions |-> "slug"]
    /\ UNCHANGED <<stray, strays>>

SNext ==
    \/ \E s \in Sessions : \/ Open(s) \/ OpenStray(s)
                           \/ SManifest(s) \/ SReceive(s) \/ SEnter(s) \/ SWork(s)
    \/ CloudEdit /\ UNCHANGED <<root, stray, strays>>
    \/ Restart

SSpec == SInit /\ [][SNext]_sessionVars

(* As in SyncServer: a client's rounds end, it dials again and begins with *)
(* the manifest.                                                           *)
SFairness ==
    \A s \in Sessions : /\ WF_sessionVars(SWork(s))
                        /\ SF_sessionVars(SEnter(s))
                        /\ SF_sessionVars(Open(s) \/ SManifest(s))

SFairSpec == SSpec /\ SFairness
=============================================================================
