------------------------------ MODULE ThreeWay ------------------------------
(***************************************************************************)
(* The three-way comparison of the sync client (internal/sync/manifest.go) *)
(* for one path: the baseline b it saved after its last round, the content *)
(* v it finds on disk and the row r of the server's manifest.  The code    *)
(* builds maps and lists over all paths; each path is decided by itself.   *)
(***************************************************************************)
EXTENDS Naturals

CONSTANTS Gone,   \* no file on disk; no entry; in a row, a tombstone
          NoSha   \* the empty string in place of a digest

(* A baseline entry is the revision and the digest last confirmed. *)
Entry(n, v) == [rev |-> n, val |-> v]
NoEntry == Entry(0, Gone)

(* BuildLocal: what happened to the path since the baseline. *)
LocalState(b, v) ==
    CASE v = Gone /\ b = NoEntry -> "absent"
      [] v = Gone /\ b # NoEntry -> "deleted"
      [] v # Gone /\ v = b.val   -> "clean"
      [] OTHER                   -> "modified"

UnlistedMeansDeletedBug(b, r) == r.rev # b.rev \/ r.val = Gone
(* A path the manifest does not list has not advanced. *)
ServerAdvanced(b, r) == r.rev # 0 /\ (r.rev # b.rev \/ r.val = Gone)

(* Diff: what the round has to do about the path. *)
Decide(b, v, r) ==
    LET state == LocalState(b, v)
        advanced == ServerAdvanced(b, r)
    IN  CASE state = "absent" /\ r.rev # 0 /\ r.val # Gone       -> "download"
          [] state = "clean" /\ advanced /\ r.val # Gone         -> "download"
          [] state = "clean" /\ advanced /\ r.val = Gone         -> "delete_local"
          [] state = "modified" /\ ~ advanced                    -> "upload"
          [] state = "modified" /\ advanced /\ r.val # v         -> "conflict"
          [] state = "deleted" /\ ~ advanced                     -> "delete_remote"
          [] state = "deleted" /\ advanced /\ r.val # Gone       -> "conflict"
          [] OTHER                                               -> "none"

(* execute starts the next baseline from the entries that are still clean. *)
KeptBaseline(b, v) == IF LocalState(b, v) = "clean" THEN b ELSE NoEntry
=============================================================================
