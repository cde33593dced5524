---------------------------- MODULE MCSyncClient ----------------------------
(* Values of the constants of SyncClient for TLC. *)
EXTENDS SyncClient, TLC

CONSTANTS d1, d2, p1, p2, p3, x, y

AllWrite == [d \in Devices |-> "rw"]
AnyEdit == {x, y, Gone}
OneContent == {x}
ContentOrGone == {x, Gone}
NoEdits == {}

(* Two devices with one path and two edits, and one device with three      *)
(* paths and three edits: as many as it takes to file the answer to one    *)
(* request under the path of another.                                      *)
Unused(d) == pc[d] = "idle" /\ file[d] = PerPath(Gone) /\ base[d] = PerPath(NoEntry)
Untouched(p) == work[p] = Gone /\ head[p] = NoEntry /\ \A d \in Devices : file[d][p] = Gone
Small ==
    \/ edits <= 2 /\ \E p, q \in Paths : p # q /\ Untouched(p) /\ Untouched(q)
    \/ \E d \in Devices : Unused(d)

(* Devices in one mode, paths and contents are interchangeable. *)
Symmetry == Permutations(Devices) \cup Permutations(Paths) \cup Permutations(Contents)
=============================================================================
