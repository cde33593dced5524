--------------------------- MODULE RevisionStore ---------------------------
(***************************************************************************)
(* What the workspace synchronisation promises its clients about one       *)
(* project, without the steps of the worker: every path has a line of      *)
(* versions numbered 1, 2, 3, ... without gaps or repetitions, the head is *)
(* the last of them, and a version once published is never rewritten.      *)
(* Revision 0 is "never seen"; a deletion is a version like any other      *)
(* (a tombstone, value Gone).                                              *)
(***************************************************************************)
EXTENDS Naturals

CONSTANTS Paths, Contents, Gone

VARIABLES head,      \* the current version of every path
          versions   \* every version ever published

Values == Contents \cup {Gone}

Never == [rev |-> 0, val |-> Gone]

Init == /\ head = [p \in Paths |-> Never]
        /\ versions = [p \in Paths |-> {Never}]

(* A writer that knew version n of p publishes version n + 1. *)
Publish(p, n, v) ==
    LET new == [rev |-> n + 1, val |-> v]
    IN  /\ head[p].rev = n
        /\ head' = [head EXCEPT ![p] = new]
        /\ versions' = [versions EXCEPT ![p] = @ \cup {new}]

Next == \E p \in Paths, v \in Values : Publish(p, head[p].rev, v)

Spec == Init /\ [][Next]_<<head, versions>>
=============================================================================
