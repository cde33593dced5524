-------------------------- MODULE MCTerminalAccess --------------------------
(* Values of the constants of TerminalAccess for TLC. *)
EXTENDS TerminalAccess, TLC

CONSTANTS pa, pb, c1, c2

OneEach == c1 :> pa @@ c2 :> pb
Alone == c1 :> pa
=============================================================================
