---------------------------- MODULE MCAdmission ----------------------------
(* Values of the constants of Admission for TLC. *)
EXTENDS Admission, TLC

CONSTANTS a1, a2, s1, s2, c1, c2, caddy

OneEach == c1 :> a1 @@ c2 :> a2
BehindCaddy == c1 :> caddy @@ c2 :> caddy
=============================================================================
