---------------------------- MODULE MCAuthService ----------------------------
(***************************************************************************)
(* A small instance of AuthService: four refresh tokens are enough for a   *)
(* login, a rotation, a loss, and the login and rotation after it.         *)
(***************************************************************************)
EXTENDS AuthService
=============================================================================
