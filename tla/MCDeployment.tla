---------------------------- MODULE MCDeployment ----------------------------
(***************************************************************************)
(* Four releases, of which two are installed: a second success leaves one  *)
(* to prune.                                                               *)
(***************************************************************************)
EXTENDS Deployment
=============================================================================
