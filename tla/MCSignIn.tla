------------------------------ MODULE MCSignIn ------------------------------
(***************************************************************************)
(* Two addresses, of which one is remembered at a time, a budget of two    *)
(* failures, and one request more than there are slots.                    *)
(***************************************************************************)
EXTENDS SignIn

CONSTANTS r1, r2, r3, home, office
=============================================================================
