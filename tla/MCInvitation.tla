----------------------------- MODULE MCInvitation -----------------------------
(***************************************************************************)
(* Model-checking instances of Invitation.                                 *)
(***************************************************************************)
EXTENDS Invitation, TLC

AttemptSymmetry == Permutations(Attempts)
==============================================================================
