------------------------------- MODULE MCPairing -------------------------------
(***************************************************************************)
(* Model-checking instances of Pairing.                                    *)
(***************************************************************************)
EXTENDS Pairing, TLC

Symmetry == Permutations(Tasks) \cup Permutations(Sessions)

\* Which commands the users of a run may issue.
AllCommands == Devices \X {"request", "accept", "decline", "forget", "block",
                           "unblock", "rotate", "dismiss"} \X {1}
AcceptTwice == {<<1, "request", 1>>, <<2, "accept", 1>>, <<2, "accept", 2>>}
===============================================================================
