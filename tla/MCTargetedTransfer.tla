-------------------------- MODULE MCTargetedTransfer --------------------------
(***************************************************************************)
(* Model-checking instances of TargetedTransfer.                           *)
(***************************************************************************)
EXTENDS TargetedTransfer, TLC

HandleSymmetry == Permutations(Handles)

\* Which commands the users of a run may issue.
SenderCommands   == {Sender} \X {"stop", "cancel"}
ReceiverCommands == {Receiver} \X {"cancel", "delete"}
ForgetCommands   == Devices \X {"forget"}
SenderStops      == {<<Sender, "stop">>}
ReceiverCancels  == {<<Receiver, "cancel">>}
ReceiverForgets  == {<<Receiver, "forget">>}
==============================================================================
