------------------------------ MODULE Invitation ------------------------------
(***************************************************************************)
(* An Invitation transfer between two devices: the share and the approval  *)
(* service of the sending one, the attempts and the delivery task of the   *)
(* receiving one, and deaths of either process.                            *)
(***************************************************************************)
EXTENDS InvitationReceive

CONSTANT MaxCrashes   \* bound on process deaths, both devices together

ASSUME InvitationAssumption == MaxCrashes \in Nat

VARIABLE crashes

vars == <<shareVars, approvalVars, receiveVars, crashes>>

approvalRest == <<requestVars, hs, decisionVars, refusalVars, accepted>>   \* but call
deliveryRest == <<task, batch, sending, ack, wire>>

Init == ShareInit /\ ApprovalInit /\ ReceiveInit /\ crashes = 0

\* Steps of the sending device.
SharingStep  == ShareStep /\ UNCHANGED <<approvalVars, receiveVars, crashes>>
ApprovingStep(a) == ApprovalStep(a) /\ UNCHANGED <<shareVars, receiveVars, crashes>>

\* The handshake of an accepted request opens a session for its endpoint.
SessionGranted(a) ==
    Grant(a) /\ GrantSession /\ UNCHANGED <<approving, receiveVars, crashes>>

\* delete_transfer between its access and its rows.
DeleteLists == DeleteList /\ ListRequests /\ UNCHANGED <<receiveVars, crashes>>

DeleteRefuses(a) ==
    /\ del = "refusing"
    /\ RefuseTake(a) \/ RefuseCommit(a)
    /\ UNCHANGED <<shareVars, receiveVars, crashes>>

DeleteHasRefused ==
    /\ todo = {} /\ refusing = None
    /\ DeleteRefused
    /\ UNCHANGED <<approvalVars, receiveVars, crashes>>

DeleteRows == DeleteRow /\ DeleteRequests /\ UNCHANGED <<receiveVars, crashes>>

\* Steps of the receiving device.
Starts(a) ==
    ReceiveStart(a) /\ UNCHANGED <<shareVars, approvalRest, commandVars, deliveryRest, permit, crashes>>

Runs(a) ==
    RunStep(a) /\ UNCHANGED <<shareVars, approvalRest, commandVars, deliveryRest, crashes>>

Commanded ==
    ReceiveCommand /\ UNCHANGED <<shareVars, approvalVars, deliveryRest, permit, crashes>>

deliveryFrame == <<shareVars, approvalVars, row, active, run, holding, finished, commandVars, crashes>>

Delivers ==
    /\ ListReceipts \/ BatchDone \/ WakeUp \/ \E a \in Attempts : DeliveryStep(a)
    /\ UNCHANGED deliveryFrame

Reports(m) ==
    ReceiptArrives(m) /\ UNCHANGED <<shareVars, runVars, commandVars, task, batch, sending, permit, crashes>>

Loses(m) ==
    /\ ReceiptLost(m)
    /\ UNCHANGED <<shareVars, approvalVars, runVars, commandVars, task, batch, sending, ack, permit, crashes>>

\* Deaths.
SenderDies ==
    /\ crashes < MaxCrashes /\ crashes' = crashes + 1
    /\ RestartShare /\ RestartApproval
    /\ UNCHANGED receiveVars

ReceiverDies ==
    /\ crashes < MaxCrashes /\ crashes' = crashes + 1
    /\ RestartReceive
    /\ UNCHANGED <<shareVars, approvalRest>>

Next ==
    \/ SharingStep \/ DeleteLists \/ DeleteHasRefused \/ DeleteRows
    \/ \E a \in Attempts :
          ApprovingStep(a) \/ SessionGranted(a) \/ DeleteRefuses(a) \/ Starts(a) \/ Runs(a)
    \/ Commanded \/ Delivers
    \/ \E m \in wire : Reports(m) \/ Loses(m)
    \/ SenderDies \/ ReceiverDies

Spec == Init /\ [][Next]_vars

(***************************************************************************)
(* Fairness.  Tasks that can run do, and timers fire.  A receipt that is   *)
(* sent again and again is at last answered within the five seconds of one *)
(* of its calls.  Users owe nothing: requests may stay unanswered.         *)
(***************************************************************************)
\* The handshakes, the answers being recorded and the attempts.
AttemptFairness ==
    /\ \A a \in Attempts :
          /\ WF_vars(/\ HandshakeStep(a) \/ RespondCommit(a)
                     /\ UNCHANGED <<shareVars, receiveVars, crashes>>)
          /\ WF_vars(SessionGranted(a) \/ Runs(a))
    /\ WF_vars(MarkCancelled /\ UNCHANGED <<shareVars, approvalVars, deliveryRest, permit, crashes>>)

\* The attempts, the delivery task and the calls it makes.
DeliveryFairness ==
    /\ WF_vars(Delivers)
    /\ \A a \in Attempts : WF_vars(Runs(a)) /\ SF_vars(ReceiptSettled(a) /\ UNCHANGED deliveryFrame)
    /\ \A m \in Attempts \X Receipts : SF_vars(sending = m[1] /\ Reports(m))

AttemptSpec  == Spec /\ AttemptFairness
DeliverySpec == Spec /\ DeliveryFairness

(***************************************************************************)
(* Properties.                                                             *)
(***************************************************************************)
\* Every variable has its type.
TypeOK ==
    /\ ShareTypeOK
    /\ req \in [Attempts -> Requests] /\ token \in SUBSET Attempts
    /\ hs \in [Attempts -> HsSteps] /\ call \in [Attempts -> Calls]
    /\ waiter \in [Attempts -> {"none", "pending", "user", "delete"}]
    /\ decision \in [Attempts -> {"none", "yes", "no", "dropped"}]
    /\ answer \in [Attempts -> {"none", "yes", "no"}]
    /\ todo \in SUBSET Attempts /\ refusing \in Attempts \cup {None}
    /\ accepted \in SUBSET Attempts
    /\ row \in Rows /\ active \in Attempts \cup {None}
    /\ run \in [Attempts -> RunSteps]
    /\ holding \in SUBSET Attempts /\ finished \in SUBSET Attempts
    /\ receipt \in [Attempts -> Receipts \cup {"none"}]
    /\ batch \in [Attempts -> Receipts \cup {"none"}]
    /\ cancelling \in BOOLEAN /\ deleting \in BOOLEAN /\ permit \in BOOLEAN
    /\ task \in {"listing", "sending", "waiting", "parked"}
    /\ sending \in Attempts \cup {None} /\ ack \in {"none", "recorded", "rejected"}
    /\ wire \in SUBSET (Attempts \X Receipts)
    /\ crashes \in 0 .. MaxCrashes

\* A sender that shows a request as completed tells the truth: that attempt
\* published its files and committed.
CompletedTruthfully == \A a \in Attempts : req[a] = "completed" => a \in finished

\* Whoever holds a receipt, on the device or in its queue, holds one the sender
\* can match: the request was accepted and its token is stored, unless the
\* sender has deleted the transfer.
ReceiptIsGenuine ==
    \A a \in Attempts :
        (a \in holding \/ receipt[a] # "none") =>
            \/ req[a] = "gone"
            \/ req[a] \in {"accepted", "completed", "failed"} /\ a \in token

\* Nobody reads an approval-required share without the sending user's consent:
\* an attempt gets content only after some request was accepted, if the user
\* neither opens the share nor approves the endpoint by hand (commands mode and
\* approve).  The handshake and the provider both rest on AccessPolicy::decide.
ContentNeedsConsent ==
    asked = "approval" =>
        \A a \in Attempts : run[a] \in {"fetching", "exported", "committed"} => accepted # {}

\* A row that says receiving has an attempt at work on it, or a cancellation
\* that is about to mark it.
ReceivingIsLive ==
    row = "receiving" => cancelling \/ \E a \in Attempts : run[a] \notin {"idle", "ended"}

\* Every request is answered, refused or expires.
RequestIsSettled == \A a \in Attempts : (req[a] = "requested") ~> (req[a] # "requested")

\* Every queued receipt reaches the sender, whose request ends with it unless
\* the transfer was deleted; lost calls, crashes of either process and the
\* deletion of the receiver's history do not stop it.
ReceiptIsSettled ==
    \A a \in Attempts :
        (receipt[a] # "none") ~>
            (receipt[a] = "none" /\ req[a] \in {"completed", "failed", "gone"})
==============================================================================
