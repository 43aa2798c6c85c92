-------------------------- MODULE Invitation_proofs ---------------------------
(***************************************************************************)
(* Proofs about Invitation: for any number of receive attempts and of      *)
(* process deaths, whatever both users do.                                 *)
(***************************************************************************)
EXTENDS Invitation, InvitationShare_proofs

-------------------------------------------------------------------------------
(* Types, device by device.                                                *)

ApprovalOK ==
    /\ req \in [Attempts -> Requests] /\ token \in SUBSET Attempts
    /\ hs \in [Attempts -> HsSteps] /\ call \in [Attempts -> Calls]
    /\ waiter \in [Attempts -> {"none", "pending", "user", "delete"}]
    /\ decision \in [Attempts -> {"none", "yes", "no", "dropped"}]
    /\ answer \in [Attempts -> {"none", "yes", "no"}]
    /\ todo \in SUBSET Attempts /\ refusing \in Attempts \cup {None}
    /\ accepted \in SUBSET Attempts

ReceiveOK ==
    /\ row \in Rows /\ active \in Attempts \cup {None}
    /\ run \in [Attempts -> RunSteps]
    /\ holding \in SUBSET Attempts /\ finished \in SUBSET Attempts
    /\ receipt \in [Attempts -> Receipts \cup {"none"}]
    /\ batch \in [Attempts -> Receipts \cup {"none"}]
    /\ cancelling \in BOOLEAN /\ deleting \in BOOLEAN /\ permit \in BOOLEAN
    /\ task \in {"listing", "sending", "waiting", "parked"}
    /\ sending \in Attempts \cup {None} /\ ack \in {"none", "recorded", "rejected"}
    /\ wire \in SUBSET (Attempts \X Receipts)

LEMMA ApprovalTypes ==
    ASSUME ApprovalOK, NEW a \in Attempts, ApprovalStep(a)
    PROVE  ApprovalOK'
<1> USE DEF ApprovalOK, Requests, HsSteps, Calls
<1>1. CASE HandshakeArrives(a)
  BY <1>1 DEF HandshakeArrives, HsMoves, requestVars, decisionVars, refusalVars
<1>2. CASE HandshakeRefused(a)
  BY <1>2
  DEF HandshakeRefused, HsMoves, Answered, Denies, requestVars, decisionVars,
      refusalVars
<1>3. CASE HandshakeExists(a)
  BY <1>3
  DEF HandshakeExists, HsMoves, Answered, Denies, requestVars, decisionVars,
      refusalVars
<1>4. CASE HandshakeDecides(a)
  BY <1>4 DEF HandshakeDecides, HsMoves, requestVars, decisionVars, refusalVars
<1>5. CASE AutoInsert(a)
  BY <1>5 DEF AutoInsert, HsMoves, requestVars, decisionVars, refusalVars
<1>6. CASE AutoAccept(a)
  BY <1>6
  DEF AutoAccept, HsMoves, Answered, Denies, Open, Record, requestVars,
      decisionVars, refusalVars
<1>7. CASE AutoToken(a)
  BY <1>7
  DEF AutoToken, HsMoves, Answered, AttachToken, requestVars, decisionVars,
      refusalVars
<1>8. CASE Queue(a)
  BY <1>8
  DEF Queue, HsMoves, Answered, Denies, Pending, requestVars, decisionVars,
      refusalVars
<1>9. CASE QueueInsert(a)
  BY <1>9 DEF QueueInsert, HsMoves, requestVars, decisionVars, refusalVars
<1>10. CASE WaitAccepted(a)
  BY <1>10 DEF WaitAccepted, HsMoves, requestVars, decisionVars, refusalVars
<1>11. CASE WaitRefused(a)
  BY <1>11
  DEF WaitRefused, HsMoves, Answered, Denies, requestVars, decisionVars,
      refusalVars
<1>12. CASE WaitExpires(a)
  BY <1>12 DEF WaitExpires, HsMoves, requestVars, decisionVars, refusalVars
<1>13. CASE Expire(a)
  BY <1>13
  DEF Expire, HsMoves, Answered, Denies, Open, Record, requestVars,
      decisionVars, refusalVars
<1>14. CASE GrantToken(a)
  BY <1>14
  DEF GrantToken, HsMoves, Answered, AttachToken, requestVars, decisionVars,
      refusalVars
<1>15. ASSUME NEW what \in {"yes", "no"}, RespondTake(a, what) PROVE ApprovalOK'
  BY <1>15 DEF RespondTake, Take, requestVars, decisionVars, refusalVars
<1>16. CASE RespondCommit(a)
  BY <1>16
  DEF RespondCommit, Open, Record, Settle, requestVars, decisionVars,
      refusalVars
<1> QED
  BY <1>1, <1>2, <1>3, <1>4, <1>5, <1>6, <1>7, <1>8, <1>9, <1>10, <1>11, <1>12,
     <1>13, <1>14, <1>15, <1>16
  DEF ApprovalStep, HandshakeStep

LEMMA RunTypes ==
    ASSUME ApprovalOK, ReceiveOK, NEW a \in Attempts, RunStep(a),
           UNCHANGED <<approvalRest, commandVars, deliveryRest>>
    PROVE  ApprovalOK' /\ ReceiveOK'
<1> USE DEF ApprovalOK, ReceiveOK, Requests, HsSteps, Calls, Rows, RunSteps, Receipts,
            approvalRest, commandVars, deliveryRest, requestVars, decisionVars, refusalVars
<1>1. CASE ReceiveEnter(a) /\ UNCHANGED permit
  BY <1>1 DEF ReceiveEnter, RunMoves
<1>2. CASE Ask(a) /\ UNCHANGED permit
  BY <1>2 DEF Ask, RunMoves
<1>3. CASE AskApproved(a) /\ UNCHANGED permit
  BY <1>3 DEF AskApproved, RunMoves
<1>4. CASE AskFails(a) /\ UNCHANGED permit
  BY <1>4 DEF AskFails, RunMoves
<1>5. CASE Fetch(a) /\ UNCHANGED permit
  BY <1>5 DEF Fetch, RunMoves
<1>6. CASE Export(a) /\ UNCHANGED permit
  BY <1>6 DEF Export, RunMoves
<1>7. CASE FetchFails(a) /\ UNCHANGED permit
  BY <1>7 DEF FetchFails, RunMoves
<1>8. CASE ReceiveCommit(a) /\ UNCHANGED permit
  BY <1>8 DEF ReceiveCommit, RunMoves
<1>9. CASE ReceiveCancelled(a) /\ UNCHANGED permit
  BY <1>9 DEF ReceiveCancelled
<1>10. CASE ReceiveLeave(a) /\ UNCHANGED permit
  BY <1>10 DEF ReceiveLeave, RunMoves
<1>11. CASE ReceiveFailed(a) /\ UNCHANGED permit
  BY <1>11 DEF ReceiveFailed, RunMoves
<1>12. CASE ReceiveFinish(a)
  BY <1>12 DEF ReceiveFinish, RunMoves
<1>13. CASE ReceiveReport(a)
  BY <1>13 DEF ReceiveReport, RunMoves
<1> QED
  BY <1>1, <1>2, <1>3, <1>4, <1>5, <1>6, <1>7, <1>8, <1>9, <1>10, <1>11, <1>12,
     <1>13
  DEF RunStep

-------------------------------------------------------------------------------
(* The inductive invariant.                                                *)

\* Whatever says that an attempt succeeded, on either device or between them,
\* says so of one that did.
SuccessInv ==
    \A a \in Attempts :
        \/ receipt[a] = "success" \/ batch[a] = "success"
        \/ <<a, "success">> \in wire \/ req[a] = "completed"
        => a \in finished

\* The sender can match the receipt of every attempt it has approved.
Matched(a) ==
    \/ req[a] = "gone"
    \/ req[a] \in {"accepted", "completed", "failed"} /\ a \in token

TokenInv ==
    \A a \in Attempts :
        call[a] = "approved" \/ a \in holding \/ receipt[a] # "none" => Matched(a)

\* An attempt has an approval only once its handshake is over, so that no
\* handshake opens the request of an attempt that has one.
HandshakeInv ==
    \A a \in Attempts :
        hs[a] # "done" => call[a] # "approved" /\ a \notin holding /\ receipt[a] = "none"

\* An attempt holds its receipt from the approval to its end.
HoldingInv ==
    \A a \in Attempts :
        run[a] \in {"approved", "fetching", "exported", "committed"} => a \in holding

\* A handshake past send_exists is about a share that was Sharing.
Offered == {"sharing", "stopped", "gone"}

OfferedInv ==
    \A a \in Attempts : hs[a] \notin {"idle", "arrived", "done"} => status \in Offered

InvitationInv ==
    /\ TypeOK
    /\ SuccessInv
    /\ TokenInv
    /\ HandshakeInv
    /\ HoldingInv
    /\ OfferedInv

-------------------------------------------------------------------------------
(* Steps of the share.                                                     *)

\* A share that was offered stays offered until the process dies.
LEMMA OfferKept ==
    ASSUME ShareTypeOK, ShareStep \/ DeleteList \/ DeleteRefused \/ DeleteRow,
           status \in Offered
    PROVE  status' \in Offered
<1> USE DEF Offered, ShareTypeOK, Preparers, Statuses
<1>1. CASE ShareInsert
  BY <1>1 DEF ShareInsert, Publishes
<1>2. CASE Commit
  BY <1>2 DEF Commit, Publishes
<1>3. CASE ShareFailed
  BY <1>3 DEF ShareFailed, Publishes
<1>4. CASE CommitLands
  BY <1>4 DEF CommitLands
<1>5. CASE StopDeny
  BY <1>5 DEF StopDeny, StopMoves
<1>6. CASE DeleteStop
  BY <1>6 DEF DeleteStop, DelMoves
<1>7. CASE DeleteRow
  BY <1>7 DEF DeleteRow, DelMoves
<1>8. ASSUME NEW w \in Preparers, PrepDeny(w) PROVE status' \in Offered
  BY <1>8 DEF PrepDeny
<1>9. ASSUME NEW w \in Preparers, PrepWithdraw(w) \/ PrepRelease(w) PROVE status' = status
  BY <1>9 DEF PrepWithdraw, PrepRelease
<1>10. ASSUME NEW c \in ModeCallers, SetModeStored(c) \/ SetModeActive(c) PROVE status' = status
  BY <1>10 DEF SetModeStored, SetModeActive
<1>11. CASE    ShareEnter \/ ImportFails \/ ImportDone \/ SetTag \/ LockShares
            \/ RegisterHashes \/ SetMode \/ Publish \/ ShareLeave
            \/ ShareDropped \/ CancelTransfer \/ StopWithdraw \/ StopRelease
            \/ DeleteCheck \/ DeleteRead \/ DeleteList \/ DeleteRefused
            \/ DeleteShare \/ DeleteWithdraw \/ DeleteRelease \/ ApproveCheck
            \/ ApproveGrant \/ SessionExpires
  BY <1>11
  DEF ShareEnter, ImportFails, ImportDone, SetTag, LockShares, RegisterHashes,
      SetMode, Publish, ShareLeave, ShareDropped, CancelTransfer, StopWithdraw,
      StopRelease, DeleteCheck, DeleteRead, DeleteList, DeleteRefused,
      DeleteShare, DeleteWithdraw, DeleteRelease, ApproveCheck, ApproveGrant,
      SessionExpires, GrantSession
<1> QED
  BY <1>1, <1>2, <1>3, <1>4, <1>5, <1>6, <1>7, <1>8, <1>9, <1>10, <1>11
  DEF ShareStep, PublishStep, PrepStep, StopStep, DeleteStep, CallStep

-------------------------------------------------------------------------------
(* Every step keeps the invariant.                                         *)

LEMMA SharingKeeps ==
    ASSUME InvitationInv, SharingStep
    PROVE  InvitationInv'
<1>1. ShareTypeOK'
  BY TypeKept DEF InvitationInv, TypeOK, SharingStep, ShareNext
<1>2. OfferedInv'
  BY OfferKept DEF InvitationInv, TypeOK, OfferedInv, SharingStep, approvalVars
<1> QED
  BY <1>1, <1>2
  DEF InvitationInv, SharingStep, TypeOK, SuccessInv, TokenInv, Matched, HandshakeInv,
      HoldingInv, approvalVars, requestVars, decisionVars, refusalVars, receiveVars,
      runVars, commandVars, deliveryVars

LEMMA ApprovingKeeps ==
    ASSUME InvitationInv, NEW a \in Attempts, ApprovingStep(a)
    PROVE  InvitationInv'
<1>s. /\ ApprovalStep(a)
      /\ UNCHANGED <<shareVars, receiveVars, crashes>>
  BY DEF ApprovingStep
<1>t. TypeOK'
  <2>1. ApprovalOK'
    BY <1>s, ApprovalTypes DEF InvitationInv, TypeOK, ApprovalOK
  <2>2. ShareTypeOK'
    BY <1>s, TypeKept DEF InvitationInv, TypeOK
  <2> QED
    BY <1>s, <2>1, <2>2
    DEF InvitationInv, TypeOK, ApprovalOK, receiveVars, runVars, commandVars, deliveryVars
<1>u. UNCHANGED <<status, run, holding, receipt, finished, batch, wire>>
  BY <1>s DEF shareVars, receiveVars, runVars, deliveryVars
<1>o. ApprovalOK /\ ApprovalOK'
  BY <1>t DEF InvitationInv, TypeOK, ApprovalOK
<1> USE <1>t, <1>u, <1>o
    DEF InvitationInv, ApprovalOK, SuccessInv, TokenInv, Matched, HandshakeInv, HoldingInv,
        OfferedInv, Offered
<1>1. CASE HandshakeArrives(a)
  BY <1>1 DEF HandshakeArrives, HsMoves, requestVars, decisionVars, refusalVars
<1>2. CASE HandshakeRefused(a)
  BY <1>2
  DEF HandshakeRefused, HsMoves, Answered, Denies, requestVars, decisionVars,
      refusalVars
<1>3. CASE HandshakeExists(a)
  BY <1>3
  DEF HandshakeExists, HsMoves, Answered, Denies, requestVars, decisionVars,
      refusalVars
<1>4. CASE HandshakeDecides(a)
  BY <1>4 DEF HandshakeDecides, HsMoves, requestVars, decisionVars, refusalVars
<1>5. CASE AutoInsert(a)
  BY <1>5 DEF AutoInsert, HsMoves, requestVars, decisionVars, refusalVars
<1>6. CASE AutoAccept(a)
  BY <1>6
  DEF AutoAccept, HsMoves, Answered, Denies, Open, Record, requestVars,
      decisionVars, refusalVars
<1>7. CASE AutoToken(a)
  BY <1>7
  DEF AutoToken, HsMoves, Answered, AttachToken, requestVars, decisionVars,
      refusalVars
<1>8. CASE Queue(a)
  BY <1>8
  DEF Queue, HsMoves, Answered, Denies, Pending, requestVars, decisionVars,
      refusalVars
<1>9. CASE QueueInsert(a)
  BY <1>9 DEF QueueInsert, HsMoves, requestVars, decisionVars, refusalVars
<1>10. CASE WaitAccepted(a)
  BY <1>10 DEF WaitAccepted, HsMoves, requestVars, decisionVars, refusalVars
<1>11. CASE WaitRefused(a)
  BY <1>11
  DEF WaitRefused, HsMoves, Answered, Denies, requestVars, decisionVars,
      refusalVars
<1>12. CASE WaitExpires(a)
  BY <1>12 DEF WaitExpires, HsMoves, requestVars, decisionVars, refusalVars
<1>13. CASE Expire(a)
  BY <1>13
  DEF Expire, HsMoves, Answered, Denies, Open, Record, requestVars,
      decisionVars, refusalVars
<1>14. CASE GrantToken(a)
  BY <1>14
  DEF GrantToken, HsMoves, Answered, AttachToken, requestVars, decisionVars,
      refusalVars
<1>15. ASSUME NEW what \in {"yes", "no"}, RespondTake(a, what) PROVE InvitationInv'
  BY <1>15 DEF RespondTake, Take, requestVars, decisionVars, refusalVars
<1>16. CASE RespondCommit(a)
  BY <1>16
  DEF RespondCommit, Open, Record, Settle, requestVars, decisionVars,
      refusalVars
<1> QED
  BY <1>s, <1>1, <1>2, <1>3, <1>4, <1>5, <1>6, <1>7, <1>8, <1>9, <1>10, <1>11,
     <1>12, <1>13, <1>14, <1>15, <1>16
  DEF ApprovalStep, HandshakeStep

LEMMA RunsKeep ==
    ASSUME InvitationInv, NEW a \in Attempts, Runs(a)
    PROVE  InvitationInv'
<1>s. /\ RunStep(a)
      /\ UNCHANGED <<shareVars, approvalRest, commandVars, deliveryRest, crashes>>
  BY DEF Runs
<1>t. TypeOK'
  <2>1. ApprovalOK' /\ ReceiveOK'
    BY <1>s, RunTypes DEF InvitationInv, TypeOK, ApprovalOK, ReceiveOK
  <2>2. ShareTypeOK'
    BY <1>s, TypeKept DEF InvitationInv, TypeOK
  <2> QED
    BY <1>s, <2>1, <2>2 DEF InvitationInv, TypeOK, ApprovalOK, ReceiveOK
<1>u. UNCHANGED <<status, req, token, hs, batch, wire>>
  BY <1>s DEF shareVars, approvalRest, requestVars, deliveryRest
<1>o. ApprovalOK /\ ReceiveOK /\ ApprovalOK' /\ ReceiveOK'
  BY <1>t DEF InvitationInv, TypeOK, ApprovalOK, ReceiveOK
<1> USE <1>t, <1>u, <1>o
    DEF InvitationInv, ApprovalOK, ReceiveOK, SuccessInv, TokenInv, Matched, HandshakeInv,
        HoldingInv, OfferedInv
<1>1. CASE ReceiveEnter(a)
  BY <1>1 DEF ReceiveEnter, RunMoves
<1>2. CASE Ask(a)
  BY <1>2 DEF Ask, RunMoves
<1>3. CASE AskApproved(a)
  BY <1>3 DEF AskApproved, RunMoves
<1>4. CASE AskFails(a)
  BY <1>4 DEF AskFails, RunMoves
<1>5. CASE Fetch(a)
  BY <1>5 DEF Fetch, RunMoves
<1>6. CASE Export(a)
  BY <1>6 DEF Export, RunMoves
<1>7. CASE FetchFails(a)
  BY <1>7 DEF FetchFails, RunMoves
<1>8. CASE ReceiveCommit(a)
  BY <1>8 DEF ReceiveCommit, RunMoves
<1>9. CASE ReceiveCancelled(a)
  BY <1>9 DEF ReceiveCancelled
<1>10. CASE ReceiveLeave(a)
  BY <1>10 DEF ReceiveLeave, RunMoves
<1>11. CASE ReceiveFailed(a)
  BY <1>11 DEF ReceiveFailed, RunMoves
<1>12. CASE ReceiveFinish(a)
  BY <1>12 DEF ReceiveFinish, RunMoves
<1>13. CASE ReceiveReport(a)
  BY <1>13 DEF ReceiveReport, RunMoves
<1> QED
  BY <1>s, <1>1, <1>2, <1>3, <1>4, <1>5, <1>6, <1>7, <1>8, <1>9, <1>10, <1>11,
     <1>12, <1>13
  DEF RunStep

LEMMA StartsKeep ==
    ASSUME InvitationInv, NEW a \in Attempts, Starts(a)
    PROVE  InvitationInv'
<1>1. ShareTypeOK'
  BY TypeKept DEF InvitationInv, TypeOK, Starts
<1>2. TypeOK'
  BY <1>1
  DEF InvitationInv, TypeOK, Starts, ReceiveStart, RunMoves, Rows, RunSteps, approvalRest,
      requestVars, decisionVars, refusalVars, commandVars, deliveryRest
<1>3. status' = status
  BY DEF Starts, shareVars
<1> QED
  BY <1>2, <1>3
  DEF InvitationInv, TypeOK, SuccessInv, TokenInv, Matched, HandshakeInv, HoldingInv,
      OfferedInv, Starts, ReceiveStart, RunMoves, approvalRest, requestVars, deliveryRest

LEMMA CommandKeeps ==
    ASSUME InvitationInv, Commanded
    PROVE  InvitationInv'
<1>1. ShareTypeOK'
  BY TypeKept DEF InvitationInv, TypeOK, Commanded
<1>2. UNCHANGED <<status, approvalVars, run, holding, receipt, finished, batch, wire>>
  BY DEF Commanded, ReceiveCommand, CancelReceive, MarkCancelled, DeleteReceiveCheck,
         DeleteReceiveRow, ClearHistory, shareVars, runVars, deliveryRest
<1>3. /\ row' \in Rows /\ active' \in Attempts \cup {None}
      /\ cancelling' \in BOOLEAN /\ deleting' \in BOOLEAN
  BY DEF InvitationInv, TypeOK, Rows, Commanded, ReceiveCommand, CancelReceive, MarkCancelled,
         DeleteReceiveCheck, DeleteReceiveRow, ClearHistory, runVars, commandVars
<1>4. TypeOK'
  BY <1>1, <1>2, <1>3
  DEF InvitationInv, TypeOK, Commanded, approvalVars, requestVars, decisionVars, refusalVars,
      deliveryRest
<1> QED
  BY <1>2, <1>4
  DEF InvitationInv, SuccessInv, TokenInv, Matched, HandshakeInv, HoldingInv, OfferedInv,
      approvalVars, requestVars

LEMMA DeliveryKeeps ==
    ASSUME InvitationInv, Delivers
    PROVE  InvitationInv'
<1>1. ShareTypeOK'
  BY TypeKept DEF InvitationInv, TypeOK, Delivers, deliveryFrame
<1>2. UNCHANGED <<status, approvalVars, row, active, run, holding, finished, commandVars, crashes>>
  BY DEF Delivers, deliveryFrame, shareVars
<1> DEFINE QueueOK ==
            /\ receipt \in [Attempts -> Receipts \cup {"none"}]
            /\ batch \in [Attempts -> Receipts \cup {"none"}]
            /\ task \in {"listing", "sending", "waiting", "parked"}
            /\ sending \in Attempts \cup {None} /\ ack \in {"none", "recorded", "rejected"}
            /\ wire \in SUBSET (Attempts \X Receipts)
           Queued == \A a \in Attempts : receipt'[a] \in {receipt[a], "none"}
<1>a. QueueOK
  BY DEF InvitationInv, TypeOK
<1>b. permit \in BOOLEAN
  BY DEF InvitationInv, TypeOK
<1> USE DEF Receipts
<1>3. QueueOK' /\ permit' \in BOOLEAN /\ Queued /\ SuccessInv'
  <2>i. SuccessInv
    BY DEF InvitationInv
  <2>f. finished' = finished /\ req' = req
    BY <1>2 DEF approvalVars, requestVars
  <2>1. CASE ListReceipts
    BY <2>1, <1>a, <1>b, <2>i, <2>f DEF ListReceipts, SuccessInv
  <2>2. CASE BatchDone
    BY <2>2, <1>a, <1>b, <2>i, <2>f DEF BatchDone, SuccessInv
  <2>3. CASE WakeUp
    BY <2>3, <1>a, <1>b, <2>i, <2>f DEF WakeUp, SuccessInv
  <2>4. ASSUME NEW a \in Attempts, SendReceipt(a)
        PROVE  QueueOK' /\ permit' \in BOOLEAN /\ Queued /\ SuccessInv'
    BY <2>4, <1>a, <1>b, <2>i, <2>f DEF SendReceipt, SuccessInv
  <2>5. ASSUME NEW a \in Attempts, ReceiptSettled(a)
        PROVE  QueueOK' /\ permit' \in BOOLEAN /\ Queued /\ SuccessInv'
    BY <2>5, <1>a, <1>b, <2>i, <2>f DEF ReceiptSettled, SuccessInv
  <2>6. ASSUME NEW a \in Attempts, ReceiptDeferred(a)
        PROVE  QueueOK' /\ permit' \in BOOLEAN /\ Queued /\ SuccessInv'
    BY <2>6, <1>a, <1>b, <2>i, <2>f DEF ReceiptDeferred, SuccessInv
  <2> QED BY <2>1, <2>2, <2>3, <2>4, <2>5, <2>6 DEF Delivers, DeliveryStep
<1>4. TypeOK'
  BY <1>1, <1>2, <1>3
  DEF InvitationInv, TypeOK, approvalVars, requestVars, decisionVars, refusalVars, commandVars
<1> HIDE DEF QueueOK
<1> QED
  BY <1>2, <1>3, <1>4
  DEF InvitationInv, TokenInv, Matched, HandshakeInv, HoldingInv, OfferedInv,
      approvalVars, requestVars

LEMMA GrantKeeps ==
    ASSUME InvitationInv, NEW a \in Attempts, SessionGranted(a)
    PROVE  InvitationInv' /\ RequestGranted
<1>1. status \in Offered
  BY DEF InvitationInv, OfferedInv, SessionGranted, Grant, HsMoves
<1>2. RequestGranted
  BY <1>1 DEF Offered, SessionGranted, RequestGranted
<1>3. ShareTypeOK'
  BY <1>2, TypeKept DEF InvitationInv, TypeOK, ShareNext
<1>4. status' = status
  BY DEF SessionGranted, GrantSession
<1>5. TypeOK'
  BY <1>3
  DEF InvitationInv, TypeOK, SessionGranted, Grant, HsMoves, HsSteps, requestVars,
      decisionVars, refusalVars, receiveVars, runVars, commandVars, deliveryVars
<1>6. SuccessInv' /\ TokenInv' /\ HandshakeInv' /\ HoldingInv' /\ OfferedInv'
  BY <1>1, <1>4, <1>5
  DEF InvitationInv, TypeOK, SuccessInv, TokenInv, Matched, HandshakeInv, HoldingInv, OfferedInv,
      SessionGranted, Grant, HsMoves, requestVars, receiveVars, runVars, deliveryVars
<1> QED BY <1>2, <1>5, <1>6 DEF InvitationInv

\* The steps of delete_transfer that refuse requests or delete them.
LEMMA DeletionKeeps ==
    ASSUME InvitationInv,
           \/ DeleteLists \/ DeleteHasRefused \/ DeleteRows
           \/ \E a \in Attempts : DeleteRefuses(a)
    PROVE  InvitationInv'
<1>1. [ShareNext]_shareVars
  BY DEF DeleteLists, DeleteHasRefused, DeleteRows, DeleteRefuses, ShareNext
<1>2. ShareTypeOK'
  BY <1>1, TypeKept DEF InvitationInv, TypeOK
<1>3. UNCHANGED <<hs, call, receiveVars, crashes>>
  BY DEF DeleteLists, DeleteHasRefused, DeleteRows, DeleteRefuses, ListRequests, RefuseTake,
         RefuseCommit, DeleteRequests, approvalVars
<1>4. status \in Offered => status' \in Offered
  BY OfferKept
  DEF InvitationInv, TypeOK, DeleteLists, DeleteHasRefused, DeleteRows, DeleteRefuses, shareVars
<1>5. ApprovalOK'
  <2> USE DEF InvitationInv, TypeOK, ApprovalOK, Requests
  <2>1. CASE DeleteLists
    BY <2>1 DEF DeleteLists, ListRequests, Open, requestVars, decisionVars
  <2>2. CASE DeleteHasRefused
    BY <2>2 DEF DeleteHasRefused, approvalVars, requestVars, decisionVars, refusalVars
  <2>3. CASE DeleteRows
    BY <2>3 DEF DeleteRows, DeleteRequests, decisionVars, refusalVars
  <2>4. ASSUME NEW a \in Attempts, RefuseTake(a) PROVE ApprovalOK'
    BY <2>4 DEF RefuseTake, Take, requestVars
  <2>5. ASSUME NEW a \in Attempts, RefuseCommit(a) PROVE ApprovalOK'
    BY <2>5 DEF RefuseCommit, Settle, Record, Open
  <2> QED BY <2>1, <2>2, <2>3, <2>4, <2>5 DEF DeleteRefuses
<1>6. TypeOK'
  BY <1>2, <1>3, <1>5
  DEF InvitationInv, TypeOK, ApprovalOK, receiveVars, runVars, commandVars, deliveryVars
<1>7. \A a \in Attempts : /\ req'[a] = "completed" => req[a] = "completed"
                          /\ Matched(a) => Matched(a)'
  <2> USE DEF InvitationInv, TypeOK, Matched
  <2>1. CASE DeleteLists
    BY <2>1 DEF DeleteLists, ListRequests, requestVars
  <2>2. CASE DeleteHasRefused
    BY <2>2 DEF DeleteHasRefused, approvalVars, requestVars
  <2>3. CASE DeleteRows
    BY <2>3 DEF DeleteRows, DeleteRequests
  <2>4. ASSUME NEW a \in Attempts, DeleteRefuses(a)
        PROVE  \A b \in Attempts : /\ req'[b] = "completed" => req[b] = "completed"
                                   /\ Matched(b) => Matched(b)'
    BY <2>4 DEF DeleteRefuses, RefuseTake, RefuseCommit, Settle, Record, Open, requestVars
  <2> QED BY <2>1, <2>2, <2>3, <2>4
<1> QED
  BY <1>3, <1>4, <1>6, <1>7
  DEF InvitationInv, SuccessInv, TokenInv, HandshakeInv, HoldingInv, OfferedInv,
      receiveVars, runVars, deliveryVars

\* A receipt reaches the sender or is lost.
LEMMA ReportKeeps ==
    ASSUME InvitationInv, NEW m \in wire, Reports(m) \/ Loses(m)
    PROVE  InvitationInv'
<1>1. ShareTypeOK'
  BY TypeKept DEF InvitationInv, TypeOK, Reports, Loses
<1>2. UNCHANGED <<status, hs, call, token, decisionVars, refusalVars, accepted, runVars,
                  commandVars, task, batch, sending, permit, crashes>>
  BY DEF Reports, Loses, ReceiptArrives, ReceiptRecorded, ReceiptLost, shareVars, approvalVars,
         requestVars
<1>3. m[1] \in Attempts /\ m[2] \in Receipts /\ m = <<m[1], m[2]>>
  BY DEF InvitationInv, TypeOK
<1>4. wire' = wire \ {m} /\ ack' \in {"none", "recorded", "rejected"}
  BY DEF InvitationInv, TypeOK, Reports, Loses, ReceiptArrives, ReceiptLost
<1>5. /\ req' \in [Attempts -> Requests]
      /\ \A a \in Attempts : /\ req'[a] = "completed" => req[a] = "completed" \/ m = <<a, "success">>
                             /\ Matched(a) => Matched(a)'
  <2>1. CASE Reports(m)
    BY <2>1, <1>3
    DEF InvitationInv, TypeOK, Requests, Receipts, Matched, Reports, ReceiptArrives,
        ReceiptRecorded, RecordsReceipt, Ending
  <2>2. CASE Loses(m)
    BY <2>2 DEF InvitationInv, TypeOK, Matched, Loses, approvalVars, requestVars
  <2> QED BY <2>1, <2>2
<1>6. TypeOK'
  BY <1>1, <1>2, <1>4, <1>5
  DEF InvitationInv, TypeOK, decisionVars, refusalVars, runVars, commandVars
<1>7. SuccessInv'
  BY <1>2, <1>3, <1>4, <1>5 DEF InvitationInv, SuccessInv, runVars
<1>8. TokenInv'
  BY <1>2, <1>5 DEF InvitationInv, TokenInv, runVars
<1> QED
  BY <1>2, <1>6, <1>7, <1>8 DEF InvitationInv, HandshakeInv, HoldingInv, OfferedInv, runVars

LEMMA DeathKeeps ==
    ASSUME InvitationInv, SenderDies \/ ReceiverDies
    PROVE  InvitationInv'
<1>0. [ShareNext]_shareVars
  BY DEF SenderDies, ReceiverDies, ShareNext
<1>1. ShareTypeOK'
  BY <1>0, TypeKept DEF InvitationInv, TypeOK
<1>2. crashes' \in 0 .. MaxCrashes
  BY InvitationAssumption DEF InvitationInv, TypeOK, SenderDies, ReceiverDies
<1>3. CASE SenderDies
  <2>1. TypeOK'
    BY <1>1, <1>2, <1>3
    DEF InvitationInv, TypeOK, SenderDies, RestartApproval, Open, Requests, HsSteps,
        receiveVars, runVars, commandVars, deliveryVars
  <2>2. \A a \in Attempts : /\ hs'[a] \in {"idle", "done"} /\ (hs[a] = "done" => hs'[a] = "done")
                            /\ req'[a] = "completed" => req[a] = "completed"
                            /\ Matched(a) => Matched(a)'
    BY <1>3 DEF InvitationInv, TypeOK, SenderDies, RestartApproval, Open, Matched
  <2> QED
    BY <1>3, <2>1, <2>2
    DEF InvitationInv, SuccessInv, TokenInv, HandshakeInv, HoldingInv, OfferedInv,
        SenderDies, RestartApproval, receiveVars, runVars, deliveryVars
<1>4. CASE ReceiverDies
  <2>1. TypeOK'
    BY <1>1, <1>2, <1>4
    DEF InvitationInv, TypeOK, ReceiverDies, RestartReceive, Rows, RunSteps, Calls, Empty,
        approvalRest, requestVars, decisionVars, refusalVars
  <2>2. status' = status
    BY <1>4 DEF ReceiverDies, shareVars
  <2> QED
    BY <1>4, <2>1, <2>2
    DEF InvitationInv, SuccessInv, TokenInv, Matched, HandshakeInv, HoldingInv, OfferedInv,
        ReceiverDies, RestartReceive, Empty, approvalRest, requestVars
<1> QED BY <1>3, <1>4

LEMMA StepKeeps ==
    ASSUME InvitationInv, [Next]_vars
    PROVE  InvitationInv'
<1>1. CASE UNCHANGED vars
  BY <1>1
  DEF InvitationInv, TypeOK, ShareTypeOK, SuccessInv, TokenInv, Matched, HandshakeInv, HoldingInv,
      OfferedInv, vars, shareVars, accessVars, pubVars, jobVars, approvalVars, requestVars,
      decisionVars, refusalVars, receiveVars, runVars, commandVars, deliveryVars
<1> QED
  BY <1>1, SharingKeeps, ApprovingKeeps, GrantKeeps, DeletionKeeps, StartsKeep, RunsKeep,
     CommandKeeps, DeliveryKeeps, ReportKeeps, DeathKeeps
  DEF Next

LEMMA StartHolds == Init => InvitationInv
<1> SUFFICES ASSUME Init PROVE InvitationInv
  OBVIOUS
<1>1. ShareTypeOK
  BY InitHolds DEF Init, ShareInv
<1>2. TypeOK
  <2>1. ApprovalOK
    BY DEF Init, ApprovalInit, ApprovalOK, Requests, HsSteps, Calls
  <2>2. /\ run \in [Attempts -> RunSteps]
        /\ receipt \in [Attempts -> Receipts \cup {"none"}]
        /\ batch \in [Attempts -> Receipts \cup {"none"}]
        /\ row \in Rows /\ crashes \in 0 .. MaxCrashes
    BY InvitationAssumption DEF Init, ReceiveInit, RunSteps, Rows
  <2>3. cancelling \in BOOLEAN /\ deleting \in BOOLEAN /\ permit \in BOOLEAN
    BY DEF Init, ReceiveInit
  <2> QED BY <1>1, <2>1, <2>2, <2>3 DEF Init, ReceiveInit, TypeOK, ApprovalOK
<1> QED
  BY <1>2
  DEF Init, ApprovalInit, ReceiveInit, InvitationInv, SuccessInv, TokenInv, HandshakeInv,
      HoldingInv, OfferedInv

-------------------------------------------------------------------------------
(* The theorems.                                                           *)

\* The invariant is inductive, for every instance.
THEOREM InvitationInductive == Spec => []InvitationInv
  BY StartHolds, StepKeeps, PTL DEF Spec

\* Every variable keeps its type.
THEOREM InvitationTypeCorrect == Spec => []TypeOK
<1>1. InvitationInv => TypeOK
  BY DEF InvitationInv
<1> QED BY InvitationInductive, <1>1, PTL

\* CompletedTruthfully: a request the sender shows as completed belongs to an
\* attempt that published its files and committed.
THEOREM CompletionIsTrue == Spec => []CompletedTruthfully
<1>1. InvitationInv => CompletedTruthfully
  BY DEF InvitationInv, SuccessInv, CompletedTruthfully
<1> QED BY InvitationInductive, <1>1, PTL

\* ReceiptIsGenuine: the sender can match every receipt that is held or queued.
THEOREM ReceiptsAreGenuine == Spec => []ReceiptIsGenuine
<1>1. InvitationInv => ReceiptIsGenuine
  BY DEF InvitationInv, TokenInv, Matched, ReceiptIsGenuine
<1> QED BY InvitationInductive, <1>1, PTL

\* The composed system implements the specification of the share: what the
\* approval service grants is what ShareSpec allows it to.
THEOREM InvitationImplementsShare == Spec => ShareSpec
<1>1. Init => ShareInit
  BY DEF Init
<1>2. ASSUME InvitationInv, [Next]_vars
      PROVE  [ShareNext]_shareVars
  <2>1. CASE UNCHANGED vars
    BY <2>1 DEF vars
  <2>2. ASSUME NEW a \in Attempts, SessionGranted(a) PROVE ShareNext
    BY <1>2, <2>2, GrantKeeps DEF ShareNext
  <2>3. ASSUME NEW a \in Attempts,
               ApprovingStep(a) \/ DeleteRefuses(a) \/ Starts(a) \/ Runs(a)
        PROVE  UNCHANGED shareVars
    BY <2>3 DEF ApprovingStep, DeleteRefuses, Starts, Runs
  <2>4. ASSUME NEW m \in wire, Reports(m) \/ Loses(m) PROVE UNCHANGED shareVars
    BY <2>4 DEF Reports, Loses
  <2>5. CASE SharingStep \/ DeleteLists \/ DeleteHasRefused \/ DeleteRows \/ SenderDies
    BY <2>5 DEF SharingStep, DeleteLists, DeleteHasRefused, DeleteRows, SenderDies, ShareNext
  <2>6. CASE Commanded \/ Delivers \/ ReceiverDies
    BY <2>6 DEF Commanded, Delivers, deliveryFrame, ReceiverDies
  <2> QED BY <1>2, <2>1, <2>2, <2>3, <2>4, <2>5, <2>6 DEF Next
<1> QED BY <1>1, <1>2, InvitationInductive, PTL DEF Spec, ShareSpec

\* So a share is served only while it is Sharing, or about to be withdrawn, also
\* while receivers ask for it and requests are refused by its deletion.
THEOREM InvitationServesOnlyShared ==
    ASSUME "delete_early" \notin Commands
    PROVE  Spec => [](ServedOnlyWhileShared /\ SharingKeepsPayload)
  BY InvitationImplementsShare, NeverServedAfterwards, PayloadKept, PTL

-------------------------------------------------------------------------------
(* Consent, when the sending user neither opens the share nor approves an  *)
(* endpoint by hand.                                                       *)

\* The access policy of an approval-required share is never public.
PolicyInv ==
    /\ \A c \in ModeCallers : setting[c] = "none"
    /\ approving = FALSE
    /\ stored = asked
    /\ pub = "idle" => asked = "approval"
    /\ asked = "approval" => mode # "public"

\* Every session, and every handshake about to open one, goes back to a request
\* that the user accepted.
ConsentInv ==
    /\ PolicyInv
    /\ \A a \in Attempts : decision[a] = "yes" => a \in accepted
    /\ \A a \in Attempts : hs[a] = "granting" => accepted # {}
    /\ session => accepted # {}
    /\ ContentNeedsConsent

LEMMA PolicyKept ==
    ASSUME ShareTypeOK, PolicyInv, ShareStep \/ DeleteList \/ DeleteRefused \/ DeleteRow \/ RestartShare,
           "mode" \notin Commands, "approve" \notin Commands
    PROVE  /\ PolicyInv'
           /\ session' => session
           /\ asked' = "approval" => asked = "approval"
<1> DEFINE Goal == /\ PolicyInv'
                   /\ session' => session
                   /\ asked' = "approval" => asked = "approval"
<1> USE DEF PolicyInv, ShareTypeOK
<1>1. CASE ShareInsert
  BY <1>1 DEF ShareInsert, Publishes, accessVars, jobVars
<1>2. CASE ShareEnter
  BY <1>2 DEF ShareEnter, Publishes, accessVars, jobVars
<1>3. CASE ImportFails
  BY <1>3 DEF ImportFails, Publishes, accessVars, jobVars
<1>4. CASE ImportDone
  BY <1>4 DEF ImportDone, Publishes, accessVars, jobVars
<1>5. CASE SetTag
  BY <1>5 DEF SetTag, Publishes, jobVars
<1>6. CASE LockShares
  BY <1>6 DEF LockShares, Publishes, accessVars, jobVars
<1>7. CASE Commit
  BY <1>7 DEF Commit, Publishes, jobVars
<1>8. CASE RegisterHashes
  BY <1>8 DEF RegisterHashes, Publishes, jobVars
<1>9. CASE SetMode
  BY <1>9 DEF SetMode, Publishes, jobVars
<1>10. CASE Publish
  BY <1>10 DEF Publish, Publishes, jobVars
<1>11. CASE ShareLeave
  BY <1>11 DEF ShareLeave, Publishes, accessVars, jobVars
<1>12. CASE ShareFailed
  BY <1>12 DEF ShareFailed, Publishes, accessVars, jobVars
<1>13. CASE ShareDropped
  BY <1>13 DEF ShareDropped, accessVars
<1>14. CASE CommitLands
  BY <1>14 DEF CommitLands, accessVars, jobVars
<1>15. CASE CancelTransfer
  BY <1>15 DEF CancelTransfer, accessVars
<1>16. CASE StopDeny
  BY <1>16 DEF StopDeny, StopMoves, pubVars
<1>17. CASE StopWithdraw
  BY <1>17 DEF StopWithdraw, StopMoves, Withdraw, pubVars
<1>18. CASE StopRelease
  BY <1>18 DEF StopRelease, StopMoves, pubVars
<1>19. CASE DeleteCheck
  BY <1>19 DEF DeleteCheck, DelMoves, accessVars, pubVars
<1>20. CASE DeleteRead
  BY <1>20 DEF DeleteRead, DelMoves, accessVars, pubVars
<1>21. CASE DeleteStop
  BY <1>21 DEF DeleteStop, DelMoves, accessVars, pubVars
<1>22. CASE DeleteList
  BY <1>22 DEF DeleteList, DelMoves, accessVars, pubVars
<1>23. CASE DeleteRefused
  BY <1>23 DEF DeleteRefused, DelMoves, accessVars, pubVars
<1>24. CASE DeleteShare
  BY <1>24 DEF DeleteShare, DelMoves, pubVars
<1>25. CASE DeleteWithdraw
  BY <1>25 DEF DeleteWithdraw, DelMoves, Withdraw, pubVars
<1>26. CASE DeleteRelease
  BY <1>26 DEF DeleteRelease, DelMoves, pubVars
<1>27. CASE DeleteRow
  BY <1>27 DEF DeleteRow, DelMoves, accessVars, pubVars
<1>28. CASE ApproveCheck
  BY <1>28 DEF ApproveCheck, accessVars, pubVars
<1>29. CASE ApproveGrant
  BY <1>29 DEF ApproveGrant, GrantSession
<1>30. CASE SessionExpires
  BY <1>30 DEF SessionExpires, jobVars, pubVars
<1>31. CASE RestartShare
  BY <1>31 DEF RestartShare, RestoredStatuses
<1>32. ASSUME NEW w \in Preparers, PrepDeny(w) PROVE Goal
  BY <1>32 DEF PrepDeny, PrepMoves, accessVars, pubVars
<1>33. ASSUME NEW w \in Preparers, PrepWithdraw(w) PROVE Goal
  BY <1>33 DEF PrepWithdraw, PrepMoves, Withdraw, pubVars
<1>34. ASSUME NEW w \in Preparers, PrepRelease(w) PROVE Goal
  BY <1>34 DEF PrepRelease, PrepMoves, pubVars
<1>35. ASSUME NEW c \in ModeCallers, SetModeStored(c) PROVE Goal
  BY <1>35 DEF SetModeStored, accessVars, pubVars
<1>36. ASSUME NEW c \in ModeCallers, SetModeActive(c) PROVE Goal
  BY <1>36 DEF SetModeActive, pubVars
<1> QED
  BY <1>1, <1>2, <1>3, <1>4, <1>5, <1>6, <1>7, <1>8, <1>9, <1>10, <1>11, <1>12,
     <1>13, <1>14, <1>15, <1>16, <1>17, <1>18, <1>19, <1>20, <1>21, <1>22,
     <1>23, <1>24, <1>25, <1>26, <1>27, <1>28, <1>29, <1>30, <1>31, <1>32,
     <1>33, <1>34, <1>35, <1>36
  DEF ShareStep, PublishStep, PrepStep, StopStep, DeleteStep, CallStep

\* A step that leaves the share alone keeps the policy.
LEMMA PolicyStays ==
    ASSUME PolicyInv, UNCHANGED shareVars
    PROVE  PolicyInv' /\ session' = session /\ asked' = asked
  BY DEF PolicyInv, shareVars, accessVars, pubVars, jobVars

LEMMA ApprovingKeepsConsent ==
    ASSUME InvitationInv, ConsentInv, NEW a \in Attempts, ApprovingStep(a)
    PROVE  ConsentInv'
<1>s. /\ ApprovalStep(a)
      /\ UNCHANGED <<shareVars, receiveVars>>
  BY DEF ApprovingStep
<1>p. PolicyInv' /\ session' = session /\ asked' = asked /\ run' = run
  BY <1>s, PolicyStays DEF ConsentInv, receiveVars, runVars
<1> DEFINE Goal ==
            /\ accepted \subseteq accepted'
            /\ \A b \in Attempts : decision'[b] = "yes" => b \in accepted'
            /\ \A b \in Attempts : hs'[b] = "granting" => accepted' # {}
<1>o. ApprovalOK
  BY DEF InvitationInv, TypeOK, ApprovalOK
<1>c. /\ \A b \in Attempts : decision[b] = "yes" => b \in accepted
      /\ \A b \in Attempts : hs[b] = "granting" => accepted # {}
  BY DEF ConsentInv
<1>g. Goal
  <2> USE <1>c, <1>o DEF ApprovalOK
  <2>1. CASE HandshakeArrives(a)
    BY <2>1
    DEF HandshakeArrives, HsMoves, requestVars, decisionVars, refusalVars
  <2>2. CASE HandshakeRefused(a)
    BY <2>2
    DEF HandshakeRefused, HsMoves, Answered, Denies, requestVars, decisionVars,
        refusalVars
  <2>3. CASE HandshakeExists(a)
    BY <2>3
    DEF HandshakeExists, HsMoves, Answered, Denies, requestVars, decisionVars,
        refusalVars
  <2>4. CASE HandshakeDecides(a)
    BY <2>4
    DEF HandshakeDecides, HsMoves, requestVars, decisionVars, refusalVars
  <2>5. CASE AutoInsert(a)
    BY <2>5 DEF AutoInsert, HsMoves, requestVars, decisionVars, refusalVars
  <2>6. CASE AutoAccept(a)
    BY <2>6
    DEF AutoAccept, HsMoves, Answered, Denies, Open, Record, requestVars,
        decisionVars, refusalVars
  <2>7. CASE AutoToken(a)
    BY <2>7
    DEF AutoToken, HsMoves, Answered, AttachToken, requestVars, decisionVars,
        refusalVars
  <2>8. CASE Queue(a)
    BY <2>8
    DEF Queue, HsMoves, Answered, Denies, Pending, requestVars, decisionVars,
        refusalVars
  <2>9. CASE QueueInsert(a)
    BY <2>9 DEF QueueInsert, HsMoves, requestVars, decisionVars, refusalVars
  <2>10. CASE WaitAccepted(a)
    BY <2>10 DEF WaitAccepted, HsMoves, requestVars, decisionVars, refusalVars
  <2>11. CASE WaitRefused(a)
    BY <2>11
    DEF WaitRefused, HsMoves, Answered, Denies, requestVars, decisionVars,
        refusalVars
  <2>12. CASE WaitExpires(a)
    BY <2>12 DEF WaitExpires, HsMoves, requestVars, decisionVars, refusalVars
  <2>13. CASE Expire(a)
    BY <2>13
    DEF Expire, HsMoves, Answered, Denies, Open, Record, requestVars,
        decisionVars, refusalVars
  <2>14. CASE GrantToken(a)
    BY <2>14
    DEF GrantToken, HsMoves, Answered, AttachToken, requestVars, decisionVars,
        refusalVars
  <2>15. ASSUME NEW what \in {"yes", "no"}, RespondTake(a, what) PROVE Goal
    BY <2>15 DEF RespondTake, Take, requestVars, decisionVars, refusalVars
  <2>16. CASE RespondCommit(a)
    BY <2>16
    DEF RespondCommit, Open, Record, Settle, requestVars, decisionVars,
        refusalVars
  <2> QED
    BY <1>s, <2>1, <2>2, <2>3, <2>4, <2>5, <2>6, <2>7, <2>8, <2>9, <2>10,
       <2>11, <2>12, <2>13, <2>14, <2>15, <2>16
    DEF ApprovalStep, HandshakeStep
<1> QED
  BY <1>p, <1>g DEF ConsentInv, ContentNeedsConsent

LEMMA RunsKeepConsent ==
    ASSUME InvitationInv, ConsentInv, NEW a \in Attempts, Runs(a) \/ Starts(a)
    PROVE  ConsentInv'
<1>p. PolicyInv' /\ session' = session /\ asked' = asked
  BY PolicyStays DEF ConsentInv, Runs, Starts
<1>u. decision' = decision /\ hs' = hs /\ accepted' = accepted
  BY DEF Runs, Starts, approvalRest, decisionVars
<1>r. run \in [Attempts -> RunSteps]
  BY DEF InvitationInv, TypeOK
<1> DEFINE Content == {"fetching", "exported", "committed"}
<1>g. asked = "approval" =>
        \A b \in Attempts : run'[b] \in Content => accepted # {}
  <2> SUFFICES ASSUME asked = "approval", NEW b \in Attempts, run'[b] \in Content,
                      run[b] \notin Content
               PROVE  accepted # {}
    BY DEF ConsentInv, ContentNeedsConsent
  <2>1. Fetch(a)
    BY <1>r
    DEF Runs, Starts, RunStep, ReceiveStart, ReceiveEnter, Ask, AskApproved, AskFails, Export,
        FetchFails, ReceiveCommit, ReceiveCancelled, ReceiveLeave, ReceiveFailed,
        ReceiveFinish, ReceiveReport, RunMoves
  <2>2. session
    BY <2>1 DEF Fetch, Readable, Decide, ConsentInv, PolicyInv
  <2> QED BY <2>2 DEF ConsentInv
<1> QED BY <1>p, <1>u, <1>g DEF ConsentInv, ContentNeedsConsent

LEMMA StepKeepsConsent ==
    ASSUME InvitationInv, ConsentInv, [Next]_vars,
           "mode" \notin Commands, "approve" \notin Commands
    PROVE  ConsentInv'
<1>t. ShareTypeOK
  BY DEF InvitationInv, TypeOK
<1>1. CASE SharingStep \/ DeleteLists \/ DeleteHasRefused \/ DeleteRows
  <2>1. PolicyInv' /\ (session' => session) /\ (asked' = "approval" => asked = "approval")
    BY <1>1, <1>t, PolicyKept
    DEF ConsentInv, SharingStep, DeleteLists, DeleteHasRefused, DeleteRows
  <2>2. UNCHANGED <<decision, hs, accepted, run>>
    BY <1>1
    DEF SharingStep, DeleteLists, DeleteHasRefused, DeleteRows, ListRequests, DeleteRequests,
        approvalVars, decisionVars, receiveVars, runVars
  <2> QED BY <2>1, <2>2 DEF ConsentInv, ContentNeedsConsent
<1>2. ASSUME NEW a \in Attempts, SessionGranted(a) PROVE ConsentInv'
  <2>1. PolicyInv' /\ asked' = asked
    BY <1>2
    DEF ConsentInv, PolicyInv, SessionGranted, GrantSession, pubVars
  <2>2. accepted # {}
    BY <1>2 DEF ConsentInv, SessionGranted, Grant, HsMoves
  <2>3. UNCHANGED <<decision, accepted, run>>
    BY <1>2 DEF SessionGranted, Grant, decisionVars, receiveVars, runVars
  <2> QED BY <2>1, <2>2, <2>3 DEF ConsentInv, ContentNeedsConsent
<1>3. ASSUME NEW a \in Attempts, DeleteRefuses(a) PROVE ConsentInv'
  <2>1. PolicyInv' /\ session' = session /\ asked' = asked
    BY <1>3, PolicyStays DEF ConsentInv, DeleteRefuses
  <2>2. UNCHANGED <<hs, accepted, run>>
    BY <1>3 DEF DeleteRefuses, RefuseTake, RefuseCommit, receiveVars, runVars
  <2>3. \A b \in Attempts : decision'[b] = "yes" => decision[b] = "yes"
    BY <1>3
    DEF InvitationInv, TypeOK, DeleteRefuses, RefuseTake, RefuseCommit, Settle
  <2> QED BY <2>1, <2>2, <2>3 DEF ConsentInv, ContentNeedsConsent
<1>4. CASE Commanded \/ Delivers \/ \E m \in wire : Reports(m) \/ Loses(m)
  <2>1. UNCHANGED shareVars
    BY <1>4 DEF Commanded, Delivers, deliveryFrame, Reports, Loses
  <2>2. UNCHANGED <<decision, hs, accepted>>
    BY <1>4
    DEF Commanded, Delivers, deliveryFrame, Reports, Loses, ReceiptArrives, ReceiptRecorded,
        approvalVars, decisionVars
  <2>3. run' = run
    BY <1>4
    DEF Commanded, ReceiveCommand, CancelReceive, MarkCancelled, DeleteReceiveCheck,
        DeleteReceiveRow, ClearHistory, Delivers, deliveryFrame, Reports, Loses, runVars
  <2> QED BY <2>1, <2>2, <2>3, PolicyStays DEF ConsentInv, ContentNeedsConsent
<1>5. CASE SenderDies
  <2>1. PolicyInv' /\ (session' => session) /\ (asked' = "approval" => asked = "approval")
    BY <1>5, <1>t, PolicyKept DEF ConsentInv, SenderDies
  <2>2. UNCHANGED <<accepted, run>>
    BY <1>5 DEF SenderDies, RestartApproval, receiveVars, runVars
  <2>3. \A b \in Attempts : decision'[b] # "yes" /\ hs'[b] # "granting"
    BY <1>5 DEF SenderDies, RestartApproval
  <2> QED BY <2>1, <2>2, <2>3 DEF ConsentInv, ContentNeedsConsent
<1>6. CASE ReceiverDies
  <2>1. PolicyInv' /\ session' = session /\ asked' = asked
    BY <1>6, PolicyStays DEF ConsentInv, ReceiverDies
  <2>2. UNCHANGED <<decision, hs, accepted>>
    BY <1>6 DEF ReceiverDies, approvalRest, decisionVars
  <2>3. \A b \in Attempts : run'[b] \in {"idle", "ended"}
    BY <1>6 DEF ReceiverDies, RestartReceive
  <2> QED BY <2>1, <2>2, <2>3 DEF ConsentInv, ContentNeedsConsent
<1>7. CASE UNCHANGED vars
  <2>1. PolicyInv' /\ session' = session /\ asked' = asked
    BY <1>7, PolicyStays DEF ConsentInv, vars
  <2> QED
    BY <1>7, <2>1
    DEF ConsentInv, ContentNeedsConsent, vars, approvalVars, decisionVars, receiveVars, runVars
<1> QED
  BY <1>1, <1>2, <1>3, <1>4, <1>5, <1>6, <1>7, ApprovingKeepsConsent, RunsKeepConsent DEF Next

\* ContentNeedsConsent: no attempt reads an approval-required share before the
\* sending user has accepted a request.
THEOREM NoContentWithoutConsent ==
    ASSUME "mode" \notin Commands, "approve" \notin Commands
    PROVE  Spec => []ContentNeedsConsent
<1>1. Init => ConsentInv
  BY DEF Init, ShareInit, ApprovalInit, ReceiveInit, ConsentInv, PolicyInv, ContentNeedsConsent
<1>2. InvitationInv /\ ConsentInv /\ [Next]_vars => ConsentInv'
  BY StepKeepsConsent
<1>3. ConsentInv => ContentNeedsConsent
  BY DEF ConsentInv
<1> QED BY <1>1, <1>2, <1>3, InvitationInductive, PTL DEF Spec

-------------------------------------------------------------------------------
(* The history row of a single attempt.  With two attempts the entry of    *)
(* one may be removed by the other, and the row be left Receiving.         *)

\* Steps at which an attempt can be cancelled: its entry is in place, or a
\* cancellation took it.
Cancellable == {"entered", "asking", "approved", "fetching", "exported", "committed"}

RowInv ==
    row = "receiving" => cancelling \/ \A a \in Attempts :
        /\ run[a] \in {"started", "failing", "marking"} \cup Cancellable
        /\ run[a] \in Cancellable => active = a /\ run[a] # "committed"

LEMMA RunsKeepRow ==
    ASSUME InvitationInv, RowInv, \A a, b \in Attempts : a = b,
           NEW a \in Attempts, Runs(a) \/ Starts(a)
    PROVE  RowInv'
<1>1. /\ \A b \in Attempts : b = a
      /\ cancelling' = cancelling
      /\ run \in [Attempts -> RunSteps]
  BY DEF Runs, Starts, commandVars, InvitationInv, TypeOK
<1> SUFFICES ASSUME row' = "receiving", ~cancelling
             PROVE  /\ run'[a] \in {"started", "failing", "marking"} \cup Cancellable
                    /\ run'[a] \in Cancellable => active' = a /\ run'[a] # "committed"
  BY <1>1 DEF RowInv
<1> USE <1>1 DEF RowInv, Cancellable, RunMoves
<1>2. CASE Starts(a)
  BY <1>2 DEF Starts, ReceiveStart
<1>3. CASE ReceiveEnter(a)
  BY <1>3 DEF ReceiveEnter
<1>4. CASE Ask(a)
  BY <1>4 DEF Ask
<1>5. CASE AskApproved(a)
  BY <1>5 DEF AskApproved
<1>6. CASE AskFails(a)
  BY <1>6 DEF AskFails
<1>7. CASE Fetch(a)
  BY <1>7 DEF Fetch
<1>8. CASE Export(a)
  BY <1>8 DEF Export
<1>9. CASE FetchFails(a)
  BY <1>9 DEF FetchFails
<1>10. CASE ReceiveCommit(a)
  BY <1>10 DEF ReceiveCommit
<1>11. CASE ReceiveCancelled(a)
  BY <1>11 DEF ReceiveCancelled
<1>12. CASE ReceiveLeave(a)
  BY <1>12 DEF ReceiveLeave
<1>13. CASE ReceiveFailed(a)
  BY <1>13 DEF ReceiveFailed
<1>14. CASE ReceiveFinish(a)
  BY <1>14 DEF ReceiveFinish
<1>15. CASE ReceiveReport(a)
  BY <1>15 DEF ReceiveReport
<1> QED
  BY <1>2, <1>3, <1>4, <1>5, <1>6, <1>7, <1>8, <1>9, <1>10, <1>11, <1>12,
     <1>13, <1>14, <1>15
  DEF Runs, RunStep

LEMMA StepKeepsRow ==
    ASSUME InvitationInv, RowInv, \A a, b \in Attempts : a = b, [Next]_vars
    PROVE  RowInv'
<1>1. CASE UNCHANGED <<row, cancelling, run, active>>
  BY <1>1 DEF RowInv
<1>2. CASE Commanded
  BY <1>2
  DEF RowInv, Commanded, ReceiveCommand, CancelReceive, MarkCancelled, DeleteReceiveCheck,
      DeleteReceiveRow, ClearHistory, Ended, runVars, commandVars
<1>3. CASE ReceiverDies
  BY <1>3 DEF RowInv, ReceiverDies, RestartReceive
<1>4. ASSUME NEW a \in Attempts, ApprovingStep(a) \/ SessionGranted(a) \/ DeleteRefuses(a)
      PROVE  UNCHANGED <<row, cancelling, run, active>>
  BY <1>4
  DEF ApprovingStep, SessionGranted, DeleteRefuses, receiveVars, runVars, commandVars
<1>5. CASE SharingStep \/ DeleteLists \/ DeleteHasRefused \/ DeleteRows \/ SenderDies
  BY <1>1, <1>5
  DEF SharingStep, DeleteLists, DeleteHasRefused, DeleteRows, SenderDies, receiveVars, runVars,
      commandVars
<1>6. CASE Delivers \/ \E m \in wire : Reports(m) \/ Loses(m)
  BY <1>1, <1>6 DEF Delivers, deliveryFrame, Reports, Loses, runVars, commandVars
<1>7. CASE UNCHANGED vars
  BY <1>1, <1>7 DEF vars, receiveVars, runVars, commandVars
<1> QED BY <1>1, <1>2, <1>3, <1>4, <1>5, <1>6, <1>7, RunsKeepRow DEF Next

\* ReceivingIsLive: while a single attempt is made for a ticket, a row that says
\* receiving has that attempt, or a cancellation, at work on it.
THEOREM ReceivingRowIsLive ==
    ASSUME \A a, b \in Attempts : a = b, Attempts # {}
    PROVE  Spec => []ReceivingIsLive
<1>1. Init => RowInv
  BY DEF Init, ReceiveInit, RowInv
<1>2. InvitationInv /\ RowInv /\ [Next]_vars => RowInv'
  BY StepKeepsRow
<1>3. RowInv => ReceivingIsLive
  BY DEF RowInv, Cancellable, ReceivingIsLive
<1> QED BY <1>1, <1>2, <1>3, InvitationInductive, PTL DEF Spec
===============================================================================
