------------------------ MODULE TargetedTransfer_proofs -----------------------
(***************************************************************************)
(* Theorems about TargetedTransfer, for any number of transfers, handles   *)
(* and crashes and any set of commands.                                    *)
(***************************************************************************)
EXTENDS TargetedTransfer, TLAPS

(***************************************************************************)
(* Every transaction of the store maps records to records.                 *)
(***************************************************************************)
LEMMA StoreTypes ==
    ASSUME NEW r \in Records
    PROVE  /\ \A from, to \in States : SetState(r, from, to) \in Records
           /\ \A to \in States : SetStateFromAny(r, to) \in Records
           /\ Insert(r) \in Records
           /\ AbandonSenderPreapproval(r) \in Records
           /\ \A h \in Handles : FinalizeSender(r, h) \in Records
           /\ MarkSenderCompleted(r) \in Records
           /\ PersistIntent(r) \in Records
           /\ ClearIntent(r) \in Records
           /\ \A h \in Handles : PersistReceiver(r, h) \in Records
           /\ CompleteReceiver(r) \in Records
           /\ ClearAuthorization(r) \in Records
           /\ \A to \in States, clear \in BOOLEAN :
                 TransitionTerminal(r, to, clear) \in Records
           /\ CancelByPeer(r) \in Records
           /\ FailResumable(r) \in Records
           /\ RecoverInFlight(r) \in Records
<1> USE DEF Records, RowStates, States, Preapproval, Resumable, Terminal
<1>1. ASSUME NEW from, NEW to \in States PROVE SetState(r, from, to) \in Records
  BY DEF SetState
<1>2. ASSUME NEW to \in States PROVE SetStateFromAny(r, to) \in Records
  BY DEF SetStateFromAny, SetState
<1>3. Insert(r) \in Records
  BY DEF Insert
<1>4. AbandonSenderPreapproval(r) \in Records
  BY DEF AbandonSenderPreapproval, NoRecord
<1>5. ASSUME NEW h \in Handles PROVE FinalizeSender(r, h) \in Records
  BY DEF FinalizeSender
<1>6. MarkSenderCompleted(r) \in Records
  BY DEF MarkSenderCompleted
<1>7. PersistIntent(r) \in Records
  BY DEF PersistIntent
<1>8. ClearIntent(r) \in Records
  BY DEF ClearIntent
<1>9. ASSUME NEW h \in Handles PROVE PersistReceiver(r, h) \in Records
  BY DEF PersistReceiver
<1>10. CompleteReceiver(r) \in Records
  BY DEF CompleteReceiver
<1>11. ClearAuthorization(r) \in Records
  BY DEF ClearAuthorization
<1>12. ASSUME NEW to \in States, NEW clear \in BOOLEAN PROVE TransitionTerminal(r, to, clear) \in Records
  <2>1. ASSUME NEW s \in RowStates, NEW g \in Handles \cup {None},
               NEW c \in BOOLEAN, NEW l \in BOOLEAN
        PROVE  [r EXCEPT !.intent = FALSE, !.delivery = FALSE, !.completion = c,
                         !.release = l, !.state = s, !.handle = g] \in Records
    OBVIOUS
  <2>2. (IF DeniedBy(r, to) THEN to ELSE r.state) \in RowStates
    OBVIOUS
  <2>3. (IF DeniedBy(r, to) /\ clear THEN None ELSE r.handle) \in Handles \cup {None}
    OBVIOUS
  <2>4. (IF clear THEN FALSE ELSE r.completion) \in BOOLEAN
    OBVIOUS
  <2>5. (IF clear THEN FALSE ELSE r.release) \in BOOLEAN
    OBVIOUS
  <2> HIDE DEF Records, RowStates
  <2> QED
    BY <2>1, <2>2, <2>3, <2>4, <2>5 DEF TransitionTerminal
<1>13. CancelByPeer(r) \in Records
  BY DEF CancelByPeer
<1>14. FailResumable(r) \in Records
  BY DEF FailResumable
<1>15. RecoverInFlight(r) \in Records
  BY DEF RecoverInFlight
<1> QED
  BY <1>1, <1>2, <1>3, <1>4, <1>5, <1>6, <1>7, <1>8, <1>9, <1>10, <1>11, <1>12, <1>13, <1>14, <1>15

(***************************************************************************)
(* Updates of the shared state keep its type.                              *)
(***************************************************************************)
LEMMA RowType ==
    ASSUME TypeOK, NEW d \in Devices, NEW t \in Transfers, NEW r \in Records,
           SetRow(d, t, r)
    PROVE  row' \in [Devices -> [Transfers -> Records]]
BY DEF SetRow, TypeOK

\* Starting, advancing or ending a stop keeps the type of the jobs.
LEMMA JobType ==
    ASSUME TypeOK, NEW d \in Devices, NEW t \in Transfers, NEW w \in Workers,
           NEW j \in Jobs, SetJob(d, t, w, j)
    PROVE  job' \in [Devices -> [Transfers -> [Workers -> Jobs]]]
BY DEF SetJob, TypeOK

\* Every call and reply the two devices build is a message of the protocol.
LEMMA MessageTypes ==
    ASSUME NEW t \in Transfers, NEW d \in Devices
    PROVE  /\ Msg("offer", Receiver, t, "") \in Messages
           /\ \A arg \in {"accepted", "declined", "refused"} :
                 Msg("offer_reply", Sender, t, arg) \in Messages
           /\ Msg("authorization", Receiver, t, "") \in Messages
           /\ \A arg \in {"stored", "rejected"} :
                 Msg("authorization_reply", Sender, t, arg) \in Messages
           /\ \A arg \in {"withdrawn", "cancelled", "deleted"} :
                 Msg("cancel", d, t, arg) \in Messages
           /\ Msg("completion", Sender, t, "") \in Messages
           /\ \A arg \in {"recorded", "rejected"} :
                 Msg("completion_reply", Receiver, t, arg) \in Messages
BY DEF Msg, Messages, Devices, Sender, Receiver

\* What a stop reads of a row (terminate_local, cancel_from_peer) is a job.
LEMMA SnapshotType ==
    ASSUME TypeOK, NEW d \in Devices, NEW t \in Transfers,
           NEW kind \in {"stop", "cancel", "delete", "peer", "forget"},
           NEW step \in {"abandon", "deny"}
    PROVE  Snapshot(kind, step, d, t) \in Jobs
BY DEF Snapshot, Jobs, TypeOK, Records

\* The steps of a stop in progress are jobs again.
LEMMA JobTypes ==
    ASSUME NEW j \in Jobs
    PROVE  /\ NoJob \in Jobs
           /\ [j EXCEPT !.kind = "abandon", !.step = "cleanup"] \in Jobs
           /\ [j EXCEPT !.step = "cleanup"] \in Jobs
           /\ [j EXCEPT !.step = "clear"] \in Jobs
           /\ \A b \in BOOLEAN : [j EXCEPT !.step = "cleanup", !.changed = b] \in Jobs
BY DEF Jobs, NoJob, RowStates

\* Every step of the sending end keeps the types.
LEMMA SenderTypes ==
    ASSUME TypeOK, NEW t \in Transfers, SenderStep(t)
    PROVE  TypeOK'
<1> USE DEF Negotiate, deviceVars, senderVars, inboxVars, receiverVars
<1>0. Sender \in Devices /\ Receiver \in Devices /\ row[Sender][t] \in Records
  BY DEF Devices, TypeOK
<1>1. CASE Prepare(t)
  BY <1>0, <1>1 DEF Prepare, TypeOK, NegSteps
<1>2. CASE StopBeforeRegistration(t)
  BY <1>0, <1>2 DEF StopBeforeRegistration, TeardownPayload, TypeOK, NegSteps
<1>3. CASE RegisterInsert(t)
  <2>1. row' \in [Devices -> [Transfers -> Records]]
    BY <1>0, <1>3, StoreTypes, RowType DEF RegisterInsert
  <2> QED
    BY <1>0, <1>3, <2>1 DEF RegisterInsert, TypeOK, NegSteps
<1>4. CASE RegisterOffering(t)
  <2>1. row' \in [Devices -> [Transfers -> Records]]
    BY <1>0, <1>4, StoreTypes, RowType DEF RegisterOffering, States, Preapproval, Resumable, Terminal
  <2> QED
    BY <1>0, <1>4, <2>1 DEF RegisterOffering, TypeOK, NegSteps
<1>5. CASE ContactFails(t)
  <2>1. row' \in [Devices -> [Transfers -> Records]]
    BY <1>0, <1>5, StoreTypes, RowType DEF ContactFails, States, Preapproval, Resumable, Terminal
  <2> QED
    BY <1>0, <1>5, <2>1 DEF ContactFails, TypeOK, NegSteps
<1>6. CASE SubmitOffer(t)
  <2>1. row' \in [Devices -> [Transfers -> Records]]
    BY <1>0, <1>6, StoreTypes, RowType DEF SubmitOffer, States, Preapproval, Resumable, Terminal
  <2>2. net' \in SUBSET Messages
    BY <1>0, <1>6, MessageTypes DEF SubmitOffer, TypeOK
  <2> QED
    BY <1>0, <1>6, <2>1, <2>2 DEF SubmitOffer, TypeOK, NegSteps
<1>7. CASE OfferFails(t)
  <2>1. row' \in [Devices -> [Transfers -> Records]]
    BY <1>0, <1>7, StoreTypes, RowType DEF OfferFails, StaleReplies, States, Preapproval, Resumable, Terminal
  <2> QED
    BY <1>0, <1>7, <2>1 DEF OfferFails, StaleReplies, TypeOK, NegSteps
<1>8. CASE \E arg \in {"declined", "refused"} : OfferRejected(t, arg)
  <2>1. row' \in [Devices -> [Transfers -> Records]]
    BY <1>0, <1>8, StoreTypes, RowType DEF OfferRejected, States, Preapproval, Resumable, Terminal
  <2> QED
    BY <1>0, <1>8, <2>1 DEF OfferRejected, TypeOK, NegSteps
<1>9. CASE OfferAccepted(t)
  BY <1>0, <1>9 DEF OfferAccepted, TypeOK, NegSteps
<1>10. CASE ProtectAuthorization(t)
  BY <1>0, <1>10 DEF ProtectAuthorization, TypeOK, NegSteps
<1>11. CASE ProtectFails(t)
  <2>1. row' \in [Devices -> [Transfers -> Records]]
    BY <1>0, <1>11, StoreTypes, RowType DEF ProtectFails, States, Preapproval, Resumable, Terminal
  <2> QED
    BY <1>0, <1>11, <2>1 DEF ProtectFails, TypeOK, NegSteps
<1>12. CASE Finalize(t)
  <2>0. PICK h \in secrets[Sender][t] : SetRow(Sender, t, FinalizeSender(row[Sender][t], h))
    BY <1>12 DEF Finalize
  <2>1. row' \in [Devices -> [Transfers -> Records]]
    <3>0. h \in Handles
      BY <1>0, <2>0 DEF TypeOK
    <3>1. FinalizeSender(row[Sender][t], h) \in Records
      BY <1>0, <3>0, StoreTypes
    <3> QED
      BY <1>0, <2>0, <3>1, RowType
  <2> QED
    BY <1>0, <1>12, <2>1 DEF Finalize, TypeOK, NegSteps
<1>13. CASE Rollback(t)
  <2>1. row' \in [Devices -> [Transfers -> Records]]
    BY <1>0, <1>13, StoreTypes, RowType DEF Rollback, States, Preapproval, Resumable, Terminal
  <2> QED
    BY <1>0, <1>13, <2>1 DEF Rollback, TypeOK, NegSteps
<1>14. CASE Teardown(t)
  BY <1>0, <1>14 DEF Teardown, TeardownPayload, TypeOK, NegSteps
<1>15. CASE StopStart(t)
  <2>1. job' \in [Devices -> [Transfers -> [Workers -> Jobs]]]
    BY <1>0, <1>15, SnapshotType, JobType DEF StopStart, CommandStart, SignalActive, Workers
  <2> QED
    BY <1>0, <1>15, <2>1 DEF StopStart, CommandStart, SignalActive, TypeOK
<1>16. CASE StopAbandon(t)
  <2>1. row' \in [Devices -> [Transfers -> Records]]
    BY <1>0, <1>16, StoreTypes, RowType DEF StopAbandon
  <2>2. job' \in [Devices -> [Transfers -> [Workers -> Jobs]]]
    <3>1. job[Sender][t]["local"] \in Jobs
      BY <1>0 DEF TypeOK, Workers
    <3>2. Snapshot("stop", "deny", Sender, t) \in Jobs
      BY <1>0, SnapshotType
    <3> QED
      BY <1>0, <1>16, <3>1, <3>2, JobType, JobTypes DEF StopAbandon, Workers
  <2> QED
    BY <1>0, <1>16, <2>1, <2>2 DEF StopAbandon, TypeOK
<1>17. CASE DeliverAuthorization(t)
  <2>1. net' \in SUBSET Messages
    BY <1>0, <1>17, MessageTypes DEF DeliverAuthorization, Reconcile, StaleReplies, TypeOK
  <2> QED
    BY <1>0, <1>17, <2>1 DEF DeliverAuthorization, Reconcile, StaleReplies, TypeOK
<1>18. CASE DeliveryStored(t)
  <2>1. row' \in [Devices -> [Transfers -> Records]]
    BY <1>0, <1>18, RowType DEF DeliveryStored, Reconcile, Records
  <2> QED
    BY <1>0, <1>18, <2>1 DEF DeliveryStored, Reconcile, TypeOK
<1>19. CASE DeliveryDeferred(t)
  BY <1>0, <1>19 DEF DeliveryDeferred, Reconcile, StaleReplies, TypeOK
<1>20. CASE ReleasePayload(t)
  <2>1. row' \in [Devices -> [Transfers -> Records]]
    BY <1>0, <1>20, RowType DEF ReleasePayload, Reconcile, TeardownPayload, Records
  <2> QED
    BY <1>0, <1>20, <2>1 DEF ReleasePayload, Reconcile, TeardownPayload, TypeOK
<1>21. CASE HandleCompletion(t)
  <2>1. row' \in [Devices -> [Transfers -> Records]]
    BY <1>0, <1>21, StoreTypes, RowType DEF HandleCompletion, Reconcile
  <2>2. net' \in SUBSET Messages
    BY <1>0, <1>21, MessageTypes DEF HandleCompletion, Reconcile, Reply, TypeOK
  <2> QED
    BY <1>0, <1>21, <2>1, <2>2 DEF HandleCompletion, Reconcile, TypeOK
<1> QED
  BY <1>1, <1>2, <1>3, <1>4, <1>5, <1>6, <1>7, <1>8, <1>9, <1>10, <1>11, <1>12, <1>13, <1>14, <1>15, <1>16, <1>17, <1>18, <1>19, <1>20, <1>21 DEF SenderStep

\* Every step of the receiving end keeps the types.
LEMMA ReceiverTypes ==
    ASSUME TypeOK, NEW t \in Transfers, ReceiverStep(t)
    PROVE  TypeOK'
<1> USE DEF deviceVars, senderVars, inboxVars, receiverVars
<1>0. Sender \in Devices /\ Receiver \in Devices /\ row[Receiver][t] \in Records
  BY DEF Devices, TypeOK
<1>1. CASE OfferRefused(t)
  <2>1. net' \in SUBSET Messages
    BY <1>0, <1>1, MessageTypes DEF OfferRefused, InboxStep, Answer, Reply, TypeOK
  <2> QED
    BY <1>0, <1>1, <2>1 DEF OfferRefused, InboxStep, Answer, TypeOK
<1>2. CASE OfferPending(t)
  BY <1>0, <1>2 DEF OfferPending, InboxStep, TypeOK, AskSteps
<1>3. CASE OfferDecidedYes(t)
  <2>1. net' \in SUBSET Messages
    BY <1>0, <1>3, MessageTypes DEF OfferDecidedYes, InboxStep, Reply, TypeOK
  <2> QED
    BY <1>0, <1>3, <2>1 DEF OfferDecidedYes, InboxStep, TypeOK, AskSteps
<1>4. CASE OfferDecidedNo(t)
  <2>1. net' \in SUBSET Messages
    BY <1>0, <1>4, MessageTypes DEF OfferDecidedNo, InboxStep, Reply, TypeOK
  <2> QED
    BY <1>0, <1>4, <2>1 DEF OfferDecidedNo, InboxStep, TypeOK, AskSteps, WaitSteps
<1>5. CASE OfferTimesOut(t)
  <2>1. net' \in SUBSET Messages
    BY <1>0, <1>5, MessageTypes DEF OfferTimesOut, InboxStep, Reply, TypeOK
  <2> QED
    BY <1>0, <1>5, <2>1 DEF OfferTimesOut, InboxStep, TypeOK, AskSteps, WaitSteps
<1>6. CASE RespondAccept(t)
  BY <1>0, <1>6 DEF RespondAccept, InboxStep, TypeOK, RespSteps
<1>7. CASE PersistConsent(t)
  <2>1. row' \in [Devices -> [Transfers -> Records]]
    BY <1>0, <1>7, StoreTypes, RowType DEF PersistConsent, InboxStep
  <2> QED
    BY <1>0, <1>7, <2>1 DEF PersistConsent, InboxStep, TypeOK, RespSteps
<1>8. CASE AcceptLive(t)
  BY <1>0, <1>8 DEF AcceptLive, InboxStep, TypeOK, RespSteps, AskSteps, WaitSteps
<1>9. CASE RespondDecline(t)
  <2>1. row' \in [Devices -> [Transfers -> Records]]
    BY <1>0, <1>9, StoreTypes, RowType DEF RespondDecline, InboxStep, Discard
  <2> QED
    BY <1>0, <1>9, <2>1 DEF RespondDecline, InboxStep, Discard, TypeOK, AskSteps, WaitSteps
<1>10. CASE AuthorizationReceived(t)
  BY <1>0, <1>10 DEF AuthorizationReceived, InboxStep, TypeOK, RespSteps, WaitSteps
<1>11. CASE AuthorizationTimesOut(t)
  BY <1>0, <1>11 DEF AuthorizationTimesOut, InboxStep, TypeOK, RespSteps, WaitSteps
<1>12. CASE AuthorizationKnown(t)
  <2>1. net' \in SUBSET Messages
    BY <1>0, <1>12, MessageTypes DEF AuthorizationKnown, AuthorizationStep, Answer, Wake, Reply, TypeOK
  <2> QED
    BY <1>0, <1>12, <2>1 DEF AuthorizationKnown, AuthorizationStep, Answer, Wake, TypeOK, WaitSteps
<1>13. CASE AuthorizationProtect(t)
  BY <1>0, <1>13 DEF AuthorizationProtect, AuthorizationStep, TypeOK
<1>14. CASE \E h \in Handles : AuthorizationCommit(t, h)
  <2>1. row' \in [Devices -> [Transfers -> Records]]
    BY <1>0, <1>14, StoreTypes, RowType DEF AuthorizationCommit, AuthorizationStep, Wake
  <2>2. net' \in SUBSET Messages
    <3>1. \A arg \in {"stored", "rejected"} :
             Reply("authorization_reply", Sender, t, arg) \in SUBSET Messages
      BY <1>0, MessageTypes DEF Reply
    <3> QED
      BY <1>14, <3>1 DEF AuthorizationCommit, TypeOK
  <2> QED
    BY <1>0, <1>14, <2>1, <2>2 DEF AuthorizationCommit, AuthorizationStep, Wake, TypeOK, WaitSteps
<1>15. CASE \E h \in Handles : AuthorizationRollback(t, h)
  <2>1. net' \in SUBSET Messages
    <3>1. \A arg \in {"stored", "rejected"} :
             Reply("authorization_reply", Sender, t, arg) \in SUBSET Messages
      BY <1>0, MessageTypes DEF Reply
    <3> QED
      BY <1>15, <3>1 DEF AuthorizationRollback, TypeOK
  <2> QED
    BY <1>0, <1>15, <2>1 DEF AuthorizationRollback, AuthorizationStep, TypeOK
<1>16. CASE ReceiveStart(t)
  BY <1>0, <1>16 DEF ReceiveStart, RunStep, TypeOK, RunSteps
<1>17. CASE ReceiveConnecting(t)
  <2>1. row' \in [Devices -> [Transfers -> Records]]
    BY <1>0, <1>17, StoreTypes, RowType DEF ReceiveConnecting, RunStep, States, Preapproval, Resumable, Terminal
  <2> QED
    BY <1>0, <1>17, <2>1 DEF ReceiveConnecting, RunStep, TypeOK, RunSteps
<1>18. CASE ReceiveTransferring(t)
  <2>1. row' \in [Devices -> [Transfers -> Records]]
    BY <1>0, <1>18, StoreTypes, RowType DEF ReceiveTransferring, RunStep, States, Preapproval, Resumable, Terminal
  <2> QED
    BY <1>0, <1>18, <2>1 DEF ReceiveTransferring, RunStep, TypeOK, RunSteps
<1>19. CASE PayloadArrives(t)
  BY <1>0, <1>19 DEF PayloadArrives, RunStep, TypeOK, RunSteps
<1>20. CASE PayloadFails(t)
  <2>1. row' \in [Devices -> [Transfers -> Records]]
    BY <1>0, <1>20, StoreTypes, RowType DEF PayloadFails, RunStep, States, Preapproval, Resumable, Terminal
  <2> QED
    BY <1>0, <1>20, <2>1 DEF PayloadFails, RunStep, TypeOK, RunSteps
<1>21. CASE ReceiveComplete(t)
  <2>1. row' \in [Devices -> [Transfers -> Records]]
    BY <1>0, <1>21, StoreTypes, RowType DEF ReceiveComplete, RunStep, CallCompletion, CompletionMsg, StaleReplies
  <2>2. net' \in SUBSET Messages
    <3>1. CompletionMsg(t) \in Messages
      BY <1>0, MessageTypes DEF CompletionMsg
    <3> QED
      BY <1>21, <3>1 DEF ReceiveComplete, CallCompletion, TypeOK
  <2> QED
    BY <1>0, <1>21, <2>1, <2>2 DEF ReceiveComplete, RunStep, CallCompletion, CompletionMsg, StaleReplies, TypeOK, RunSteps
<1>22. CASE ReceiveAcknowledged(t)
  <2>1. row' \in [Devices -> [Transfers -> Records]]
    BY <1>0, <1>22, RowType DEF ReceiveAcknowledged, RunStep, ClearCompletion, Records
  <2> QED
    BY <1>0, <1>22, <2>1 DEF ReceiveAcknowledged, RunStep, ClearCompletion, TypeOK, RunSteps
<1>23. CASE ReceiveUnacknowledged(t)
  BY <1>0, <1>23 DEF ReceiveUnacknowledged, RunStep, StaleReplies, TypeOK, RunSteps
<1>24. CASE ReceiveEnd(t)
  BY <1>0, <1>24 DEF ReceiveEnd, RunStep, TypeOK, RunSteps
<1>25. CASE RetryCompletion(t)
  <2>1. net' \in SUBSET Messages
    BY <1>0, <1>25, MessageTypes DEF RetryCompletion, RetryStep, CallCompletion, CompletionMsg, StaleReplies, TypeOK
  <2> QED
    BY <1>0, <1>25, <2>1 DEF RetryCompletion, RetryStep, CallCompletion, CompletionMsg, StaleReplies, TypeOK
<1>26. CASE RetryAcknowledged(t)
  <2>1. row' \in [Devices -> [Transfers -> Records]]
    BY <1>0, <1>26, RowType DEF RetryAcknowledged, RetryStep, ClearCompletion, Records
  <2> QED
    BY <1>0, <1>26, <2>1 DEF RetryAcknowledged, RetryStep, ClearCompletion, TypeOK
<1>27. CASE RetryDeferred(t)
  BY <1>0, <1>27 DEF RetryDeferred, RetryStep, StaleReplies, TypeOK
<1>28. CASE \E arg \in {"withdrawn", "cancelled", "deleted"} : CancelPendingOffer(t, arg)
  <2>1. row' \in [Devices -> [Transfers -> Records]]
    BY <1>0, <1>28, StoreTypes, RowType DEF CancelPendingOffer, CancelArrives, Discard
  <2> QED
    BY <1>0, <1>28, <2>1 DEF CancelPendingOffer, CancelArrives, Discard, TypeOK, AskSteps, WaitSteps
<1> QED
  BY <1>1, <1>2, <1>3, <1>4, <1>5, <1>6, <1>7, <1>8, <1>9, <1>10, <1>11, <1>12, <1>13, <1>14,
     <1>15, <1>16, <1>17, <1>18, <1>19, <1>20, <1>21, <1>22, <1>23, <1>24, <1>25, <1>26, <1>27, <1>28 DEF ReceiverStep

\* The peer notices of a finished stop are messages.
LEMMA NoticesType ==
    ASSUME NEW d \in Devices, NEW t \in Transfers, NEW j
    PROVE  Notices(d, t, j) \in SUBSET Messages
BY MessageTypes DEF Notices, Peer, Devices

\* Every stop, cancel, delete and cleanup step of a device keeps the types.
LEMMA DeviceTypes ==
    ASSUME TypeOK, NEW t \in Transfers, NEW d \in Devices, DeviceStep(d, t)
    PROVE  TypeOK'
<1> USE DEF deviceVars, senderVars, inboxVars, receiverVars
<1>0. /\ Sender \in Devices /\ Receiver \in Devices /\ Peer(d) \in Devices
      /\ row[d][t] \in Records
      /\ \A w \in Workers : job[d][t][w] \in Jobs
  BY DEF Devices, TypeOK, Peer
<1>1. CASE \E c \in {"cancel", "delete"} : TerminateUnknown(d, t, c)
  <2>1. row' \in [Devices -> [Transfers -> Records]]
    BY <1>0, <1>1, StoreTypes, RowType DEF TerminateUnknown, CommandStart, SignalActive, DiscardAt, Discard
  <2> QED
    BY <1>0, <1>1, <2>1 DEF TerminateUnknown, CommandStart, SignalActive, DiscardAt, Discard, TypeOK, AskSteps, WaitSteps
<1>2. CASE \E c \in {"cancel", "delete"} : TerminateAgain(d, t, c)
  <2>1. net' \in SUBSET Messages
    BY <1>0, <1>2, MessageTypes DEF TerminateAgain, CommandStart, SignalActive, DiscardAt, Discard, TypeOK
  <2> QED
    BY <1>0, <1>2, <2>1 DEF TerminateAgain, CommandStart, SignalActive, DiscardAt, Discard, TypeOK, AskSteps, WaitSteps
<1>3. CASE \E c \in {"cancel", "delete"} : TerminateStart(d, t, c)
  <2>1. job' \in [Devices -> [Transfers -> [Workers -> Jobs]]]
    BY <1>0, <1>3, SnapshotType, JobType DEF TerminateStart, CommandStart, SignalActive, Workers
  <2> QED
    BY <1>0, <1>3, <2>1 DEF TerminateStart, CommandStart, SignalActive, TypeOK
<1>4. CASE Deny(d, t)
  <2>1. row' \in [Devices -> [Transfers -> Records]]
    BY <1>0, <1>4, StoreTypes, RowType DEF Deny, DiscardAt, Discard, Target, States, Terminal
  <2>2. job' \in [Devices -> [Transfers -> [Workers -> Jobs]]]
    BY <1>0, <1>4, JobTypes, JobType DEF Deny, DiscardAt, Discard, Workers, DeniedBy
  <2> QED
    BY <1>0, <1>4, <2>1, <2>2 DEF Deny, DiscardAt, Discard, TypeOK, AskSteps, WaitSteps
<1>5. CASE CancelNothing(d, t)
  BY <1>0, <1>5 DEF CancelNothing, CancelArrives, TypeOK
<1>6. CASE \E arg \in {"cancelled", "deleted"} : CancelFromPeer(d, t, arg)
  <2>1. job' \in [Devices -> [Transfers -> [Workers -> Jobs]]]
    BY <1>0, <1>6, SnapshotType, JobType DEF CancelFromPeer, CancelArrives, Workers
  <2> QED
    BY <1>0, <1>6, <2>1 DEF CancelFromPeer, CancelArrives, TypeOK
<1>7. CASE DenyFromPeer(d, t)
  <2>1. row' \in [Devices -> [Transfers -> Records]]
    BY <1>0, <1>7, StoreTypes, RowType DEF DenyFromPeer, States, Terminal
  <2>2. job' \in [Devices -> [Transfers -> [Workers -> Jobs]]]
    BY <1>0, <1>7, JobTypes, JobType DEF DenyFromPeer, Workers
  <2> QED
    BY <1>0, <1>7, <2>1, <2>2 DEF DenyFromPeer, TypeOK
<1>8. CASE \E w \in Workers : Cleanup(d, t, w)
  <2>1. job' \in [Devices -> [Transfers -> [Workers -> Jobs]]]
    BY <1>0, <1>8, JobTypes, JobType DEF Cleanup, FinishJob, SignalActive, TeardownPayload
  <2>2. net' \in SUBSET Messages
    BY <1>0, <1>8, NoticesType DEF Cleanup, FinishJob, SignalActive, TeardownPayload, TypeOK
  <2>3. secrets' \in [Devices -> [Transfers -> SUBSET Handles]]
    BY <1>8 DEF Cleanup, TypeOK
  <2>4. /\ tag' \in SUBSET Transfers /\ served' \in SUBSET Transfers
        /\ granted' \in SUBSET Transfers /\ active' \in SUBSET Transfers
    BY <1>8 DEF Cleanup, SignalActive, TeardownPayload, TypeOK
  <2> QED
    BY <1>8, <2>1, <2>2, <2>3, <2>4 DEF Cleanup, TypeOK
<1>9. CASE \E w \in Workers : CleanupClear(d, t, w)
  <2>1. row' \in [Devices -> [Transfers -> Records]]
    BY <1>0, <1>9, StoreTypes, RowType DEF CleanupClear, FinishJob
  <2>2. job' \in [Devices -> [Transfers -> [Workers -> Jobs]]]
    BY <1>0, <1>9, JobTypes, JobType DEF CleanupClear, FinishJob
  <2>3. net' \in SUBSET Messages
    BY <1>0, <1>9, NoticesType DEF CleanupClear, FinishJob, TypeOK
  <2> QED
    BY <1>0, <1>9, <2>1, <2>2, <2>3 DEF CleanupClear, FinishJob, TypeOK
<1> QED
  BY <1>1, <1>2, <1>3, <1>4, <1>5, <1>6, <1>7, <1>8, <1>9 DEF DeviceStep

\* Startup recovery maps records to records.
LEMMA RecoveredType ==
    ASSUME NEW d, NEW r \in Records
    PROVE  Recovered(d, r) \in Records
<1>1. RecoverInFlight(r) \in Records
  BY StoreTypes
<1>2. CancelByPeer(RecoverInFlight(r)) \in Records
  BY <1>1, StoreTypes
<1> DEFINE p == IF saved[d] THEN RecoverInFlight(r) ELSE CancelByPeer(RecoverInFlight(r))
<1>3. p \in Records
  BY <1>1, <1>2
<1>4. ClearAuthorization(p) \in Records
  BY <1>3, StoreTypes
<1> QED
  BY <1>3, <1>4 DEF Recovered

\* Forget, crash, startup, access restoration and message loss keep the types.
LEMMA RuntimeTypes ==
    ASSUME TypeOK,
           \/ \E t \in Transfers : RestoreAccess(t) \/ RestoreFails(t)
           \/ \E d \in Devices : Forget(d) \/ ForgetDeny(d) \/ Boot(d) \/ Recover(d)
           \/ CrashSender \/ CrashReceiver \/ Online
           \/ \E m \in net : Lose(m)
    PROVE  TypeOK'
<1> USE DEF deviceVars, senderVars, inboxVars, receiverVars
<1>0. Sender \in Devices /\ Receiver \in Devices
  BY DEF Devices
<1>1. CASE \E t \in Transfers : RestoreAccess(t)
  BY <1>1 DEF RestoreAccess, TypeOK
<1>2. ASSUME NEW t \in Transfers, RestoreFails(t) PROVE TypeOK'
  <2>1. row' \in [Devices -> [Transfers -> Records]]
    BY <1>0, <1>2, StoreTypes, RowType DEF RestoreFails, TypeOK
  <2> QED
    BY <1>2, <2>1 DEF RestoreFails, TeardownPayload, TypeOK
<1>3. ASSUME NEW d \in Devices, Forget(d) PROVE TypeOK'
  <2>1. \A t \in Transfers : Snapshot("forget", "deny", d, t) \in Jobs
    BY SnapshotType
  <2>2. job' \in [Devices -> [Transfers -> [Workers -> Jobs]]]
    BY <1>3, <2>1 DEF Forget, TypeOK
  <2>3. /\ pending' \in SUBSET Transfers /\ asking' \in [Transfers -> AskSteps]
        /\ resp' \in [Transfers -> RespSteps] /\ authw' \in [Transfers -> WaitSteps]
    BY <1>3 DEF Forget, DiscardAt, Discard, TypeOK, AskSteps, WaitSteps
  <2>4. saved' \in [Devices -> BOOLEAN]
    BY <1>3 DEF Forget, TypeOK
  <2> QED
    BY <1>3, <2>2, <2>3, <2>4 DEF Forget, TypeOK
<1>4. ASSUME NEW d \in Devices, ForgetDeny(d) PROVE TypeOK'
  <2>1. row' \in [Devices -> [Transfers -> Records]]
    BY <1>4, StoreTypes DEF ForgetDeny, TypeOK
  <2>2. \A t \in Transfers : job[d][t]["forget"] \in Jobs
    BY DEF TypeOK, Workers
  <2>3. \A t \in Transfers : ForgottenJob(job[d][t]["forget"]) \in Jobs
    BY <2>2, JobTypes DEF ForgottenJob
  <2>4. job' \in [Devices -> [Transfers -> [Workers -> Jobs]]]
    BY <1>4, <2>3 DEF ForgetDeny, TypeOK
  <2> QED
    BY <1>4, <2>1, <2>4 DEF ForgetDeny, TypeOK
<1>5. ASSUME NEW d \in Devices, Boot(d) PROVE TypeOK'
  BY <1>5 DEF Boot, TypeOK, Phases
<1>6. ASSUME NEW d \in Devices, Recover(d) PROVE TypeOK'
  <2>1. \A t \in Transfers : Recovered(d, row[d][t]) \in Records
    BY RecoveredType DEF TypeOK
  <2>2. row' \in [Devices -> [Transfers -> Records]]
    BY <1>6, <2>1 DEF Recover, TypeOK
  <2>3. secrets' \in [Devices -> [Transfers -> SUBSET Handles]]
    BY <1>6 DEF Recover, TypeOK
  <2>4. up' \in [Devices -> Phases]
    BY <1>6 DEF Recover, TypeOK, Phases
  <2>5. restoring' \in SUBSET Transfers /\ tag' \in SUBSET Transfers
    BY <1>6 DEF Recover, TypeOK
  <2> QED
    BY <1>6, <2>2, <2>3, <2>4, <2>5 DEF Recover, TypeOK
<1>7. CASE CrashSender
  <2>1. job' \in [Devices -> [Transfers -> [Workers -> Jobs]]]
    BY <1>7 DEF CrashSender, Crash, TypeOK, Jobs, NoJob, RowStates
  <2> QED
    BY <1>0, <1>7, <2>1 DEF CrashSender, Crash, TypeOK, Phases, NegSteps
<1>8. CASE CrashReceiver
  <2>1. job' \in [Devices -> [Transfers -> [Workers -> Jobs]]]
    BY <1>8 DEF CrashReceiver, Crash, TypeOK, Jobs, NoJob, RowStates
  <2> QED
    BY <1>0, <1>8, <2>1 DEF CrashReceiver, Crash, TypeOK, Phases, AskSteps, RespSteps,
                            WaitSteps, RunSteps
<1>9. CASE Online
  BY <1>0, <1>9 DEF Online, TypeOK, Phases
<1>10. CASE \E m \in net : Lose(m)
  BY <1>10 DEF Lose, TypeOK
<1> QED
  BY <1>1, <1>2, <1>3, <1>4, <1>5, <1>6, <1>7, <1>8, <1>9, <1>10

(***************************************************************************)
(* Every reachable state has its type: a record, a job or a message is     *)
(* never built from parts the code could not put together.                 *)
(***************************************************************************)
THEOREM TypeCorrect == Spec => []TypeOK
<1>1. Init => TypeOK
  BY CrashesAssumption DEF Init, TypeOK, Records, NoRecord, RowStates, Jobs, NoJob, Phases, NegSteps,
     AskSteps, RespSteps, WaitSteps, RunSteps
<1>2. TypeOK /\ [Next]_vars => TypeOK'
  <2> SUFFICES ASSUME TypeOK, [Next]_vars PROVE TypeOK'
    OBVIOUS
  <2>1. CASE UNCHANGED vars
    BY <2>1 DEF vars, deviceVars, senderVars, inboxVars, receiverVars, TypeOK
  <2>2. CASE Next
    BY <2>2, SenderTypes, ReceiverTypes, DeviceTypes, RuntimeTypes DEF Next
  <2> QED
    BY <2>1, <2>2
<1> QED
  BY <1>1, <1>2, PTL DEF Spec
(***************************************************************************)
(* Most steps only let records age: nothing is created, authorized or      *)
(* completed, and what has ended stays ended.                              *)
(***************************************************************************)
Live == Preapproval \cup Resumable

Ages(d, r, q) ==
    /\ q.state \in Resumable => r.state \in Resumable /\ q.handle = r.handle
    /\ r.state \notin Live => q.state \notin Live
    /\ r.state = "absent" => q.state = "absent"
    /\ q.state = "absent" => r.state = "absent" \/ (d = Sender /\ q.handle = None)
    /\ r.state \in PostApproval => q.state \in PostApproval
    /\ q.state = "completed" => r.state = "completed"
    /\ r.state \in {"completed", "deleted"} => q.state \in {"completed", "deleted"}
    /\ q.intent => r.intent
    /\ q.handle = r.handle \/ q.handle = None

\* The store's denying, failing and clearing transactions only age a record: it
\* never becomes runnable, gains a consent or names another secret.
LEMMA AgingOps ==
    ASSUME NEW d, NEW r \in Records
    PROVE  /\ Ages(d, r, r)
           /\ \A from \in States, to \in States \ {"approved", "completed"} :
                 Ages(d, r, SetState(r, from, to))
           /\ Ages(d, r, SetStateFromAny(r, "failed"))
           /\ Ages(Sender, r, AbandonSenderPreapproval(r))
           /\ Ages(d, r, ClearIntent(r))
           /\ r.state \notin Resumable => Ages(d, r, ClearAuthorization(r))
           /\ \A to \in {"cancelled", "deleted"}, clear \in BOOLEAN :
                 Ages(d, r, TransitionTerminal(r, to, clear))
           /\ Ages(d, r, CancelByPeer(r))
           /\ Ages(d, r, FailResumable(r))
           /\ Ages(d, r, RecoverInFlight(r))
           /\ Ages(d, r, [r EXCEPT !.delivery = FALSE])
           /\ Ages(d, r, [r EXCEPT !.completion = FALSE])
           /\ Ages(d, r, [r EXCEPT !.release = FALSE])
<1> USE DEF Ages, Live, PostApproval, Records, Preapproval, Resumable
<1>1. Ages(d, r, r)
  OBVIOUS
<1>2. ASSUME NEW from \in States, NEW to \in States \ {"approved", "completed"}
      PROVE  Ages(d, r, SetState(r, from, to))
  BY DEF SetState, CanSetState, ValidateTransition, Validated, States, Terminal
<1>3. Ages(d, r, SetStateFromAny(r, "failed"))
  BY DEF SetStateFromAny, SetState, CanSetState, ValidateTransition, Validated
<1>4. Ages(Sender, r, AbandonSenderPreapproval(r))
  BY DEF AbandonSenderPreapproval, NoRecord
<1>5. Ages(d, r, ClearIntent(r))
  BY DEF ClearIntent
<1>6. r.state \notin Resumable => Ages(d, r, ClearAuthorization(r))
  BY DEF ClearAuthorization
<1>7. ASSUME NEW to \in {"cancelled", "deleted"}, NEW clear \in BOOLEAN
      PROVE  Ages(d, r, TransitionTerminal(r, to, clear))
  BY DEF TransitionTerminal, DeniedBy
<1>8. Ages(d, r, CancelByPeer(r))
  BY DEF CancelByPeer, DeniedBy
<1>9. Ages(d, r, FailResumable(r))
  BY DEF FailResumable
<1>10. Ages(d, r, RecoverInFlight(r))
  BY DEF RecoverInFlight
<1>11. /\ Ages(d, r, [r EXCEPT !.delivery = FALSE])
       /\ Ages(d, r, [r EXCEPT !.completion = FALSE])
       /\ Ages(d, r, [r EXCEPT !.release = FALSE])
  OBVIOUS
<1> HIDE DEF Ages, Records, Resumable
<1> QED
  BY <1>1, <1>2, <1>3, <1>4, <1>5, <1>6, <1>7, <1>8, <1>9, <1>10, <1>11
(***************************************************************************)
(* What a step that disturbs nothing leaves true, for each part of the     *)
(* invariant: no new acceptance, no new claim on the wire, no earlier step *)
(* of the negotiation, no new job, no secret lost.                         *)
(***************************************************************************)
RowsAge == \A d \in Devices, u \in Transfers : Ages(d, row[d][u], row'[d][u])

NoAcceptance ==
    /\ consented \subseteq consented'
    /\ \A u \in Transfers :
          /\ asking'[u] = "yes" => asking[u] = "yes"
          /\ Msg("offer_reply", Sender, u, "accepted") \in net' =>
                Msg("offer_reply", Sender, u, "accepted") \in net
          /\ neg'[u] \in {"approving", "protected"} => neg[u] \in {"approving", "protected"}
          /\ resp'[u] \in {"intent", "waiting"} => resp[u] \in {"intent", "waiting"}

NoDelivery ==
    \A u \in Transfers :
        /\ AuthMsg(u) \in net' => AuthMsg(u) \in net
        /\ authing'[u] \subseteq authing[u]

NoClaim == \A u \in Transfers : CompletionMsg(u) \in net' => CompletionMsg(u) \in net

NegotiationAdvances ==
    \A u \in Transfers :
        /\ neg'[u] \in {"idle", "imported"} => neg[u] \in {"idle", "imported"}
        /\ neg'[u] # "done" => neg[u] # "done"

NoJobStarts ==
    \A d \in Devices, u \in Transfers, w \in Workers :
        job'[d][u][w] = job[d][u][w] \/ job'[d][u][w] = NoJob

NoSecretLost ==
    /\ \A d \in Devices, u \in Transfers : secrets[d][u] \subseteq secrets'[d][u]
    /\ up'[Receiver] = "down" => up[Receiver] = "down"

\* A step that ages rows and starts no acceptance keeps the consent part.
LEMMA ConsentFrame ==
    ASSUME InductiveInv, RowsAge, NoAcceptance, NEW u \in Transfers
    PROVE  ConsentInv(u)'
BY DEF InductiveInv, ConsentInv, RowsAge, NoAcceptance, Ages, Devices, SenderState, ReceiverState

\* A step that ages rows and starts no delivery keeps the approval part.
LEMMA ApprovalFrame ==
    ASSUME InductiveInv, RowsAge, NoDelivery, NEW u \in Transfers
    PROVE  ApprovalInv(u)'
BY DEF InductiveInv, ApprovalInv, RowsAge, NoDelivery, Ages, Devices, SenderState, ReceiverState

\* A step that ages rows and advances no further than a negotiation may keeps
\* the negotiation part.
LEMMA NegotiationFrame ==
    ASSUME InductiveInv, RowsAge, NegotiationAdvances, NEW u \in Transfers
    PROVE  NegotiationInv(u)'
BY DEF InductiveInv, NegotiationInv, RowsAge, NegotiationAdvances, Ages, Devices, SenderState

\* A step that ages rows and claims no completion keeps the completion part.
LEMMA CompletionFrame ==
    ASSUME InductiveInv, RowsAge, NoClaim, NEW u \in Transfers
    PROVE  CompletionInv(u)'
BY DEF InductiveInv, CompletionInv, RowsAge, NoClaim, Ages, Devices, SenderState, ReceiverState

\* A row a device knows stays known, one that has ended stays ended.
LEMMA KnownFrame ==
    ASSUME InductiveInv, RowsAge, NegotiationAdvances, NEW d \in Devices, NEW u \in Transfers
    PROVE  /\ Known(d, u) => Known(d, u)'
           /\ Dead(d, u) => Dead(d, u)'
BY DEF InductiveInv, NegotiationInv, RowsAge, NegotiationAdvances, Ages, Known, Dead, Live,
       Devices, SenderState

\* A step that starts no stop keeps what the stops in progress have read true.
LEMMA JobFrame ==
    ASSUME InductiveInv, NoJobStarts, NEW d \in Devices, NEW u \in Transfers,
           Known(d, u) => Known(d, u)', Dead(d, u) => Dead(d, u)'
    PROVE  \A w \in Workers : JobInv(d, u, w)'
BY DEF InductiveInv, JobInv, NoJobStarts, NoJob, Terminal

\* No cleanup holds the handle of a delivery about to commit.
HandlesApart == \A u \in Transfers, w \in Workers : job[Receiver][u][w].handle \notin authing[u]

\* Handles of deliveries about to commit stay apart from those of cleanups.
LEMMA HandlesFrame ==
    ASSUME TypeOK, InductiveInv, NoDelivery, NoJobStarts
    PROVE  HandlesApart'
<1> SUFFICES ASSUME NEW u \in Transfers, NEW w \in Workers
             PROVE  job'[Receiver][u][w].handle \notin authing'[u]
  BY DEF HandlesApart
<1>1. authing[u] \subseteq Handles
  BY DEF TypeOK
<1> QED
  BY <1>1, NoneIsNoHandle DEF InductiveInv, CustodyInv, NoDelivery, NoJobStarts, NoJob, Devices

\* A step that ages rows and loses no secret keeps the custody part.
LEMMA CustodyFrame ==
    ASSUME TypeOK, InductiveInv, RowsAge, NoDelivery, NoSecretLost, HandlesApart',
           NEW u \in Transfers
    PROVE  CustodyInv(u)'
<1> USE DEF Devices
<1>1. ASSUME NEW d \in Devices
      PROVE  /\ row'[d][u].state = "absent" => row'[d][u].handle = None
             /\ row'[d][u].state \in Resumable => row'[d][u].handle \in secrets'[d][u]
  BY <1>1 DEF InductiveInv, CustodyInv, RowsAge, Ages, NoSecretLost
<1>2. /\ authing'[u] \subseteq secrets'[Receiver][u]
      /\ up'[Receiver] = "down" => authing'[u] = {}
  BY DEF InductiveInv, CustodyInv, NoDelivery, NoSecretLost
<1>3. authing[u] \subseteq Handles
  BY DEF TypeOK
<1>4. row'[Receiver][u].handle \notin authing'[u]
  BY <1>3, NoneIsNoHandle DEF InductiveInv, CustodyInv, RowsAge, Ages, NoDelivery
<1> QED
  BY <1>1, <1>2, <1>4 DEF CustodyInv, HandlesApart

\* A step that disturbs no part at all.
LEMMA CalmStep ==
    ASSUME TypeOK, InductiveInv, RowsAge, NoAcceptance, NoDelivery, NoClaim, NegotiationAdvances,
           NoJobStarts, NoSecretLost
    PROVE  InductiveInv'
BY ConsentFrame, ApprovalFrame, NegotiationFrame, CompletionFrame, KnownFrame, JobFrame,
   HandlesFrame, CustodyFrame DEF InductiveInv

\* Changing one row to an aged one ages all rows.
LEMMA SetRowAges ==
    ASSUME TypeOK, NEW d \in Devices, NEW t \in Transfers, NEW r,
           SetRow(d, t, r), Ages(d, row[d][t], r)
    PROVE  RowsAge
<1>1. \A e \in Devices, u \in Transfers : Ages(e, row[e][u], row[e][u])
  BY AgingOps DEF TypeOK
<1> QED
  BY <1>1 DEF SetRow, RowsAge, TypeOK

\* Leaving the rows alone ages them.
LEMMA SameRowsAge ==
    ASSUME TypeOK, UNCHANGED row
    PROVE  RowsAge
<1>1. \A e \in Devices, u \in Transfers : Ages(e, row[e][u], row[e][u])
  BY AgingOps DEF TypeOK
<1> QED
  BY <1>1 DEF RowsAge

(***************************************************************************)
(* Jobs: one job moves on while the rows age, or a stop starts from what   *)
(* the row says.                                                           *)
(***************************************************************************)
LEMMA JobMoves ==
    ASSUME TypeOK, InductiveInv, RowsAge, NegotiationAdvances,
           NEW d \in Devices, NEW t \in Transfers, NEW w \in Workers, NEW j \in Jobs,
           SetJob(d, t, w, j), UNCHANGED authing,
           j.state # "absent" => j.step # "idle" /\ Known(d, t)',
           j.state \in Terminal => Dead(d, t)',
           j.step \in {"cleanup", "clear"} => Dead(d, t)',
           w = "local" /\ j.step # "idle" => j.state # "absent",
           j.handle # None => j.state # "absent",
           d = Receiver => j.handle \notin authing[t]
    PROVE  /\ \A e \in Devices, u \in Transfers, v \in Workers : JobInv(e, u, v)'
           /\ HandlesApart'
<1>1. ASSUME NEW e \in Devices, NEW u \in Transfers, NEW v \in Workers
      PROVE  JobInv(e, u, v)'
  <2>1. /\ Known(e, u) => Known(e, u)'
        /\ Dead(e, u) => Dead(e, u)'
    BY KnownFrame
  <2>2. JobInv(e, u, v)
    BY DEF InductiveInv
  <2>3. CASE e = d /\ u = t /\ v = w
    <3>1. job'[e][u][v] = j
      BY <2>3 DEF SetJob, TypeOK
    <3> QED
      BY <2>3, <3>1 DEF JobInv
  <2>4. CASE ~(e = d /\ u = t /\ v = w)
    <3>1. job'[e][u][v] = job[e][u][v]
      BY <2>4 DEF SetJob, TypeOK
    <3> QED
      BY <2>1, <2>2, <3>1 DEF JobInv
  <2> QED
    BY <2>3, <2>4
<1>2. HandlesApart'
  BY DEF HandlesApart, InductiveInv, CustodyInv, SetJob, TypeOK, Devices
<1> QED
  BY <1>1, <1>2

\* A stop that has just read the row knows what is true of it.
LEMMA StopStarts ==
    ASSUME TypeOK, InductiveInv, NEW d \in Devices, NEW t \in Transfers, NEW w \in Workers,
           NEW kind \in {"stop", "cancel", "delete", "peer"}, NEW step \in {"abandon", "deny"},
           SetJob(d, t, w, Snapshot(kind, step, d, t)),
           UNCHANGED <<row, neg, authing>>,
           w = "local" => row[d][t].state # "absent"
    PROVE  /\ \A e \in Devices, u \in Transfers, v \in Workers : JobInv(e, u, v)'
           /\ HandlesApart'
<1> DEFINE j == Snapshot(kind, step, d, t)
<1>1. j \in Jobs
  BY SnapshotType
<1>2. /\ j.step = step /\ j.state = row[d][t].state /\ j.handle = row[d][t].handle
  BY DEF Snapshot
<1>3. RowsAge /\ NegotiationAdvances
  BY SameRowsAge DEF NegotiationAdvances
<1>4. row[d][t].state # "absent" => Known(d, t)'
  BY DEF Known
<1>5. row[d][t].state \in Terminal => Dead(d, t)'
  BY DEF Known, Dead, Terminal, Preapproval, Resumable
<1>6. row[d][t].handle # None => row[d][t].state # "absent"
  BY DEF InductiveInv, CustodyInv
<1>7. d = Receiver => row[d][t].handle \notin authing[t]
  BY DEF InductiveInv, CustodyInv
<1> HIDE DEF j
<1>8. SetJob(d, t, w, j)
  BY DEF j
<1> QED
  BY <1>1, <1>2, <1>3, <1>4, <1>5, <1>6, <1>7, <1>8, JobMoves

\* Every step of the sending end keeps the inductive invariant.
LEMMA SenderInductive ==
    ASSUME TypeOK, TypeOK', InductiveInv, NEW t \in Transfers, SenderStep(t)
    PROVE  InductiveInv'
<1> USE DEF deviceVars, senderVars, inboxVars, receiverVars
<1>0. Sender \in Devices /\ Receiver \in Devices /\ row[Sender][t] \in Records
  BY DEF Devices, TypeOK
<1>1. CASE Prepare(t)
  <2>1. RowsAge
    BY <1>1, SameRowsAge DEF Prepare, Negotiate
  <2>2. NoAcceptance /\ NoDelivery /\ NoClaim
    BY <1>1 DEF Prepare, Negotiate, NoAcceptance, NoDelivery, NoClaim, Msg, AuthMsg, CompletionMsg, TypeOK
  <2>3. NegotiationAdvances /\ NoJobStarts /\ NoSecretLost
    BY <1>1 DEF Prepare, Negotiate, NegotiationAdvances, NoJobStarts, NoSecretLost, TypeOK
  <2> QED
    BY <2>1, <2>2, <2>3, CalmStep
<1>2. CASE StopBeforeRegistration(t)
  <2>1. RowsAge
    BY <1>2, SameRowsAge DEF StopBeforeRegistration, Negotiate, TeardownPayload
  <2>2. NoAcceptance /\ NoDelivery /\ NoClaim
    BY <1>2 DEF StopBeforeRegistration, Negotiate, TeardownPayload, NoAcceptance, NoDelivery, NoClaim, Msg, AuthMsg, CompletionMsg, TypeOK
  <2>3. NegotiationAdvances /\ NoJobStarts /\ NoSecretLost
    BY <1>2 DEF StopBeforeRegistration, Negotiate, TeardownPayload, NegotiationAdvances, NoJobStarts, NoSecretLost, TypeOK
  <2> QED
    BY <2>1, <2>2, <2>3, CalmStep
<1>3. CASE RegisterOffering(t)
  <2>1. RowsAge
    BY <1>0, <1>3, AgingOps, SetRowAges DEF RegisterOffering, Negotiate, States, Preapproval, Resumable, Terminal
  <2>2. NoAcceptance /\ NoDelivery /\ NoClaim
    BY <1>3 DEF RegisterOffering, Negotiate, NoAcceptance, NoDelivery, NoClaim, Msg, AuthMsg, CompletionMsg, TypeOK
  <2>3. NegotiationAdvances /\ NoJobStarts /\ NoSecretLost
    BY <1>3 DEF RegisterOffering, Negotiate, NegotiationAdvances, NoJobStarts, NoSecretLost, TypeOK
  <2> QED
    BY <2>1, <2>2, <2>3, CalmStep
<1>4. CASE ContactFails(t)
  <2>1. RowsAge
    BY <1>0, <1>4, AgingOps, SetRowAges DEF ContactFails, Negotiate, States, Preapproval, Resumable, Terminal
  <2>2. NoAcceptance /\ NoDelivery /\ NoClaim
    BY <1>4 DEF ContactFails, Negotiate, NoAcceptance, NoDelivery, NoClaim, Msg, AuthMsg, CompletionMsg, TypeOK
  <2>3. NegotiationAdvances /\ NoJobStarts /\ NoSecretLost
    BY <1>4 DEF ContactFails, Negotiate, NegotiationAdvances, NoJobStarts, NoSecretLost, TypeOK
  <2> QED
    BY <2>1, <2>2, <2>3, CalmStep
<1>5. CASE SubmitOffer(t)
  <2>1. RowsAge
    BY <1>0, <1>5, AgingOps, SetRowAges DEF SubmitOffer, Negotiate, States, Preapproval, Resumable, Terminal
  <2>2. NoAcceptance /\ NoDelivery /\ NoClaim
    BY <1>5 DEF SubmitOffer, Negotiate, NoAcceptance, NoDelivery, NoClaim, Msg, AuthMsg, CompletionMsg, TypeOK
  <2>3. NegotiationAdvances /\ NoJobStarts /\ NoSecretLost
    BY <1>5 DEF SubmitOffer, Negotiate, NegotiationAdvances, NoJobStarts, NoSecretLost, TypeOK
  <2> QED
    BY <2>1, <2>2, <2>3, CalmStep
<1>6. CASE OfferFails(t)
  <2>1. RowsAge
    BY <1>0, <1>6, AgingOps, SetRowAges DEF OfferFails, Negotiate, StaleReplies, States, Preapproval, Resumable, Terminal
  <2>2. NoAcceptance /\ NoDelivery /\ NoClaim
    BY <1>6 DEF OfferFails, Negotiate, StaleReplies, NoAcceptance, NoDelivery, NoClaim, Msg, AuthMsg, CompletionMsg, TypeOK
  <2>3. NegotiationAdvances /\ NoJobStarts /\ NoSecretLost
    BY <1>6 DEF OfferFails, Negotiate, StaleReplies, NegotiationAdvances, NoJobStarts, NoSecretLost, TypeOK
  <2> QED
    BY <2>1, <2>2, <2>3, CalmStep
<1>7. CASE \E arg \in {"declined", "refused"} : OfferRejected(t, arg)
  <2>1. RowsAge
    BY <1>0, <1>7, AgingOps, SetRowAges DEF OfferRejected, Negotiate, States, Preapproval, Resumable, Terminal
  <2>2. NoAcceptance /\ NoDelivery /\ NoClaim
    BY <1>7 DEF OfferRejected, Negotiate, NoAcceptance, NoDelivery, NoClaim, Msg, AuthMsg, CompletionMsg, TypeOK
  <2>3. NegotiationAdvances /\ NoJobStarts /\ NoSecretLost
    BY <1>7 DEF OfferRejected, Negotiate, NegotiationAdvances, NoJobStarts, NoSecretLost, TypeOK
  <2> QED
    BY <2>1, <2>2, <2>3, CalmStep
<1>8. CASE ProtectAuthorization(t)
  <2>1. RowsAge
    BY <1>8, SameRowsAge DEF ProtectAuthorization, Negotiate
  <2>2. NoAcceptance /\ NoDelivery /\ NoClaim
    BY <1>8 DEF ProtectAuthorization, Negotiate, NoAcceptance, NoDelivery, NoClaim, Msg, AuthMsg, CompletionMsg, TypeOK
  <2>3. NegotiationAdvances /\ NoJobStarts /\ NoSecretLost
    BY <1>8 DEF ProtectAuthorization, Negotiate, NegotiationAdvances, NoJobStarts, NoSecretLost, TypeOK
  <2> QED
    BY <2>1, <2>2, <2>3, CalmStep
<1>9. CASE ProtectFails(t)
  <2>1. RowsAge
    BY <1>0, <1>9, AgingOps, SetRowAges DEF ProtectFails, Negotiate, States, Preapproval, Resumable, Terminal
  <2>2. NoAcceptance /\ NoDelivery /\ NoClaim
    BY <1>9 DEF ProtectFails, Negotiate, NoAcceptance, NoDelivery, NoClaim, Msg, AuthMsg, CompletionMsg, TypeOK
  <2>3. NegotiationAdvances /\ NoJobStarts /\ NoSecretLost
    BY <1>9 DEF ProtectFails, Negotiate, NegotiationAdvances, NoJobStarts, NoSecretLost, TypeOK
  <2> QED
    BY <2>1, <2>2, <2>3, CalmStep
<1>10. CASE Teardown(t)
  <2>1. RowsAge
    BY <1>10, SameRowsAge DEF Teardown, Negotiate, TeardownPayload
  <2>2. NoAcceptance /\ NoDelivery /\ NoClaim
    BY <1>10 DEF Teardown, Negotiate, TeardownPayload, NoAcceptance, NoDelivery, NoClaim, Msg, AuthMsg, CompletionMsg, TypeOK
  <2>3. NegotiationAdvances /\ NoJobStarts /\ NoSecretLost
    BY <1>10 DEF Teardown, Negotiate, TeardownPayload, NegotiationAdvances, NoJobStarts, NoSecretLost, TypeOK
  <2> QED
    BY <2>1, <2>2, <2>3, CalmStep
<1>11. CASE DeliveryStored(t)
  <2>1. RowsAge
    BY <1>0, <1>11, AgingOps, SetRowAges DEF DeliveryStored, Reconcile, States, Preapproval, Resumable, Terminal
  <2>2. NoAcceptance /\ NoDelivery /\ NoClaim
    BY <1>11 DEF DeliveryStored, Reconcile, NoAcceptance, NoDelivery, NoClaim, Msg, AuthMsg, CompletionMsg, TypeOK
  <2>3. NegotiationAdvances /\ NoJobStarts /\ NoSecretLost
    BY <1>11 DEF DeliveryStored, Reconcile, NegotiationAdvances, NoJobStarts, NoSecretLost, TypeOK
  <2> QED
    BY <2>1, <2>2, <2>3, CalmStep
<1>12. CASE DeliveryDeferred(t)
  <2>1. RowsAge
    BY <1>12, SameRowsAge DEF DeliveryDeferred, Reconcile, StaleReplies
  <2>2. NoAcceptance /\ NoDelivery /\ NoClaim
    BY <1>12 DEF DeliveryDeferred, Reconcile, StaleReplies, NoAcceptance, NoDelivery, NoClaim, Msg, AuthMsg, CompletionMsg, TypeOK
  <2>3. NegotiationAdvances /\ NoJobStarts /\ NoSecretLost
    BY <1>12 DEF DeliveryDeferred, Reconcile, StaleReplies, NegotiationAdvances, NoJobStarts, NoSecretLost, TypeOK
  <2> QED
    BY <2>1, <2>2, <2>3, CalmStep
<1>13. CASE ReleasePayload(t)
  <2>1. RowsAge
    BY <1>0, <1>13, AgingOps, SetRowAges DEF ReleasePayload, Reconcile, TeardownPayload, States, Preapproval, Resumable, Terminal
  <2>2. NoAcceptance /\ NoDelivery /\ NoClaim
    BY <1>13 DEF ReleasePayload, Reconcile, TeardownPayload, NoAcceptance, NoDelivery, NoClaim, Msg, AuthMsg, CompletionMsg, TypeOK
  <2>3. NegotiationAdvances /\ NoJobStarts /\ NoSecretLost
    BY <1>13 DEF ReleasePayload, Reconcile, TeardownPayload, NegotiationAdvances, NoJobStarts, NoSecretLost, TypeOK
  <2> QED
    BY <2>1, <2>2, <2>3, CalmStep
<1>14. CASE RegisterInsert(t)
  <2> USE DEF RegisterInsert, Negotiate, Insert
  <2>1. SenderState(t) = "absent" /\ neg[t] = "imported"
    BY <1>14 DEF InductiveInv, NegotiationInv
  <2>2. /\ row' = [row EXCEPT ![Sender][t] = Insert(row[Sender][t])]
        /\ neg' = [neg EXCEPT ![t] = "registering"]
    BY <1>14 DEF SetRow
  <2>3. /\ row'[Sender][t].state = "preparing" /\ row'[Sender][t].handle = row[Sender][t].handle
        /\ \A u \in Transfers \ {t} : row'[Sender][u] = row[Sender][u]
        /\ row'[Receiver] = row[Receiver]
    BY <1>0, <2>2 DEF TypeOK, Records, Sender, Receiver
  <2>4. /\ neg'[t] = "registering" /\ \A u \in Transfers \ {t} : neg'[u] = neg[u]
    BY <2>2 DEF TypeOK
  <2> HIDE DEF Insert
  <2>5. ASSUME NEW u \in Transfers
        PROVE  ConsentInv(u)' /\ ApprovalInv(u)' /\ NegotiationInv(u)' /\ CompletionInv(u)'
    BY <1>14, <2>1, <2>3, <2>4 DEF InductiveInv, ConsentInv, ApprovalInv, NegotiationInv,
       CompletionInv, SenderState, ReceiverState, PostApproval, Resumable
  <2>6. ASSUME NEW d \in Devices, NEW u \in Transfers
        PROVE  /\ Known(d, u) => Known(d, u)'
               /\ Dead(d, u) => Dead(d, u)'
    BY <2>1, <2>3, <2>4 DEF Known, Dead, SenderState, Devices
  <2>7. NoJobStarts
    BY <1>14 DEF NoJobStarts
  <2>8. ASSUME NEW u \in Transfers PROVE CustodyInv(u)'
    BY <1>14, <2>3 DEF InductiveInv, CustodyInv, Devices, Resumable
  <2> QED
    BY <2>5, <2>6, <2>7, <2>8, JobFrame DEF InductiveInv
<1>15. CASE OfferAccepted(t)
  <2>1. RowsAge
    BY <1>15, SameRowsAge DEF OfferAccepted, Negotiate
  <2>2. NoDelivery /\ NoClaim
    BY <1>15 DEF OfferAccepted, Negotiate, NoDelivery, NoClaim, AuthMsg, CompletionMsg
  <2>3. NegotiationAdvances /\ NoJobStarts /\ NoSecretLost
    BY <1>15 DEF OfferAccepted, Negotiate, NegotiationAdvances, NoJobStarts, NoSecretLost, TypeOK
  <2>4. t \in consented
    BY <1>15 DEF OfferAccepted, InductiveInv, ConsentInv
  <2>5. ASSUME NEW u \in Transfers PROVE ConsentInv(u)'
    BY <1>15, <2>4 DEF OfferAccepted, Negotiate, InductiveInv, ConsentInv, SenderState,
       ReceiverState, TypeOK
  <2> QED
    BY <2>1, <2>2, <2>3, <2>5, ApprovalFrame, NegotiationFrame, CompletionFrame, KnownFrame,
       JobFrame, HandlesFrame, CustodyFrame DEF InductiveInv
<1>16. CASE Finalize(t)
  <2>0. PICK h \in secrets[Sender][t] : SetRow(Sender, t, FinalizeSender(row[Sender][t], h))
    BY <1>16 DEF Finalize
  <2>1. NoAcceptance /\ NoDelivery /\ NoClaim
    BY <1>16 DEF Finalize, Negotiate, NoAcceptance, NoDelivery, NoClaim, TypeOK
  <2>2. NegotiationAdvances /\ NoJobStarts /\ NoSecretLost
    BY <1>16 DEF Finalize, Negotiate, NegotiationAdvances, NoJobStarts, NoSecretLost, TypeOK
  <2>3. CASE row[Sender][t].state # "awaiting_approval"
    <3>1. RowsAge
      BY <1>0, <2>0, <2>3, AgingOps, SetRowAges DEF FinalizeSender
    <3> QED
      BY <2>1, <2>2, <3>1, CalmStep
  <2>4. CASE row[Sender][t].state = "awaiting_approval"
    <3>1. /\ row'[Sender][t].state = "approved" /\ row'[Sender][t].handle = h
          /\ \A u \in Transfers \ {t} : row'[Sender][u] = row[Sender][u]
          /\ row'[Receiver] = row[Receiver]
      BY <1>0, <2>0, <2>4 DEF SetRow, FinalizeSender, TypeOK, Records, Sender, Receiver
    <3>2. neg[t] = "protected" /\ neg'[t] = "done" /\ \A u \in Transfers \ {t} : neg'[u] = neg[u]
      BY <1>16, <2>4 DEF Finalize, Negotiate, TypeOK
    <3>3. ASSUME NEW u \in Transfers
          PROVE  ConsentInv(u)' /\ ApprovalInv(u)' /\ NegotiationInv(u)' /\ CompletionInv(u)'
      BY <1>16, <2>4, <3>1, <3>2 DEF Finalize, Negotiate, InductiveInv, ConsentInv, ApprovalInv,
         NegotiationInv, CompletionInv, SenderState, ReceiverState, PostApproval, Resumable
    <3>4. ASSUME NEW d \in Devices, NEW u \in Transfers
          PROVE  /\ Known(d, u) => Known(d, u)'
                 /\ Dead(d, u) => Dead(d, u)'
      BY <2>4, <3>1, <3>2 DEF Known, Dead, Devices, Preapproval
    <3>5. ASSUME NEW u \in Transfers PROVE CustodyInv(u)'
      BY <1>16, <3>1 DEF Finalize, Negotiate, InductiveInv, CustodyInv, Devices
    <3> QED
      BY <2>2, <3>3, <3>4, <3>5, JobFrame DEF InductiveInv
  <2> QED
    BY <2>3, <2>4
<1>17. CASE Rollback(t)
  <2>1. RowsAge
    BY <1>0, <1>17, AgingOps, SetRowAges DEF Rollback
  <2>2. NoAcceptance /\ NoDelivery /\ NoClaim
    BY <1>17 DEF Rollback, Negotiate, NoAcceptance, NoDelivery, NoClaim, TypeOK
  <2>3. NegotiationAdvances /\ NoJobStarts
    BY <1>17 DEF Rollback, Negotiate, NegotiationAdvances, NoJobStarts, TypeOK
  <2>4. row'[Sender][t].state \notin Resumable
    BY <1>17, <2>1 DEF Rollback, Negotiate, InductiveInv, NegotiationInv, SenderState, RowsAge,
       Ages, Devices
  <2>5. ASSUME NEW u \in Transfers PROVE CustodyInv(u)'
    <3>1. /\ secrets'[Receiver] = secrets[Receiver]
          /\ \A v \in Transfers \ {t} : secrets'[Sender][v] = secrets[Sender][v]
      BY <1>17 DEF Rollback, TypeOK, Sender, Receiver
    <3>2. authing' = authing /\ up' = up /\ job' = job /\ authing[u] \subseteq Handles
      BY <1>17 DEF Rollback, Negotiate, TypeOK
    <3>3. ASSUME NEW d \in Devices
          PROVE  /\ row'[d][u].state = "absent" => row'[d][u].handle = None
                 /\ row'[d][u].state \in Resumable => row'[d][u].handle \in secrets'[d][u]
      BY <2>1, <2>4, <3>1 DEF InductiveInv, CustodyInv, RowsAge, Ages, Devices
    <3>4. row'[Receiver][u].handle \notin authing'[u]
      BY <1>0, <2>1, <3>2, NoneIsNoHandle DEF InductiveInv, CustodyInv, RowsAge, Ages
    <3> QED
      BY <1>0, <3>1, <3>2, <3>3, <3>4 DEF InductiveInv, CustodyInv
  <2> QED
    BY <2>1, <2>2, <2>3, <2>5, ConsentFrame, ApprovalFrame, NegotiationFrame, CompletionFrame,
       KnownFrame, JobFrame DEF InductiveInv
<1>18. CASE StopStart(t)
  <2> USE DEF StopStart, CommandStart
  <2>1. RowsAge
    BY <1>18, SameRowsAge
  <2>2. NoAcceptance /\ NoDelivery /\ NoClaim /\ NegotiationAdvances /\ NoSecretLost
    BY <1>18 DEF NoAcceptance, NoDelivery, NoClaim, NegotiationAdvances, NoSecretLost
  <2>3. /\ \A e \in Devices, u \in Transfers, v \in Workers : JobInv(e, u, v)'
        /\ HandlesApart'
    BY <1>0, <1>18, StopStarts DEF Workers, Preapproval, Resumable
  <2> QED
    BY <2>1, <2>2, <2>3, ConsentFrame, ApprovalFrame, NegotiationFrame, CompletionFrame,
       CustodyFrame DEF InductiveInv
<1>19. CASE StopAbandon(t)
  <2> DEFINE r == row[Sender][t]
             j == job[Sender][t]["local"]
  <2>1. RowsAge
    BY <1>0, <1>19, AgingOps, SetRowAges DEF StopAbandon
  <2>2. NoAcceptance /\ NoDelivery /\ NoClaim /\ NegotiationAdvances /\ NoSecretLost
    BY <1>19 DEF StopAbandon, NoAcceptance, NoDelivery, NoClaim, NegotiationAdvances, NoSecretLost
  <2>3. j \in Jobs /\ j.step = "abandon" /\ JobInv(Sender, t, "local") /\ "local" \in Workers
    BY <1>0, <1>19 DEF StopAbandon, TypeOK, InductiveInv, Workers
  <2>4. UNCHANGED authing
    BY <1>19 DEF StopAbandon
  <2>5. /\ \A e \in Devices, u \in Transfers, v \in Workers : JobInv(e, u, v)'
        /\ HandlesApart'
    <3>1. CASE r.state \in Preapproval
      <4> DEFINE k == [j EXCEPT !.kind = "abandon", !.step = "cleanup"]
      <4>0. k \in Jobs
        BY <2>3, JobTypes
      <4>1. k.step = "cleanup" /\ k.state = j.state /\ k.handle = j.handle
        BY <2>3 DEF Jobs
      <4>2. SetJob(Sender, t, "local", k)
        BY <1>19, <3>1 DEF StopAbandon
      <4>3. row'[Sender][t].state = "absent" /\ neg' = neg
        BY <1>0, <1>19, <3>1 DEF StopAbandon, SetRow, AbandonSenderPreapproval, NoRecord, TypeOK
      <4>4. neg[t] \notin {"idle", "imported"}
        BY <3>1 DEF InductiveInv, NegotiationInv, SenderState, Preapproval
      <4>5. Dead(Sender, t)' /\ Known(Sender, t)'
        BY <4>3, <4>4 DEF Dead, Known, Preapproval, Resumable
      <4>6. /\ j.state # "absent"
            /\ Sender # Receiver
        BY <2>3 DEF JobInv, Sender, Receiver
      <4> HIDE DEF k, j, r
      <4> QED
        BY <1>0, <2>1, <2>2, <2>3, <2>4, <4>0, <4>1, <4>2, <4>5, <4>6, JobMoves
    <3>2. CASE r.state \in Terminal \cup {"absent"}
      <4>1. NoJobStarts
        BY <1>0, <1>19, <2>3, <3>2
           DEF StopAbandon, SetJob, NoJobStarts, TypeOK, Preapproval, Terminal
      <4> QED
        BY <2>1, <2>2, <4>1, KnownFrame, JobFrame, HandlesFrame
    <3>3. CASE r.state \notin Preapproval /\ r.state \notin Terminal \cup {"absent"}
      <4>1. /\ SetJob(Sender, t, "local", Snapshot("stop", "deny", Sender, t))
            /\ SetRow(Sender, t, r)
            /\ UNCHANGED neg
        BY <1>19, <3>3 DEF StopAbandon, AbandonSenderPreapproval
      <4>2. UNCHANGED row
        BY <1>0, <4>1 DEF SetRow, TypeOK
      <4> QED
        BY <1>0, <2>3, <2>4, <3>3, <4>1, <4>2, StopStarts
    <3> QED
      BY <3>1, <3>2, <3>3
  <2> QED
    BY <2>1, <2>2, <2>5, ConsentFrame, ApprovalFrame, NegotiationFrame, CompletionFrame,
       CustodyFrame DEF InductiveInv
<1>20. CASE DeliverAuthorization(t)
  <2> USE DEF DeliverAuthorization, Reconcile
  <2>1. RowsAge
    BY <1>20, SameRowsAge
  <2>2. NoAcceptance /\ NoClaim /\ NegotiationAdvances /\ NoJobStarts /\ NoSecretLost
    BY <1>20 DEF StaleReplies, NoAcceptance, NoClaim, CompletionMsg, Msg, NegotiationAdvances,
       NoJobStarts, NoSecretLost
  <2>3. ASSUME NEW u \in Transfers PROVE ApprovalInv(u)'
    BY <1>20 DEF StaleReplies, InductiveInv, ApprovalInv, SenderState, ReceiverState, AuthMsg, Msg,
       PostApproval, Resumable
  <2>4. ASSUME NEW u \in Transfers PROVE CustodyInv(u)'
    BY <1>20 DEF InductiveInv, CustodyInv
  <2> QED
    BY <2>1, <2>2, <2>3, <2>4, ConsentFrame, NegotiationFrame, CompletionFrame, KnownFrame,
       JobFrame DEF InductiveInv
<1>21. CASE HandleCompletion(t)
  <2> DEFINE r == row[Sender][t]
  <2>1. NoAcceptance /\ NoDelivery /\ NoClaim
    BY <1>21 DEF HandleCompletion, Reconcile, Reply, NoAcceptance, NoDelivery, NoClaim, Msg, AuthMsg,
       CompletionMsg
  <2>2. NegotiationAdvances /\ NoJobStarts /\ NoSecretLost
    BY <1>21 DEF HandleCompletion, Reconcile, NegotiationAdvances, NoJobStarts, NoSecretLost
  <2>3. CASE ~(RecordsCompletion(r) /\ r.state \in Resumable)
    <3>1. RowsAge
      BY <1>0, <1>21, <2>3, AgingOps, SetRowAges DEF HandleCompletion, MarkSenderCompleted
    <3> QED
      BY <2>1, <2>2, <3>1, CalmStep
  <2>4. CASE RecordsCompletion(r) /\ r.state \in Resumable
    <3>1. /\ row'[Sender][t].state = "completed" /\ row'[Sender][t].handle = r.handle
          /\ \A u \in Transfers \ {t} : row'[Sender][u] = row[Sender][u]
          /\ row'[Receiver] = row[Receiver]
      BY <1>0, <1>21, <2>4 DEF HandleCompletion, SetRow, MarkSenderCompleted, TypeOK, Records,
         Sender, Receiver
    <3>2. /\ ReceiverState(t) \in {"completed", "deleted"}
          /\ r.state \in Resumable
      BY <1>21, <2>4 DEF HandleCompletion, InductiveInv, CompletionInv, CompletionMsg
    <3>3. neg' = neg
      BY <1>21 DEF HandleCompletion, Reconcile
    <3>4. ASSUME NEW u \in Transfers
          PROVE  ConsentInv(u)' /\ ApprovalInv(u)' /\ NegotiationInv(u)' /\ CompletionInv(u)'
      BY <2>1, <3>1, <3>2, <3>3 DEF InductiveInv, ConsentInv, ApprovalInv, NegotiationInv,
         CompletionInv, NoAcceptance, NoDelivery, NoClaim, SenderState, ReceiverState,
         PostApproval, Resumable
    <3>5. ASSUME NEW d \in Devices, NEW u \in Transfers
          PROVE  /\ Known(d, u) => Known(d, u)'
                 /\ Dead(d, u) => Dead(d, u)'
      BY <3>1, <3>2, <3>3 DEF Known, Dead, Devices, Preapproval, Resumable
    <3>6. ASSUME NEW u \in Transfers PROVE CustodyInv(u)'
      BY <1>21, <3>1 DEF HandleCompletion, Reconcile, InductiveInv, CustodyInv, Devices, Resumable
    <3> QED
      BY <2>2, <3>4, <3>5, <3>6, JobFrame DEF InductiveInv
  <2> QED
    BY <2>3, <2>4
<1> QED
  BY <1>1, <1>2, <1>3, <1>4, <1>5, <1>6, <1>7, <1>8, <1>9, <1>10, <1>11, <1>12, <1>13, <1>14,
     <1>15, <1>16, <1>17, <1>18, <1>19, <1>20, <1>21 DEF SenderStep

\* Every step of the receiving end keeps the inductive invariant.
LEMMA ReceiverInductive ==
    ASSUME TypeOK, TypeOK', InductiveInv, NEW t \in Transfers, ReceiverStep(t)
    PROVE  InductiveInv'
<1> USE DEF deviceVars, senderVars, inboxVars, receiverVars
<1>0. Sender \in Devices /\ Receiver \in Devices /\ row[Receiver][t] \in Records
  BY DEF Devices, TypeOK
<1>1. CASE OfferRefused(t)
  <2>1. RowsAge
    BY <1>1, SameRowsAge DEF OfferRefused, InboxStep, Answer, Reply
  <2>2. NoAcceptance /\ NoDelivery /\ NoClaim
    BY <1>1 DEF OfferRefused, InboxStep, Answer, Reply, NoAcceptance, NoDelivery, NoClaim, Msg, AuthMsg, CompletionMsg, TypeOK
  <2>3. NegotiationAdvances /\ NoJobStarts /\ NoSecretLost
    BY <1>1 DEF OfferRefused, InboxStep, Answer, Reply, NegotiationAdvances, NoJobStarts, NoSecretLost, TypeOK
  <2> QED
    BY <2>1, <2>2, <2>3, CalmStep
<1>2. CASE OfferPending(t)
  <2>1. RowsAge
    BY <1>2, SameRowsAge DEF OfferPending, InboxStep
  <2>2. NoAcceptance /\ NoDelivery /\ NoClaim
    BY <1>2 DEF OfferPending, InboxStep, NoAcceptance, NoDelivery, NoClaim, Msg, AuthMsg, CompletionMsg, TypeOK
  <2>3. NegotiationAdvances /\ NoJobStarts /\ NoSecretLost
    BY <1>2 DEF OfferPending, InboxStep, NegotiationAdvances, NoJobStarts, NoSecretLost, TypeOK
  <2> QED
    BY <2>1, <2>2, <2>3, CalmStep
<1>3. CASE OfferDecidedNo(t)
  <2>1. RowsAge
    BY <1>3, SameRowsAge DEF OfferDecidedNo, InboxStep, Reply
  <2>2. NoAcceptance /\ NoDelivery /\ NoClaim
    BY <1>3 DEF OfferDecidedNo, InboxStep, Reply, NoAcceptance, NoDelivery, NoClaim, Msg, AuthMsg, CompletionMsg, TypeOK
  <2>3. NegotiationAdvances /\ NoJobStarts /\ NoSecretLost
    BY <1>3 DEF OfferDecidedNo, InboxStep, Reply, NegotiationAdvances, NoJobStarts, NoSecretLost, TypeOK
  <2> QED
    BY <2>1, <2>2, <2>3, CalmStep
<1>4. CASE OfferTimesOut(t)
  <2>1. RowsAge
    BY <1>4, SameRowsAge DEF OfferTimesOut, InboxStep, Reply
  <2>2. NoAcceptance /\ NoDelivery /\ NoClaim
    BY <1>4 DEF OfferTimesOut, InboxStep, Reply, NoAcceptance, NoDelivery, NoClaim, Msg, AuthMsg, CompletionMsg, TypeOK
  <2>3. NegotiationAdvances /\ NoJobStarts /\ NoSecretLost
    BY <1>4 DEF OfferTimesOut, InboxStep, Reply, NegotiationAdvances, NoJobStarts, NoSecretLost, TypeOK
  <2> QED
    BY <2>1, <2>2, <2>3, CalmStep
<1>5. CASE RespondAccept(t)
  <2>1. RowsAge
    BY <1>5, SameRowsAge DEF RespondAccept, InboxStep
  <2>2. NoAcceptance /\ NoDelivery /\ NoClaim
    BY <1>5 DEF RespondAccept, InboxStep, NoAcceptance, NoDelivery, NoClaim, Msg, AuthMsg, CompletionMsg, TypeOK
  <2>3. NegotiationAdvances /\ NoJobStarts /\ NoSecretLost
    BY <1>5 DEF RespondAccept, InboxStep, NegotiationAdvances, NoJobStarts, NoSecretLost, TypeOK
  <2> QED
    BY <2>1, <2>2, <2>3, CalmStep
<1>6. CASE RespondDecline(t)
  <2>1. RowsAge
    BY <1>0, <1>6, AgingOps, SetRowAges DEF RespondDecline, InboxStep, Discard, States, Preapproval, Resumable, Terminal
  <2>2. NoAcceptance /\ NoDelivery /\ NoClaim
    BY <1>6 DEF RespondDecline, InboxStep, Discard, NoAcceptance, NoDelivery, NoClaim, Msg, AuthMsg, CompletionMsg, TypeOK
  <2>3. NegotiationAdvances /\ NoJobStarts /\ NoSecretLost
    BY <1>6 DEF RespondDecline, InboxStep, Discard, NegotiationAdvances, NoJobStarts, NoSecretLost, TypeOK
  <2> QED
    BY <2>1, <2>2, <2>3, CalmStep
<1>7. CASE AuthorizationReceived(t)
  <2>1. RowsAge
    BY <1>7, SameRowsAge DEF AuthorizationReceived, InboxStep
  <2>2. NoAcceptance /\ NoDelivery /\ NoClaim
    BY <1>7 DEF AuthorizationReceived, InboxStep, NoAcceptance, NoDelivery, NoClaim, Msg, AuthMsg, CompletionMsg, TypeOK
  <2>3. NegotiationAdvances /\ NoJobStarts /\ NoSecretLost
    BY <1>7 DEF AuthorizationReceived, InboxStep, NegotiationAdvances, NoJobStarts, NoSecretLost, TypeOK
  <2> QED
    BY <2>1, <2>2, <2>3, CalmStep
<1>8. CASE AuthorizationTimesOut(t)
  <2>1. RowsAge
    BY <1>8, SameRowsAge DEF AuthorizationTimesOut, InboxStep
  <2>2. NoAcceptance /\ NoDelivery /\ NoClaim
    BY <1>8 DEF AuthorizationTimesOut, InboxStep, NoAcceptance, NoDelivery, NoClaim, Msg, AuthMsg, CompletionMsg, TypeOK
  <2>3. NegotiationAdvances /\ NoJobStarts /\ NoSecretLost
    BY <1>8 DEF AuthorizationTimesOut, InboxStep, NegotiationAdvances, NoJobStarts, NoSecretLost, TypeOK
  <2> QED
    BY <2>1, <2>2, <2>3, CalmStep
<1>9. CASE AuthorizationKnown(t)
  <2>1. RowsAge
    BY <1>9, SameRowsAge DEF AuthorizationKnown, AuthorizationStep, Answer, Reply
  <2>2. NoAcceptance /\ NoDelivery /\ NoClaim
    BY <1>9 DEF AuthorizationKnown, AuthorizationStep, Answer, Reply, NoAcceptance, NoDelivery, NoClaim, Msg, AuthMsg, CompletionMsg, TypeOK
  <2>3. NegotiationAdvances /\ NoJobStarts /\ NoSecretLost
    BY <1>9 DEF AuthorizationKnown, AuthorizationStep, Answer, Reply, NegotiationAdvances, NoJobStarts, NoSecretLost, TypeOK
  <2> QED
    BY <2>1, <2>2, <2>3, CalmStep
<1>10. CASE ReceiveStart(t)
  <2>1. RowsAge
    BY <1>10, SameRowsAge DEF ReceiveStart, RunStep
  <2>2. NoAcceptance /\ NoDelivery /\ NoClaim
    BY <1>10 DEF ReceiveStart, RunStep, NoAcceptance, NoDelivery, NoClaim, Msg, AuthMsg, CompletionMsg, TypeOK
  <2>3. NegotiationAdvances /\ NoJobStarts /\ NoSecretLost
    BY <1>10 DEF ReceiveStart, RunStep, NegotiationAdvances, NoJobStarts, NoSecretLost, TypeOK
  <2> QED
    BY <2>1, <2>2, <2>3, CalmStep
<1>11. CASE ReceiveConnecting(t)
  <2>1. RowsAge
    BY <1>0, <1>11, AgingOps, SetRowAges DEF ReceiveConnecting, RunStep, States, Preapproval, Resumable, Terminal
  <2>2. NoAcceptance /\ NoDelivery /\ NoClaim
    BY <1>11 DEF ReceiveConnecting, RunStep, NoAcceptance, NoDelivery, NoClaim, Msg, AuthMsg, CompletionMsg, TypeOK
  <2>3. NegotiationAdvances /\ NoJobStarts /\ NoSecretLost
    BY <1>11 DEF ReceiveConnecting, RunStep, NegotiationAdvances, NoJobStarts, NoSecretLost, TypeOK
  <2> QED
    BY <2>1, <2>2, <2>3, CalmStep
<1>12. CASE ReceiveTransferring(t)
  <2>1. RowsAge
    BY <1>0, <1>12, AgingOps, SetRowAges DEF ReceiveTransferring, RunStep, States, Preapproval, Resumable, Terminal
  <2>2. NoAcceptance /\ NoDelivery /\ NoClaim
    BY <1>12 DEF ReceiveTransferring, RunStep, NoAcceptance, NoDelivery, NoClaim, Msg, AuthMsg, CompletionMsg, TypeOK
  <2>3. NegotiationAdvances /\ NoJobStarts /\ NoSecretLost
    BY <1>12 DEF ReceiveTransferring, RunStep, NegotiationAdvances, NoJobStarts, NoSecretLost, TypeOK
  <2> QED
    BY <2>1, <2>2, <2>3, CalmStep
<1>13. CASE PayloadArrives(t)
  <2>1. RowsAge
    BY <1>13, SameRowsAge DEF PayloadArrives, RunStep
  <2>2. NoAcceptance /\ NoDelivery /\ NoClaim
    BY <1>13 DEF PayloadArrives, RunStep, NoAcceptance, NoDelivery, NoClaim, Msg, AuthMsg, CompletionMsg, TypeOK
  <2>3. NegotiationAdvances /\ NoJobStarts /\ NoSecretLost
    BY <1>13 DEF PayloadArrives, RunStep, NegotiationAdvances, NoJobStarts, NoSecretLost, TypeOK
  <2> QED
    BY <2>1, <2>2, <2>3, CalmStep
<1>14. CASE PayloadFails(t)
  <2>1. RowsAge
    BY <1>0, <1>14, AgingOps, SetRowAges DEF PayloadFails, RunStep, States, Preapproval, Resumable, Terminal
  <2>2. NoAcceptance /\ NoDelivery /\ NoClaim
    BY <1>14 DEF PayloadFails, RunStep, NoAcceptance, NoDelivery, NoClaim, Msg, AuthMsg, CompletionMsg, TypeOK
  <2>3. NegotiationAdvances /\ NoJobStarts /\ NoSecretLost
    BY <1>14 DEF PayloadFails, RunStep, NegotiationAdvances, NoJobStarts, NoSecretLost, TypeOK
  <2> QED
    BY <2>1, <2>2, <2>3, CalmStep
<1>15. CASE ReceiveAcknowledged(t)
  <2>1. RowsAge
    BY <1>0, <1>15, AgingOps, SetRowAges DEF ReceiveAcknowledged, RunStep, ClearCompletion, States, Preapproval, Resumable, Terminal
  <2>2. NoAcceptance /\ NoDelivery /\ NoClaim
    BY <1>15 DEF ReceiveAcknowledged, RunStep, ClearCompletion, NoAcceptance, NoDelivery, NoClaim, Msg, AuthMsg, CompletionMsg, TypeOK
  <2>3. NegotiationAdvances /\ NoJobStarts /\ NoSecretLost
    BY <1>15 DEF ReceiveAcknowledged, RunStep, ClearCompletion, NegotiationAdvances, NoJobStarts, NoSecretLost, TypeOK
  <2> QED
    BY <2>1, <2>2, <2>3, CalmStep
<1>16. CASE ReceiveUnacknowledged(t)
  <2>1. RowsAge
    BY <1>16, SameRowsAge DEF ReceiveUnacknowledged, RunStep, StaleReplies
  <2>2. NoAcceptance /\ NoDelivery /\ NoClaim
    BY <1>16 DEF ReceiveUnacknowledged, RunStep, StaleReplies, NoAcceptance, NoDelivery, NoClaim, Msg, AuthMsg, CompletionMsg, TypeOK
  <2>3. NegotiationAdvances /\ NoJobStarts /\ NoSecretLost
    BY <1>16 DEF ReceiveUnacknowledged, RunStep, StaleReplies, NegotiationAdvances, NoJobStarts, NoSecretLost, TypeOK
  <2> QED
    BY <2>1, <2>2, <2>3, CalmStep
<1>17. CASE ReceiveEnd(t)
  <2>1. RowsAge
    BY <1>17, SameRowsAge DEF ReceiveEnd, RunStep
  <2>2. NoAcceptance /\ NoDelivery /\ NoClaim
    BY <1>17 DEF ReceiveEnd, RunStep, NoAcceptance, NoDelivery, NoClaim, Msg, AuthMsg, CompletionMsg, TypeOK
  <2>3. NegotiationAdvances /\ NoJobStarts /\ NoSecretLost
    BY <1>17 DEF ReceiveEnd, RunStep, NegotiationAdvances, NoJobStarts, NoSecretLost, TypeOK
  <2> QED
    BY <2>1, <2>2, <2>3, CalmStep
<1>18. CASE RetryAcknowledged(t)
  <2>1. RowsAge
    BY <1>0, <1>18, AgingOps, SetRowAges DEF RetryAcknowledged, RetryStep, ClearCompletion, States, Preapproval, Resumable, Terminal
  <2>2. NoAcceptance /\ NoDelivery /\ NoClaim
    BY <1>18 DEF RetryAcknowledged, RetryStep, ClearCompletion, NoAcceptance, NoDelivery, NoClaim, Msg, AuthMsg, CompletionMsg, TypeOK
  <2>3. NegotiationAdvances /\ NoJobStarts /\ NoSecretLost
    BY <1>18 DEF RetryAcknowledged, RetryStep, ClearCompletion, NegotiationAdvances, NoJobStarts, NoSecretLost, TypeOK
  <2> QED
    BY <2>1, <2>2, <2>3, CalmStep
<1>19. CASE RetryDeferred(t)
  <2>1. RowsAge
    BY <1>19, SameRowsAge DEF RetryDeferred, RetryStep, StaleReplies
  <2>2. NoAcceptance /\ NoDelivery /\ NoClaim
    BY <1>19 DEF RetryDeferred, RetryStep, StaleReplies, NoAcceptance, NoDelivery, NoClaim, Msg, AuthMsg, CompletionMsg, TypeOK
  <2>3. NegotiationAdvances /\ NoJobStarts /\ NoSecretLost
    BY <1>19 DEF RetryDeferred, RetryStep, StaleReplies, NegotiationAdvances, NoJobStarts, NoSecretLost, TypeOK
  <2> QED
    BY <2>1, <2>2, <2>3, CalmStep
<1>20. CASE \E arg \in {"withdrawn", "cancelled", "deleted"} : CancelPendingOffer(t, arg)
  <2>1. RowsAge
    BY <1>0, <1>20, AgingOps, SetRowAges DEF CancelPendingOffer, CancelArrives, Discard, States, Preapproval, Resumable, Terminal
  <2>2. NoAcceptance /\ NoDelivery /\ NoClaim
    BY <1>20 DEF CancelPendingOffer, CancelArrives, Discard, NoAcceptance, NoDelivery, NoClaim, Msg, AuthMsg, CompletionMsg, TypeOK
  <2>3. NegotiationAdvances /\ NoJobStarts /\ NoSecretLost
    BY <1>20 DEF CancelPendingOffer, CancelArrives, Discard, NegotiationAdvances, NoJobStarts, NoSecretLost, TypeOK
  <2> QED
    BY <2>1, <2>2, <2>3, CalmStep
<1>21. CASE OfferDecidedYes(t)
  <2> USE DEF OfferDecidedYes, InboxStep
  <2>1. RowsAge
    BY <1>21, SameRowsAge
  <2>2. NoDelivery /\ NoClaim /\ NegotiationAdvances /\ NoJobStarts /\ NoSecretLost
    BY <1>21 DEF Reply, NoDelivery, NoClaim, AuthMsg, CompletionMsg, Msg, NegotiationAdvances,
       NoJobStarts, NoSecretLost
  <2>3. t \in consented
    BY <1>21 DEF InductiveInv, ConsentInv
  <2>4. ASSUME NEW u \in Transfers PROVE ConsentInv(u)'
    BY <1>21, <2>3 DEF Reply, InductiveInv, ConsentInv, SenderState, ReceiverState, Msg, TypeOK
  <2> QED
    BY <2>1, <2>2, <2>4, ApprovalFrame, NegotiationFrame, CompletionFrame, KnownFrame,
       JobFrame, HandlesFrame, CustodyFrame DEF InductiveInv
<1>22. CASE PersistConsent(t)
  <2> USE DEF PersistConsent, InboxStep
  <2>1. /\ row'[Receiver][t].state = row[Receiver][t].state
        /\ row'[Receiver][t].handle = row[Receiver][t].handle
        /\ \A u \in Transfers \ {t} : row'[Receiver][u] = row[Receiver][u]
        /\ row'[Sender] = row[Sender]
    BY <1>0, <1>22 DEF SetRow, PersistIntent, TypeOK, Records, Sender, Receiver
  <2>2. /\ consented' = consented \cup {t}
        /\ \A u \in Transfers \ {t} : resp'[u] = resp[u]
    BY <1>22 DEF TypeOK
  <2>3. NegotiationAdvances /\ NoJobStarts
    BY <1>22 DEF NegotiationAdvances, NoJobStarts
  <2>4. ASSUME NEW u \in Transfers
        PROVE  ConsentInv(u)' /\ ApprovalInv(u)' /\ NegotiationInv(u)' /\ CompletionInv(u)'
    BY <1>22, <2>1, <2>2 DEF InductiveInv, ConsentInv, ApprovalInv, NegotiationInv,
       CompletionInv, SenderState, ReceiverState, AuthMsg, CompletionMsg
  <2>5. ASSUME NEW d \in Devices, NEW u \in Transfers
        PROVE  /\ Known(d, u) => Known(d, u)'
               /\ Dead(d, u) => Dead(d, u)'
    BY <1>22, <2>1 DEF Known, Dead, Devices
  <2>6. ASSUME NEW u \in Transfers PROVE CustodyInv(u)'
    BY <1>22, <2>1 DEF InductiveInv, CustodyInv, Devices
  <2> QED
    BY <2>3, <2>4, <2>5, <2>6, JobFrame DEF InductiveInv
<1>23. CASE AcceptLive(t)
  <2> USE DEF AcceptLive, InboxStep
  <2>1. RowsAge
    BY <1>23, SameRowsAge
  <2>2. NoDelivery /\ NoClaim /\ NegotiationAdvances /\ NoJobStarts /\ NoSecretLost
    BY <1>23 DEF NoDelivery, NoClaim, NegotiationAdvances, NoJobStarts, NoSecretLost
  <2>3. t \in consented
    BY <1>23 DEF InductiveInv, ConsentInv
  <2>4. ASSUME NEW u \in Transfers PROVE ConsentInv(u)'
    BY <1>23, <2>3 DEF InductiveInv, ConsentInv, SenderState, ReceiverState, TypeOK
  <2> QED
    BY <2>1, <2>2, <2>4, ApprovalFrame, NegotiationFrame, CompletionFrame, KnownFrame,
       JobFrame, HandlesFrame, CustodyFrame DEF InductiveInv
<1>24. CASE AuthorizationProtect(t)
  <2> USE DEF AuthorizationProtect, AuthorizationStep
  <2>1. RowsAge
    BY <1>24, SameRowsAge
  <2>2. NoAcceptance /\ NoClaim /\ NegotiationAdvances /\ NoJobStarts
    BY <1>24 DEF NoAcceptance, NoClaim, NegotiationAdvances, NoJobStarts
  <2>3. PICK h \in Handles \ secrets[Receiver][t] :
           /\ secrets' = [secrets EXCEPT ![Receiver][t] = @ \cup {h}]
           /\ authing' = [authing EXCEPT ![t] = @ \cup {h}]
    BY <1>24
  <2>4. /\ secrets'[Receiver][t] = secrets[Receiver][t] \cup {h}
        /\ secrets'[Sender] = secrets[Sender]
        /\ authing'[t] = authing[t] \cup {h}
        /\ \A u \in Transfers \ {t} :
              secrets'[Receiver][u] = secrets[Receiver][u] /\ authing'[u] = authing[u]
    BY <1>0, <2>3 DEF TypeOK, Sender, Receiver
  <2>5. ASSUME NEW u \in Transfers PROVE ApprovalInv(u)'
    BY <1>24, <2>4 DEF InductiveInv, ApprovalInv, SenderState, ReceiverState, AuthMsg
  <2>6. /\ row[Receiver][t].handle = None
        /\ \A w \in Workers : job[Receiver][t][w].handle = None
    BY <1>0, <1>24 DEF InductiveInv, CustodyInv, JobInv, Known, Sender, Receiver
  <2>7. up[Receiver] # "down" /\ up' = up /\ row' = row /\ job' = job
    BY <1>24 DEF Listening
  <2>8. ASSUME NEW u \in Transfers PROVE CustodyInv(u)'
    BY <2>4, <2>6, <2>7, NoneIsNoHandle DEF InductiveInv, CustodyInv, Devices
  <2> QED
    BY <2>1, <2>2, <2>5, <2>8, ConsentFrame, NegotiationFrame, CompletionFrame, KnownFrame,
       JobFrame DEF InductiveInv
<1>25. CASE \E h \in Handles : AuthorizationCommit(t, h)
  <2>0. PICK h \in Handles : AuthorizationCommit(t, h)
    BY <1>25
  <2> USE DEF AuthorizationCommit, AuthorizationStep
  <2>1. /\ row[Receiver][t].state = "absent" /\ row[Receiver][t].intent
        /\ row'[Receiver][t].state = "approved" /\ row'[Receiver][t].handle = h
        /\ row'[Receiver][t].intent = FALSE
        /\ \A u \in Transfers \ {t} : row'[Receiver][u] = row[Receiver][u]
        /\ row'[Sender] = row[Sender]
    BY <1>0, <2>0 DEF SetRow, CanPersistReceiver, PersistReceiver, TypeOK, Records, Sender,
       Receiver
  <2>2. /\ h \in authing[t] /\ authing'[t] = authing[t] \ {h}
        /\ \A u \in Transfers \ {t} : authing'[u] = authing[u]
    BY <2>0 DEF TypeOK
  <2>3. NegotiationAdvances /\ NoJobStarts /\ NoAcceptance /\ NoDelivery /\ NoClaim
    BY <2>0, <2>2 DEF Reply, NegotiationAdvances, NoJobStarts, NoAcceptance, NoDelivery, NoClaim,
       AuthMsg, CompletionMsg, Msg
  <2>4. t \in consented /\ SenderState(t) \in PostApproval
    BY <2>1, <2>2 DEF InductiveInv, ConsentInv, ApprovalInv
  <2>5. SenderState(t) # "completed" /\ CompletionMsg(t) \notin net
    BY <2>1 DEF InductiveInv, CompletionInv, ReceiverState
  <2>6. ASSUME NEW u \in Transfers
        PROVE  ConsentInv(u)' /\ ApprovalInv(u)' /\ CompletionInv(u)'
    BY <2>1, <2>2, <2>3, <2>4, <2>5 DEF InductiveInv, ConsentInv, ApprovalInv, CompletionInv,
       SenderState, ReceiverState, NoAcceptance, NoDelivery, NoClaim
  <2>7. ASSUME NEW u \in Transfers PROVE NegotiationInv(u)'
    BY <2>0, <2>1 DEF InductiveInv, NegotiationInv, SenderState
  <2>8. ASSUME NEW d \in Devices, NEW u \in Transfers
        PROVE  /\ Known(d, u) => Known(d, u)'
               /\ Dead(d, u) => Dead(d, u)'
    BY <2>0, <2>1 DEF Known, Dead, Devices, Sender, Receiver
  <2>9. ASSUME NEW u \in Transfers PROVE CustodyInv(u)'
    <3>1. up' = up /\ job' = job /\ secrets' = secrets
      BY <2>0
    <3> QED
      BY <2>1, <2>2, <3>1 DEF InductiveInv, CustodyInv, Devices
  <2> QED
    BY <2>3, <2>6, <2>7, <2>8, <2>9, JobFrame DEF InductiveInv
<1>26. CASE \E h \in Handles : AuthorizationRollback(t, h)
  <2>0. PICK h \in Handles : AuthorizationRollback(t, h)
    BY <1>26
  <2> USE DEF AuthorizationRollback, AuthorizationStep
  <2>1. RowsAge
    BY <2>0, SameRowsAge
  <2>2. NegotiationAdvances /\ NoJobStarts /\ NoAcceptance /\ NoDelivery /\ NoClaim
    BY <2>0 DEF Reply, NegotiationAdvances, NoJobStarts, NoAcceptance, NoDelivery, NoClaim,
       AuthMsg, CompletionMsg, Msg, TypeOK
  <2>3. /\ h \in authing[t] /\ authing'[t] = authing[t] \ {h}
        /\ secrets'[Receiver][t] = secrets[Receiver][t] \ {h}
        /\ secrets'[Sender] = secrets[Sender]
        /\ \A u \in Transfers \ {t} :
              secrets'[Receiver][u] = secrets[Receiver][u] /\ authing'[u] = authing[u]
    BY <1>0, <2>0 DEF TypeOK, Sender, Receiver
  <2>4. up' = up /\ row' = row /\ job' = job
    BY <2>0
  <2>5. ASSUME NEW u \in Transfers PROVE CustodyInv(u)'
    BY <2>3, <2>4 DEF InductiveInv, CustodyInv, Devices
  <2> QED
    BY <2>1, <2>2, <2>5, ConsentFrame, ApprovalFrame, NegotiationFrame, CompletionFrame,
       KnownFrame, JobFrame DEF InductiveInv
<1>27. CASE ReceiveComplete(t)
  <2> DEFINE r == row[Receiver][t]
  <2>0. net' \subseteq net \cup {CompletionMsg(t)}
    BY <1>27 DEF ReceiveComplete, CallCompletion
  <2>1. NoAcceptance /\ NoDelivery /\ NegotiationAdvances /\ NoJobStarts /\ NoSecretLost
    BY <1>27, <2>0 DEF ReceiveComplete, RunStep, NoAcceptance, NoDelivery, AuthMsg,
       CompletionMsg, Msg, NegotiationAdvances, NoJobStarts, NoSecretLost
  <2>2. CASE r.state # "transferring"
    <3>1. RowsAge
      BY <1>0, <1>27, <2>2, AgingOps, SetRowAges DEF ReceiveComplete, CompleteReceiver
    <3>2. NoClaim
      BY <1>27, <2>2 DEF ReceiveComplete, NoClaim
    <3> QED
      BY <2>1, <3>1, <3>2, CalmStep
  <2>3. CASE r.state = "transferring"
    <3>1. /\ row'[Receiver][t].state = "completed" /\ row'[Receiver][t].handle = r.handle
          /\ row'[Receiver][t].intent = r.intent
          /\ \A u \in Transfers \ {t} : row'[Receiver][u] = row[Receiver][u]
          /\ row'[Sender] = row[Sender]
      BY <1>0, <1>27, <2>3 DEF ReceiveComplete, SetRow, CompleteReceiver, TypeOK, Records,
         Sender, Receiver
    <3>2. \A u \in Transfers \ {t} : CompletionMsg(u) \in net' => CompletionMsg(u) \in net
      BY <2>0 DEF CompletionMsg, Msg
    <3>3. ASSUME NEW u \in Transfers PROVE ConsentInv(u)' /\ ApprovalInv(u)' /\ CompletionInv(u)'
      BY <2>1, <2>3, <3>1, <3>2 DEF InductiveInv, ConsentInv, ApprovalInv, CompletionInv,
         SenderState, ReceiverState, NoAcceptance, NoDelivery
    <3>4. ASSUME NEW u \in Transfers PROVE NegotiationInv(u)'
      BY <1>27, <3>1 DEF ReceiveComplete, RunStep, InductiveInv, NegotiationInv, SenderState
    <3>5. ASSUME NEW d \in Devices, NEW u \in Transfers
          PROVE  /\ Known(d, u) => Known(d, u)'
                 /\ Dead(d, u) => Dead(d, u)'
      BY <1>27, <3>1 DEF ReceiveComplete, RunStep, Known, Dead, Devices, Preapproval, Resumable
    <3>6. ASSUME NEW u \in Transfers PROVE CustodyInv(u)'
      BY <1>27, <3>1 DEF ReceiveComplete, RunStep, InductiveInv, CustodyInv, Devices, Resumable
    <3> QED
      BY <2>1, <3>3, <3>4, <3>5, <3>6, JobFrame DEF InductiveInv
  <2> QED
    BY <2>2, <2>3
<1>28. CASE RetryCompletion(t)
  <2> USE DEF RetryCompletion, RetryStep
  <2>1. RowsAge
    BY <1>28, SameRowsAge
  <2>2. NoAcceptance /\ NoDelivery /\ NegotiationAdvances /\ NoJobStarts /\ NoSecretLost
    BY <1>28 DEF CallCompletion, StaleReplies, NoAcceptance, NoDelivery, AuthMsg, CompletionMsg,
       Msg, NegotiationAdvances, NoJobStarts, NoSecretLost
  <2>3. ASSUME NEW u \in Transfers PROVE CompletionInv(u)'
    BY <1>28 DEF CallCompletion, StaleReplies, InductiveInv, CompletionInv, SenderState,
       ReceiverState, CompletionMsg, Msg
  <2> QED
    BY <2>1, <2>2, <2>3, ConsentFrame, ApprovalFrame, NegotiationFrame, KnownFrame, JobFrame,
       HandlesFrame, CustodyFrame DEF InductiveInv
<1> QED
  BY <1>1, <1>2, <1>3, <1>4, <1>5, <1>6, <1>7, <1>8, <1>9, <1>10, <1>11, <1>12, <1>13, <1>14,
     <1>15, <1>16, <1>17, <1>18, <1>19, <1>20, <1>21, <1>22, <1>23, <1>24, <1>25, <1>26, <1>27, <1>28 DEF ReceiverStep

\* A finished stop sends cancellations only.
LEMMA NoticesAreCancellations ==
    ASSUME NEW d, NEW t, NEW j
    PROVE  \A m \in Notices(d, t, j) : m.kind = "cancel"
BY DEF Notices, Msg

\* Messages of different kinds differ.
LEMMA MessageKinds ==
    ASSUME NEW u
    PROVE  /\ AuthMsg(u).kind = "authorization"
           /\ CompletionMsg(u).kind = "completion"
           /\ Msg("offer_reply", Sender, u, "accepted").kind = "offer_reply"
BY DEF AuthMsg, CompletionMsg, Msg

\* Every stop, cancel, delete and cleanup step keeps the inductive invariant.
LEMMA DeviceInductive ==
    ASSUME TypeOK, TypeOK', InductiveInv, NEW t \in Transfers, NEW d \in Devices, DeviceStep(d, t)
    PROVE  InductiveInv'
<1> USE DEF deviceVars, senderVars, inboxVars, receiverVars
<1>0. /\ Sender \in Devices /\ Receiver \in Devices /\ row[d][t] \in Records
      /\ \A w \in Workers : job[d][t][w] \in Jobs /\ JobInv(d, t, w)
      /\ "local" \in Workers /\ "wire" \in Workers /\ "forget" \in Workers
  BY DEF Devices, TypeOK, InductiveInv, Workers
<1>1. CASE \E c \in {"cancel", "delete"} : TerminateUnknown(d, t, c)
  <2>1. RowsAge
    BY <1>0, <1>1, AgingOps, SetRowAges DEF TerminateUnknown, CommandStart, DiscardAt, Discard
  <2>2. NoAcceptance /\ NoDelivery /\ NoClaim
    BY <1>1 DEF TerminateUnknown, CommandStart, DiscardAt, Discard, NoAcceptance, NoDelivery, NoClaim, Msg, AuthMsg, CompletionMsg, TypeOK
  <2>3. NegotiationAdvances /\ NoJobStarts /\ NoSecretLost
    BY <1>1 DEF TerminateUnknown, CommandStart, DiscardAt, Discard, NegotiationAdvances, NoJobStarts, NoSecretLost, TypeOK
  <2> QED
    BY <2>1, <2>2, <2>3, CalmStep
<1>2. CASE \E c \in {"cancel", "delete"} : TerminateAgain(d, t, c)
  <2>1. RowsAge
    BY <1>2, SameRowsAge DEF TerminateAgain, CommandStart, DiscardAt, Discard
  <2>2. NoAcceptance /\ NoDelivery /\ NoClaim
    BY <1>2 DEF TerminateAgain, CommandStart, DiscardAt, Discard, NoAcceptance, NoDelivery, NoClaim, Msg, AuthMsg, CompletionMsg, TypeOK
  <2>3. NegotiationAdvances /\ NoJobStarts /\ NoSecretLost
    BY <1>2 DEF TerminateAgain, CommandStart, DiscardAt, Discard, NegotiationAdvances, NoJobStarts, NoSecretLost, TypeOK
  <2> QED
    BY <2>1, <2>2, <2>3, CalmStep
<1>3. CASE CancelNothing(d, t)
  <2>1. RowsAge
    BY <1>3, SameRowsAge DEF CancelNothing, CancelArrives
  <2>2. NoAcceptance /\ NoDelivery /\ NoClaim
    BY <1>3 DEF CancelNothing, CancelArrives, NoAcceptance, NoDelivery, NoClaim, Msg, AuthMsg, CompletionMsg, TypeOK
  <2>3. NegotiationAdvances /\ NoJobStarts /\ NoSecretLost
    BY <1>3 DEF CancelNothing, CancelArrives, NegotiationAdvances, NoJobStarts, NoSecretLost, TypeOK
  <2> QED
    BY <2>1, <2>2, <2>3, CalmStep
<1>4. CASE \E c \in {"cancel", "delete"} : TerminateStart(d, t, c)
  <2>0. PICK c \in {"cancel", "delete"} : TerminateStart(d, t, c)
    BY <1>4
  <2> USE DEF TerminateStart, CommandStart
  <2>1. RowsAge
    BY <2>0, SameRowsAge
  <2>2. NoAcceptance /\ NoDelivery /\ NoClaim /\ NegotiationAdvances /\ NoSecretLost
    BY <2>0 DEF NoAcceptance, NoDelivery, NoClaim, NegotiationAdvances, NoSecretLost
  <2>3. /\ \A e \in Devices, u \in Transfers, v \in Workers : JobInv(e, u, v)'
        /\ HandlesApart'
    BY <1>0, <2>0, StopStarts
  <2> QED
    BY <2>1, <2>2, <2>3, ConsentFrame, ApprovalFrame, NegotiationFrame, CompletionFrame,
       CustodyFrame DEF InductiveInv
<1>5. CASE \E arg \in {"cancelled", "deleted"} : CancelFromPeer(d, t, arg)
  <2> USE DEF CancelFromPeer, CancelArrives
  <2>1. RowsAge
    BY <1>5, SameRowsAge
  <2>2. NoAcceptance /\ NoDelivery /\ NoClaim /\ NegotiationAdvances /\ NoSecretLost
    BY <1>5 DEF NoAcceptance, NoDelivery, NoClaim, NegotiationAdvances, NoSecretLost
  <2>3. /\ \A e \in Devices, u \in Transfers, v \in Workers : JobInv(e, u, v)'
        /\ HandlesApart'
    BY <1>0, <1>5, StopStarts
  <2> QED
    BY <2>1, <2>2, <2>3, ConsentFrame, ApprovalFrame, NegotiationFrame, CompletionFrame,
       CustodyFrame DEF InductiveInv
<1>6. CASE Deny(d, t)
  <2> DEFINE r == row[d][t]
             j == job[d][t]["local"]
             to == Target(j.kind)
             already == j.kind # "stop" /\ j.state = to
             k == [j EXCEPT !.step = "cleanup", !.changed = ~already /\ DeniedBy(r, to)]
  <2>0. to \in {"cancelled", "deleted"}
    BY DEF Target
  <2>1. RowsAge
    BY <1>0, <1>6, <2>0, AgingOps, SetRowAges DEF Deny
  <2>2. NoAcceptance /\ NoDelivery /\ NoClaim /\ NegotiationAdvances /\ NoSecretLost
    BY <1>6 DEF Deny, DiscardAt, Discard, NoAcceptance, NoDelivery, NoClaim, NegotiationAdvances,
       NoSecretLost
  <2>3. /\ \A e \in Devices, u \in Transfers, v \in Workers : JobInv(e, u, v)'
        /\ HandlesApart'
    <3>1. j \in Jobs /\ j.step = "deny" /\ JobInv(d, t, "local")
      BY <1>0, <1>6 DEF Deny
    <3>2. (~already /\ DeniedBy(r, to)) \in BOOLEAN
      OBVIOUS
    <3>3. k \in Jobs
      BY <3>1, <3>2, JobTypes
    <3>4. k.step = "cleanup" /\ k.state = j.state /\ k.handle = j.handle
      BY <3>1 DEF Jobs
    <3>5. SetJob(d, t, "local", k) /\ UNCHANGED authing
      BY <1>6 DEF Deny
    <3>6. j.state # "absent" /\ Known(d, t) /\ Known(d, t)'
      BY <3>1, <2>1, <2>2, KnownFrame DEF JobInv
    <3>7. Dead(d, t)'
      <4>1. CASE already
        BY <2>0, <2>1, <2>2, <3>1, <4>1, KnownFrame DEF JobInv, Terminal
      <4>2. CASE ~already
        <5>1. row'[d][t] = TransitionTerminal(r, to, TRUE)
          BY <1>6, <4>2 DEF Deny, SetRow, TypeOK
        <5>2. row'[d][t].state \notin Preapproval \cup Resumable
          BY <1>0, <2>0, <5>1
             DEF TransitionTerminal, DeniedBy, Records, Preapproval, Resumable
        <5> QED
          BY <3>6, <5>2 DEF Dead
      <4> QED
        BY <4>1, <4>2
    <3>8. d = Receiver => j.handle \notin authing[t]
      BY <1>0 DEF InductiveInv, CustodyInv
    <3> HIDE DEF k, j, r
    <3> QED
      BY <1>0, <2>1, <2>2, <3>3, <3>4, <3>5, <3>6, <3>7, <3>8, JobMoves
  <2> QED
    BY <2>1, <2>2, <2>3, ConsentFrame, ApprovalFrame, NegotiationFrame, CompletionFrame,
       CustodyFrame DEF InductiveInv
<1>7. CASE DenyFromPeer(d, t)
  <2> DEFINE r == row[d][t]
             j == job[d][t]["wire"]
             live == j.state \in Preapproval \cup Resumable
  <2>1. RowsAge
    BY <1>0, <1>7, AgingOps, SetRowAges DEF DenyFromPeer
  <2>2. NoAcceptance /\ NoDelivery /\ NoClaim /\ NegotiationAdvances /\ NoSecretLost
    BY <1>7 DEF DenyFromPeer, NoAcceptance, NoDelivery, NoClaim, NegotiationAdvances, NoSecretLost
  <2>3. /\ \A e \in Devices, u \in Transfers, v \in Workers : JobInv(e, u, v)'
        /\ HandlesApart'
    <3>1. j \in Jobs /\ j.step = "deny" /\ JobInv(d, t, "wire")
      BY <1>0, <1>7 DEF DenyFromPeer
    <3>2. CASE ~((live /\ DeniedBy(r, "cancelled")) \/ j.state = "cancelled")
      <4>1. SetJob(d, t, "wire", NoJob)
        BY <1>7, <3>2 DEF DenyFromPeer
      <4>2. NoJobStarts
        BY <1>0, <4>1 DEF SetJob, NoJobStarts, TypeOK
      <4> QED
        BY <2>1, <2>2, <4>2, KnownFrame, JobFrame, HandlesFrame
    <3>3. CASE (live /\ DeniedBy(r, "cancelled")) \/ j.state = "cancelled"
      <4> DEFINE k == [j EXCEPT !.step = "cleanup"]
      <4>1. SetJob(d, t, "wire", k) /\ UNCHANGED authing
        BY <1>7, <3>3 DEF DenyFromPeer
      <4>2. k \in Jobs
        BY <3>1, JobTypes
      <4>3. k.step = "cleanup" /\ k.state = j.state /\ k.handle = j.handle
        BY <3>1 DEF Jobs
      <4>4. j.state # "absent" /\ Known(d, t)'
        BY <2>1, <2>2, <3>1, <3>3, KnownFrame DEF JobInv, Preapproval, Resumable
      <4>5. Dead(d, t)'
        <5>1. CASE j.state = "cancelled"
          BY <2>1, <2>2, <3>1, <5>1, KnownFrame DEF JobInv, Terminal
        <5>2. CASE live /\ DeniedBy(r, "cancelled")
          <6>1. row'[d][t] = TransitionTerminal(r, "cancelled", FALSE)
            BY <1>7, <5>2 DEF DenyFromPeer, SetRow, TypeOK, Preapproval, Resumable
          <6>2. row'[d][t].state \notin Preapproval \cup Resumable
            BY <1>0, <5>2, <6>1 DEF TransitionTerminal, Records, Preapproval, Resumable
          <6> QED
            BY <4>4, <6>2 DEF Dead
        <5> QED
          BY <3>3, <5>1, <5>2
      <4>6. d = Receiver => j.handle \notin authing[t]
        BY <1>0 DEF InductiveInv, CustodyInv
      <4> HIDE DEF k, j, r
      <4> QED
        BY <1>0, <2>1, <2>2, <4>1, <4>2, <4>3, <4>4, <4>5, <4>6, JobMoves
    <3> QED
      BY <3>2, <3>3
  <2> QED
    BY <2>1, <2>2, <2>3, ConsentFrame, ApprovalFrame, NegotiationFrame, CompletionFrame,
       CustodyFrame DEF InductiveInv
<1>8. CASE \E w \in Workers : Cleanup(d, t, w)
  <2>0. PICK w \in Workers : Cleanup(d, t, w)
    BY <1>8
  <2> DEFINE j == job[d][t][w]
  <2>1. RowsAge
    BY <2>0, SameRowsAge DEF Cleanup
  <2>2. NoAcceptance /\ NoDelivery /\ NoClaim /\ NegotiationAdvances
    <3>1. \A m \in net' \ net : m.kind = "cancel"
      BY <2>0, NoticesAreCancellations DEF Cleanup, FinishJob
    <3>2. \A u \in Transfers :
             /\ AuthMsg(u) \in net' => AuthMsg(u) \in net
             /\ CompletionMsg(u) \in net' => CompletionMsg(u) \in net
             /\ Msg("offer_reply", Sender, u, "accepted") \in net' =>
                   Msg("offer_reply", Sender, u, "accepted") \in net
      BY <3>1, MessageKinds
    <3> QED
      BY <2>0, <3>2 DEF Cleanup, NoAcceptance, NoDelivery, NoClaim, NegotiationAdvances
  <2>3. j \in Jobs /\ j.step = "cleanup" /\ JobInv(d, t, w) /\ Dead(d, t) /\ Known(d, t)
    BY <1>0, <2>0 DEF Cleanup, JobInv, Dead
  <2>4. d = Receiver => j.handle \notin authing[t]
    BY <1>0 DEF InductiveInv, CustodyInv
  <2>5. /\ \A e \in Devices, u \in Transfers, v \in Workers : JobInv(e, u, v)'
        /\ HandlesApart'
    <3>1. CASE j.handle = None
      <4>0. SetJob(d, t, w, NoJob)
        BY <2>0, <3>1 DEF Cleanup, FinishJob
      <4>1. NoJobStarts
        BY <1>0, <4>0 DEF SetJob, NoJobStarts, TypeOK
      <4> QED
        BY <2>1, <2>2, <4>1, KnownFrame, JobFrame, HandlesFrame
    <3>2. CASE j.handle # None
      <4> DEFINE k == [j EXCEPT !.step = "clear"]
      <4>1. SetJob(d, t, w, k) /\ UNCHANGED authing
        BY <2>0, <3>2 DEF Cleanup
      <4>2. k \in Jobs
        BY <2>3, JobTypes
      <4>3. k.step = "clear" /\ k.state = j.state /\ k.handle = j.handle
        BY <2>3 DEF Jobs
      <4>4. Dead(d, t)' /\ Known(d, t)'
        BY <2>1, <2>2, <2>3, KnownFrame
      <4>5. j.state # "absent"
        BY <2>3, <3>2 DEF JobInv
      <4> HIDE DEF k, j
      <4> QED
        BY <1>0, <2>1, <2>2, <2>4, <4>1, <4>2, <4>3, <4>4, <4>5, JobMoves
    <3> QED
      BY <3>1, <3>2
  <2>6. ASSUME NEW u \in Transfers PROVE CustodyInv(u)'
    <3>1. \A e \in Devices, v \in Transfers :
             secrets'[e][v] = IF e = d /\ v = t THEN secrets[d][t] \ {j.handle} ELSE secrets[e][v]
      BY <2>0 DEF Cleanup, TypeOK
    <3>2. row' = row /\ authing' = authing /\ up' = up
      BY <2>0 DEF Cleanup
    <3>3. row[d][t].state \notin Resumable
      BY <2>3 DEF Dead
    <3>4. ASSUME NEW e \in Devices
          PROVE  row'[e][u].state \in Resumable => row'[e][u].handle \in secrets'[e][u]
      BY <3>1, <3>2, <3>3 DEF InductiveInv, CustodyInv
    <3>5. authing'[u] \subseteq secrets'[Receiver][u]
      BY <1>0, <2>4, <3>1, <3>2 DEF InductiveInv, CustodyInv
    <3> QED
      BY <2>5, <3>2, <3>4, <3>5 DEF InductiveInv, CustodyInv, HandlesApart
  <2> QED
    BY <2>1, <2>2, <2>5, <2>6, ConsentFrame, ApprovalFrame, NegotiationFrame, CompletionFrame
       DEF InductiveInv
<1>9. CASE \E w \in Workers : CleanupClear(d, t, w)
  <2>0. PICK w \in Workers : CleanupClear(d, t, w)
    BY <1>9
  <2>1. RowsAge
    <3>1. row[d][t].state \notin Resumable
      BY <1>0, <2>0 DEF CleanupClear, JobInv, Dead
    <3> QED
      BY <1>0, <2>0, <3>1, AgingOps, SetRowAges DEF CleanupClear
  <2>2. NoAcceptance /\ NoDelivery /\ NoClaim
    <3>1. \A m \in net' \ net : m.kind = "cancel"
      BY <2>0, NoticesAreCancellations DEF CleanupClear, FinishJob
    <3>2. \A u \in Transfers :
             /\ AuthMsg(u) \in net' => AuthMsg(u) \in net
             /\ CompletionMsg(u) \in net' => CompletionMsg(u) \in net
             /\ Msg("offer_reply", Sender, u, "accepted") \in net' =>
                   Msg("offer_reply", Sender, u, "accepted") \in net
      BY <3>1, MessageKinds
    <3> QED
      BY <2>0, <3>2 DEF CleanupClear, NoAcceptance, NoDelivery, NoClaim
  <2>3. NegotiationAdvances /\ NoJobStarts /\ NoSecretLost
    BY <1>0, <2>0 DEF CleanupClear, FinishJob, SetJob, NegotiationAdvances, NoJobStarts,
       NoSecretLost, TypeOK
  <2> QED
    BY <2>1, <2>2, <2>3, CalmStep
<1> QED
  BY <1>1, <1>2, <1>3, <1>4, <1>5, <1>6, <1>7, <1>8, <1>9 DEF DeviceStep


\* Startup recovery (recover_in_flight and the sweeps) ages a record.
LEMMA RecoveredAges ==
    ASSUME NEW d, NEW r \in Records
    PROVE  Ages(d, r, Recovered(d, r))
BY DEF Recovered, RecoverInFlight, CancelByPeer, ClearAuthorization, DeniedBy, Ages, Live,
       PostApproval, Preapproval, Resumable, Records

\* Forget, crash, startup, access restoration and message loss keep the
\* inductive invariant.
LEMMA RuntimeInductive ==
    ASSUME TypeOK, TypeOK', InductiveInv,
           \/ \E t \in Transfers : RestoreAccess(t) \/ RestoreFails(t)
           \/ \E d \in Devices : Forget(d) \/ ForgetDeny(d) \/ Boot(d) \/ Recover(d)
           \/ CrashSender \/ CrashReceiver \/ Online
           \/ \E m \in net : Lose(m)
    PROVE  InductiveInv'
<1> USE DEF deviceVars, senderVars, inboxVars, receiverVars
<1>0. Sender \in Devices /\ Receiver \in Devices /\ Sender # Receiver
  BY DEF Devices, Sender, Receiver
<1>1. CASE \E t \in Transfers : RestoreAccess(t)
  BY <1>1, SameRowsAge, CalmStep DEF RestoreAccess, NoAcceptance, NoDelivery, NoClaim,
     NegotiationAdvances, NoJobStarts, NoSecretLost
<1>2. ASSUME NEW t \in Transfers, RestoreFails(t) PROVE InductiveInv'
  <2>0. row[Sender][t] \in Records
    BY <1>0 DEF TypeOK
  <2>1. RowsAge
    BY <1>0, <1>2, <2>0, AgingOps, SetRowAges DEF RestoreFails
  <2> QED
    BY <1>2, <2>1, CalmStep DEF RestoreFails, NoAcceptance, NoDelivery, NoClaim,
       NegotiationAdvances, NoJobStarts, NoSecretLost
<1>3. ASSUME NEW d \in Devices, Forget(d) PROVE InductiveInv'
  <2>1. RowsAge
    BY <1>3, SameRowsAge DEF Forget
  <2>2. NoAcceptance /\ NoDelivery /\ NoClaim /\ NegotiationAdvances /\ NoSecretLost
    BY <1>3 DEF Forget, DiscardAt, Discard, NoAcceptance, NoDelivery, NoClaim,
       NegotiationAdvances, NoSecretLost
  <2>3. \A e \in Devices, u \in Transfers, w \in Workers :
           job'[e][u][w] = IF e = d /\ w = "forget" THEN Snapshot("forget", "deny", d, u)
                           ELSE job[e][u][w]
    BY <1>3 DEF Forget, TypeOK
  <2>4. row' = row /\ neg' = neg /\ authing' = authing
    BY <1>3 DEF Forget
  <2>5. ASSUME NEW e \in Devices, NEW u \in Transfers, NEW w \in Workers
        PROVE  JobInv(e, u, w)'
    <3>1. CASE e = d /\ w = "forget"
      <4> DEFINE j == job'[e][u][w]
      <4>0. j = Snapshot("forget", "deny", d, u)
        BY <2>3, <3>1
      <4>1. j.step = "deny" /\ j.state = row[d][u].state /\ j.handle = row[d][u].handle
        BY <4>0 DEF Snapshot
      <4>2. row[d][u].handle # None => row[d][u].state # "absent"
        BY DEF InductiveInv, CustodyInv
      <4>3. /\ row[d][u].state # "absent" => Known(d, u)'
            /\ row[d][u].state \in Terminal => Dead(d, u)'
        BY <2>4 DEF Known, Dead, Terminal, Preapproval, Resumable
      <4> QED
        BY <3>1, <4>1, <4>2, <4>3 DEF JobInv
    <3>2. CASE ~(e = d /\ w = "forget")
      BY <2>3, <2>4, <3>2 DEF InductiveInv, JobInv, Known, Dead
    <3> QED
      BY <3>1, <3>2
  <2>6. HandlesApart'
    <3> SUFFICES ASSUME NEW u \in Transfers, NEW w \in Workers
                 PROVE  job'[Receiver][u][w].handle \notin authing'[u]
      BY DEF HandlesApart
    <3>1. /\ row[Receiver][u].handle \notin authing[u]
          /\ job[Receiver][u][w].handle \notin authing[u]
      BY DEF InductiveInv, CustodyInv
    <3>2. CASE Receiver = d /\ w = "forget"
      <4>1. job'[Receiver][u][w] = Snapshot("forget", "deny", d, u)
        BY <1>0, <2>3, <3>2
      <4>2. job'[Receiver][u][w].handle = row[Receiver][u].handle
        BY <3>2, <4>1 DEF Snapshot
      <4> QED
        BY <2>4, <3>1, <4>2
    <3>3. CASE ~(Receiver = d /\ w = "forget")
      BY <1>0, <2>3, <2>4, <3>1, <3>3
    <3> QED
      BY <3>2, <3>3
  <2> QED
    BY <2>1, <2>2, <2>5, <2>6, ConsentFrame, ApprovalFrame, NegotiationFrame, CompletionFrame,
       CustodyFrame DEF InductiveInv
<1>4. ASSUME NEW d \in Devices, ForgetDeny(d) PROVE InductiveInv'
  <2>1. \A e \in Devices, u \in Transfers :
           row'[e][u] = IF e = d THEN CancelByPeer(row[d][u]) ELSE row[e][u]
    BY <1>4 DEF ForgetDeny, TypeOK
  <2>2. \A e \in Devices, u \in Transfers : row[e][u] \in Records
    BY DEF TypeOK
  <2>3. RowsAge
    <3> SUFFICES ASSUME NEW e \in Devices, NEW u \in Transfers
                 PROVE  Ages(e, row[e][u], row'[e][u])
      BY DEF RowsAge
    <3>1. Ages(e, row[e][u], row[e][u]) /\ Ages(e, row[e][u], CancelByPeer(row[e][u]))
      BY <2>2, AgingOps
    <3> QED
      BY <2>1, <3>1
  <2>4. NoAcceptance /\ NoDelivery /\ NoClaim /\ NegotiationAdvances /\ NoSecretLost
    BY <1>4 DEF ForgetDeny, NoAcceptance, NoDelivery, NoClaim, NegotiationAdvances, NoSecretLost
  <2>5. \A e \in Devices, u \in Transfers, w \in Workers :
           job'[e][u][w] = IF e = d /\ w = "forget" THEN ForgottenJob(job[d][u]["forget"])
                           ELSE job[e][u][w]
    BY <1>4 DEF ForgetDeny, TypeOK
  <2>6. ASSUME NEW e \in Devices, NEW u \in Transfers, NEW w \in Workers
        PROVE  JobInv(e, u, w)' /\ (job'[e][u][w].handle = job[e][u][w].handle
                                    \/ job'[e][u][w].handle = None)
    <3>1. /\ Known(e, u) => Known(e, u)'
          /\ Dead(e, u) => Dead(e, u)'
      BY <2>3, <2>4, KnownFrame
    <3>2. JobInv(e, u, w) /\ job[e][u][w] \in Jobs
      BY DEF InductiveInv, TypeOK
    <3>3. CASE e = d /\ w = "forget"
      <4> DEFINE i == job[e][u][w]
                 j == job'[e][u][w]
      <4>0. j = ForgottenJob(i)
        BY <2>5, <3>3
      <4>1. CASE i.state = "absent"
        BY <3>3, <4>0, <4>1 DEF ForgottenJob, NoJob, JobInv, Terminal
      <4>2. CASE i.state # "absent"
        <5>1. j.step = "cleanup" /\ j.state = i.state /\ j.handle = i.handle
          BY <3>2, <4>0, <4>2 DEF ForgottenJob, Jobs
        <5>2. Known(e, u)'
          BY <3>1, <3>2, <4>2 DEF JobInv
        <5>3. row'[e][u].state \notin Preapproval \cup Resumable
          <6>1. row'[e][u] = CancelByPeer(row[e][u])
            BY <2>1, <3>3
          <6> QED
            BY <2>2, <6>1 DEF CancelByPeer, DeniedBy, Records, Preapproval, Resumable
        <5>4. Dead(e, u)'
          BY <5>2, <5>3 DEF Dead
        <5> HIDE DEF i, j
        <5>5. j = job'[e][u][w] /\ i = job[e][u][w]
          BY DEF i, j
        <5> QED
          BY <3>3, <4>2, <5>1, <5>2, <5>4, <5>5 DEF JobInv
      <4> QED
        BY <4>1, <4>2
    <3>4. CASE ~(e = d /\ w = "forget")
      BY <2>5, <3>1, <3>2, <3>4 DEF JobInv
    <3> QED
      BY <3>3, <3>4
  <2>7. HandlesApart'
    <3>1. authing' = authing /\ \A u \in Transfers : authing[u] \subseteq Handles
      BY <1>4 DEF ForgetDeny, TypeOK
    <3> QED
      BY <1>0, <2>6, <3>1, NoneIsNoHandle DEF HandlesApart, InductiveInv, CustodyInv
  <2> QED
    BY <2>3, <2>4, <2>6, <2>7, ConsentFrame, ApprovalFrame, NegotiationFrame, CompletionFrame,
       CustodyFrame DEF InductiveInv
<1>5. ASSUME NEW d \in Devices, Boot(d) PROVE InductiveInv'
  <2>1. RowsAge
    BY <1>5, SameRowsAge DEF Boot
  <2>2. NoAcceptance /\ NoDelivery /\ NoClaim /\ NegotiationAdvances /\ NoJobStarts
    BY <1>5 DEF Boot, NoAcceptance, NoDelivery, NoClaim, NegotiationAdvances, NoJobStarts
  <2>3. ASSUME NEW u \in Transfers PROVE CustodyInv(u)'
    <3>1. \A e \in Devices :
             secrets'[e][u] = IF e = d THEN secrets[d][u] \cap {row[d][u].handle} ELSE secrets[e][u]
      BY <1>5 DEF Boot, TypeOK
    <3>2. /\ row' = row /\ job' = job /\ authing' = authing
          /\ up[d] = "down" /\ up'[d] # "down" /\ \A e \in Devices \ {d} : up'[e] = up[e]
      BY <1>5 DEF Boot, TypeOK
    <3> QED
      BY <1>0, <3>1, <3>2 DEF InductiveInv, CustodyInv
  <2> QED
    BY <2>1, <2>2, <2>3, ConsentFrame, ApprovalFrame, NegotiationFrame, CompletionFrame,
       KnownFrame, JobFrame DEF InductiveInv
<1>6. ASSUME NEW d \in Devices, Recover(d) PROVE InductiveInv'
  <2>1. \A e \in Devices, u \in Transfers :
           row'[e][u] = IF e = d THEN Recovered(d, row[d][u]) ELSE row[e][u]
    BY <1>6 DEF Recover, TypeOK
  <2>2. RowsAge
    <3>1. \A e \in Devices, u \in Transfers : row[e][u] \in Records
      BY DEF TypeOK
    <3> SUFFICES ASSUME NEW e \in Devices, NEW u \in Transfers
                 PROVE  Ages(e, row[e][u], row'[e][u])
      BY DEF RowsAge
    <3>2. Ages(e, row[e][u], row[e][u]) /\ Ages(e, row[e][u], Recovered(e, row[e][u]))
      BY <3>1, AgingOps, RecoveredAges
    <3> QED
      BY <2>1, <3>2
  <2>3. NoAcceptance /\ NoDelivery /\ NoClaim /\ NegotiationAdvances /\ NoJobStarts
    BY <1>6 DEF Recover, NoAcceptance, NoDelivery, NoClaim, NegotiationAdvances, NoJobStarts
  <2>4. ASSUME NEW u \in Transfers PROVE CustodyInv(u)'
    <3>1. \A e \in Devices :
             secrets'[e][u] = IF e = d
                              THEN secrets[d][u] \ ({row[d][u].handle} \ {row'[d][u].handle})
                              ELSE secrets[e][u]
      BY <1>6, <2>1 DEF Recover, TypeOK
    <3>2. authing' = authing /\ up[d] # "down" /\ \A e \in Devices : up'[e] = "down" => up[e] = "down"
      BY <1>6 DEF Recover, TypeOK
    <3>3. HandlesApart'
      BY <2>3, HandlesFrame
    <3>4. ASSUME NEW e \in Devices
          PROVE  /\ row'[e][u].state = "absent" => row'[e][u].handle = None
                 /\ row'[e][u].state \in Resumable => row'[e][u].handle \in secrets'[e][u]
      BY <2>2, <3>1 DEF InductiveInv, CustodyInv, RowsAge, Ages
    <3>5. authing'[u] \subseteq secrets'[Receiver][u]
      BY <1>0, <3>1, <3>2 DEF InductiveInv, CustodyInv
    <3>6. row'[Receiver][u].handle \notin authing'[u]
      <4>1. authing[u] \subseteq Handles
        BY DEF TypeOK
      <4> QED
        BY <1>0, <2>2, <3>2, <4>1, NoneIsNoHandle DEF InductiveInv, CustodyInv, RowsAge, Ages
    <3> QED
      BY <1>0, <3>2, <3>3, <3>4, <3>5, <3>6 DEF InductiveInv, CustodyInv, HandlesApart
  <2> QED
    BY <2>2, <2>3, <2>4, ConsentFrame, ApprovalFrame, NegotiationFrame, CompletionFrame,
       KnownFrame, JobFrame DEF InductiveInv
<1>7. CASE CrashSender
  <2> USE DEF CrashSender, Crash
  <2>1. RowsAge
    BY <1>7, SameRowsAge
  <2>2. NoAcceptance /\ NoDelivery /\ NoClaim /\ NegotiationAdvances
    BY <1>7 DEF NoAcceptance, NoDelivery, NoClaim, NegotiationAdvances
  <2>3. NoJobStarts /\ NoSecretLost
    BY <1>0, <1>7 DEF NoJobStarts, NoSecretLost, TypeOK
  <2> QED
    BY <2>1, <2>2, <2>3, CalmStep
<1>8. CASE CrashReceiver
  <2> USE DEF CrashReceiver, Crash
  <2>1. RowsAge
    BY <1>8, SameRowsAge
  <2>2. NoAcceptance /\ NoDelivery /\ NoClaim /\ NegotiationAdvances
    BY <1>8 DEF NoAcceptance, NoDelivery, NoClaim, NegotiationAdvances
  <2>3. NoJobStarts
    BY <1>0, <1>8 DEF NoJobStarts, TypeOK
  <2>4. ASSUME NEW u \in Transfers PROVE CustodyInv(u)'
    BY <1>8 DEF InductiveInv, CustodyInv
  <2> QED
    BY <2>1, <2>2, <2>3, <2>4, ConsentFrame, ApprovalFrame, NegotiationFrame, CompletionFrame,
       KnownFrame, JobFrame DEF InductiveInv
<1>9. CASE Online
  <2>1. NoAcceptance /\ NoDelivery /\ NoClaim /\ NegotiationAdvances /\ NoJobStarts
    BY <1>9 DEF Online, NoAcceptance, NoDelivery, NoClaim, NegotiationAdvances, NoJobStarts
  <2>2. NoSecretLost
    BY <1>0, <1>9 DEF Online, NoSecretLost, TypeOK
  <2> QED
    BY <1>9, <2>1, <2>2, SameRowsAge, CalmStep DEF Online
<1>10. CASE \E m \in net : Lose(m)
  <2>1. NoAcceptance /\ NoDelivery /\ NoClaim /\ NegotiationAdvances /\ NoJobStarts /\ NoSecretLost
    BY <1>10 DEF Lose, NoAcceptance, NoDelivery, NoClaim, NegotiationAdvances, NoJobStarts,
       NoSecretLost
  <2> QED
    BY <1>10, <2>1, SameRowsAge, CalmStep DEF Lose
<1> QED
  BY <1>1, <1>2, <1>3, <1>4, <1>5, <1>6, <1>7, <1>8, <1>9, <1>10

(***************************************************************************)
(* The invariant is inductive: whatever a message, a task or a stop in     *)
(* progress relied on when it set out still holds when it acts.            *)
(***************************************************************************)
THEOREM Inductive == Spec => [](TypeOK /\ InductiveInv)
<1>1. Init => TypeOK /\ InductiveInv
  <2>1. Init => TypeOK
    BY CrashesAssumption DEF Init, TypeOK, Records, NoRecord, RowStates, Jobs, NoJob, Phases,
       NegSteps, AskSteps, RespSteps, WaitSteps, RunSteps
  <2>2. Init => InductiveInv
    BY DEF Init, InductiveInv, ConsentInv, ApprovalInv, NegotiationInv, CompletionInv, JobInv,
       CustodyInv, Known, Dead, SenderState, ReceiverState, NoRecord, NoJob, Devices, Preapproval,
       Resumable, Terminal
  <2> QED
    BY <2>1, <2>2
<1>2. TypeOK /\ TypeOK' /\ InductiveInv /\ [Next]_vars => InductiveInv'
  <2> SUFFICES ASSUME TypeOK, TypeOK', InductiveInv, [Next]_vars PROVE InductiveInv'
    OBVIOUS
  <2>1. CASE UNCHANGED vars
    <3>1. RowsAge
      BY <2>1, SameRowsAge DEF vars, deviceVars
    <3> QED
      BY <2>1, <3>1, CalmStep DEF vars, deviceVars, senderVars, inboxVars, receiverVars,
         NoAcceptance, NoDelivery, NoClaim, NegotiationAdvances, NoJobStarts, NoSecretLost
  <2>2. CASE Next
    BY <2>2, SenderInductive, ReceiverInductive, DeviceInductive, RuntimeInductive DEF Next
  <2> QED
    BY <2>1, <2>2
<1> QED
  BY <1>1, <1>2, TypeCorrect, PTL DEF Spec

\* Authority needs consent: no row at the receiver and no approval at the sender
\* without the receiving user's acceptance, whatever is lost, replayed or crashes.
THEOREM ConsentSafety == Spec => []ConsentBeforeAuthority
<1>1. InductiveInv => ConsentBeforeAuthority
  BY DEF InductiveInv, ConsentInv, ConsentBeforeAuthority
<1> QED
  BY <1>1, Inductive, PTL

\* The receiver never holds an authorization the sender's record has abandoned,
\* declined or not reached: the stop/approval race has one winner.
THEOREM ApprovalSafety == Spec => []ReceiverFollowsApproval
<1>1. InductiveInv => ReceiverFollowsApproval
  BY DEF InductiveInv, ApprovalInv, ReceiverFollowsApproval, PostApproval
<1> QED
  BY <1>1, Inductive, PTL

\* A sender that shows completion tells the truth about the receiver.
THEOREM CompletionSafety == Spec => []CompletedTruthfully
<1>1. InductiveInv => CompletedTruthfully
  BY DEF InductiveInv, CompletionInv, CompletedTruthfully
<1> QED
  BY <1>1, Inductive, PTL

\* Every runnable transfer can load its authorization, although rollbacks,
\* cleanups and startup sweeps remove secrets concurrently.
THEOREM CustodySafety == Spec => []LiveAuthorizationUsable
<1>1. InductiveInv => LiveAuthorizationUsable
  BY DEF InductiveInv, CustodyInv, LiveAuthorizationUsable
<1> QED
  BY <1>1, Inductive, PTL
==============================================================================
