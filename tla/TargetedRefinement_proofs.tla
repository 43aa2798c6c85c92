---------------------- MODULE TargetedRefinement_proofs -----------------------
(***************************************************************************)
(* TargetedTransfer implements TargetedLifecycle: whatever is lost,        *)
(* delayed, stopped, forgotten or cut off by a crash, the states the two   *)
(* devices show change only as the lifecycle allows.                       *)
(***************************************************************************)
EXTENDS TargetedTransfer_proofs

-------------------------------------------------------------------------------
(* What the refinement needs beyond InductiveInv.                          *)

\* The steps before a transfer is registered, at which it shows as absent.
Early == {"idle", "imported"}

\* An offer is known to the receiver only once its sender has registered it.
OfferInv(t) ==
    OfferMsg(t) \in net \/ t \in pending \/ resp[t] # "idle" => neg[t] \notin Early

\* The sender's row is approved while it can run: only the receiver's row
\* follows the download.
SenderStates == RowStates \ {"connecting", "transferring", "interrupted"}

ShownInv ==
    \A t \in Transfers : OfferInv(t) /\ SenderState(t) \in SenderStates

-------------------------------------------------------------------------------
(* How the states shown may move.                                          *)

\* A row that stays as it is, or ends.
Closes(from, to) == to = from \/ Lifecycle!Ends(from, to)

\* The lifecycle's move of one transfer at the sending and at the receiving end.
SendingMove(t)   == Lifecycle!SendingMoves(t, SendingShown[t], SendingShown'[t])
ReceivingMove(t) == Lifecycle!ReceivingMoves(t, ReceivingShown[t], ReceivingShown'[t])

\* The store's denying, failing and clearing transactions leave a row in its
\* state or end it.
LEMMA ClosingOps ==
    ASSUME NEW r \in Records
    PROVE  /\ Closes(r.state, ClearIntent(r).state)
           /\ Closes(r.state, ClearAuthorization(r).state)
           /\ \A to \in {"cancelled", "deleted"}, clear \in BOOLEAN :
                 Closes(r.state, TransitionTerminal(r, to, clear).state)
           /\ Closes(r.state, CancelByPeer(r).state)
           /\ Closes(r.state, FailResumable(r).state)
           /\ Closes(r.state, SetStateFromAny(r, "failed").state)
           /\ \A from \in Preapproval : Closes(r.state, SetState(r, from, "failed").state)
<1> USE DEF Closes, Lifecycle!Ends, Lifecycle!BeforeApproval, Lifecycle!Runnable, Lifecycle!Ended,
            Records, RowStates, States, Preapproval, Resumable, Terminal
<1>1. Closes(r.state, ClearIntent(r).state) /\ Closes(r.state, ClearAuthorization(r).state)
  BY DEF ClearIntent, ClearAuthorization
<1>2. ASSUME NEW to \in {"cancelled", "deleted"}, NEW clear \in BOOLEAN
      PROVE  Closes(r.state, TransitionTerminal(r, to, clear).state)
  BY DEF TransitionTerminal, DeniedBy
<1>3. Closes(r.state, CancelByPeer(r).state)
  BY DEF CancelByPeer, DeniedBy
<1>4. Closes(r.state, FailResumable(r).state)
  BY DEF FailResumable
<1>5. Closes(r.state, SetStateFromAny(r, "failed").state)
  BY DEF SetStateFromAny, SetState, CanSetState, ValidateTransition, Validated
<1>6. ASSUME NEW from \in Preapproval
      PROVE  Closes(r.state, SetState(r, from, "failed").state)
  BY DEF SetState, CanSetState
<1> HIDE DEF Closes
<1> QED BY <1>1, <1>2, <1>3, <1>4, <1>5, <1>6

\* A transaction changes one row of one device.
LEMMA RowAt ==
    ASSUME TypeOK, NEW d \in Devices, NEW t \in Transfers, NEW r, SetRow(d, t, r)
    PROVE  /\ row'[d][t] = r
           /\ \A e \in Devices, u \in Transfers : e # d \/ u # t => row'[e][u] = row[e][u]
  BY DEF SetRow, TypeOK

\* How a step may move the sender's row and negotiation of one transfer.
SenderMoves(t) ==
    LET from == SenderState(t)  to == SenderState(t)' IN
    \/ Closes(from, to) /\ (neg'[t] \in Early <=> neg[t] \in Early)
    \/ from = "absent" /\ neg[t] \in Early /\ to = "preparing"
    \/ from = "absent" /\ neg[t] \in Early /\ to = "absent"
    \/ from = "preparing" /\ to = "offering"
    \/ from = "offering" /\ to = "awaiting_approval"
    \/ from = "awaiting_approval" /\ to = "declined"
    \/ from \in Preapproval /\ to = "absent" /\ neg'[t] \notin Early
    \/ from = "awaiting_approval" /\ to = "approved" /\ t \in consented
    \/ /\ from \in Resumable /\ to = "completed"
       /\ ReceiverState(t) \in {"completed", "deleted"}

\* These are moves of the lifecycle, and keep the row in the sender's states.
LEMMA ShownMoves ==
    ASSUME TypeOK, TypeOK', NEW t \in Transfers, SenderMoves(t)
    PROVE  /\ SendingMove(t)
           /\ SenderState(t) \in SenderStates => SenderState(t)' \in SenderStates
<1>1. SendingShown[t] = IF SenderState(t) = "absent" /\ neg[t] \notin Early
                        THEN "gone" ELSE SenderState(t)
  BY DEF SendingShown, Early
<1>2. SendingShown'[t] = IF SenderState(t)' = "absent" /\ neg'[t] \notin Early
                         THEN "gone" ELSE SenderState(t)'
  BY DEF SendingShown, Early
<1>3. ReceivingShown[t] = ReceiverState(t)
  BY DEF ReceivingShown
<1>4. SendingMove(t)
  BY <1>1, <1>2, <1>3
  DEF SenderMoves, SendingMove, Closes, Lifecycle!SendingMoves, Lifecycle!Ends,
      Lifecycle!BeforeApproval, Lifecycle!Runnable, Lifecycle!Ended, Preapproval, Resumable
<1>5. SenderState(t) \in SenderStates => SenderState(t)' \in SenderStates
  BY DEF SenderMoves, Closes, Lifecycle!Ends, SenderStates, RowStates, States, Preapproval,
         Resumable, Terminal
<1> QED BY <1>4, <1>5

\* What the two devices show after a step is a state of the lifecycle.
LEMMA ShownTypes ==
    ASSUME TypeOK'
    PROVE  SendingShown' \in [Transfers -> Lifecycle!Shown]
           /\ ReceivingShown' \in [Transfers -> Lifecycle!Shown]
<1>1. \A t \in Transfers : SenderState(t)' \in RowStates /\ ReceiverState(t)' \in RowStates
  BY DEF TypeOK, Records, SenderState, ReceiverState, Devices
<1>2. RowStates \cup {"gone"} \subseteq Lifecycle!Shown
  BY DEF Lifecycle!Shown, Lifecycle!BeforeApproval, Lifecycle!Runnable,
      Lifecycle!Ended, RowStates, States, Preapproval, Resumable, Terminal
<1> QED
  BY <1>1, <1>2 DEF SendingShown, ReceivingShown

\* The offers the receiver knows stay offers of registered transfers.
OffersKept ==
    \A u \in Transfers :
        /\ OfferMsg(u) \in net' \/ u \in pending' \/ resp'[u] # "idle" =>
              OfferMsg(u) \in net \/ u \in pending \/ resp[u] # "idle" \/ neg'[u] \notin Early
        /\ neg'[u] \in Early => neg[u] \in Early

\* A step of the sending end: the receiver's rows keep their states.
LEMMA SendingSteps ==
    ASSUME TypeOK, TypeOK', ShownInv, OffersKept, consented' = consented,
           \A u \in Transfers : row'[Receiver][u].state = row[Receiver][u].state,
           \A u \in Transfers : SenderMoves(u)
    PROVE  Lifecycle!Next /\ ShownInv'
<1>1. ReceivingShown' = ReceivingShown
  BY DEF ReceivingShown, ReceiverState
<1>2. \A u \in Transfers : SendingMove(u)
  BY ShownMoves
<1>3. \A u \in Transfers : Lifecycle!ReceivingMoves(u, ReceivingShown[u], ReceivingShown'[u])
  BY <1>1 DEF Lifecycle!ReceivingMoves
<1>4. consented' \subseteq Transfers
  BY DEF TypeOK
<1>5. Lifecycle!Next
  BY <1>1, <1>2, <1>3, <1>4, ShownTypes DEF SendingMove, Lifecycle!Next, Lifecycle!Accepts
<1>6. \A u \in Transfers : SenderState(u)' \in SenderStates
  BY ShownMoves DEF ShownInv
<1>7. \A u \in Transfers : OfferInv(u)'
  BY DEF ShownInv, OfferInv, OffersKept
<1> QED BY <1>5, <1>6, <1>7 DEF ShownInv

\* A step of the receiving end: the sender's rows and negotiations stay.
LEMMA ReceivingSteps ==
    ASSUME TypeOK, TypeOK', ShownInv, OffersKept, neg' = neg,
           \A u \in Transfers : row'[Sender][u].state = row[Sender][u].state,
           \A u \in Transfers : ReceivingMove(u),
           consented \subseteq consented',
           \A u \in consented' : u \in consented \/ SendingShown[u] # "absent"
    PROVE  Lifecycle!Next /\ ShownInv'
<1>1. SendingShown' = SendingShown
  BY DEF SendingShown, SenderState
<1>2. \A u \in Transfers : Lifecycle!SendingMoves(u, SendingShown[u], SendingShown'[u])
  BY <1>1 DEF Lifecycle!SendingMoves
<1>3. consented' \subseteq Transfers
  BY DEF TypeOK
<1>4. Lifecycle!Next
  BY <1>1, <1>2, <1>3, ShownTypes DEF ReceivingMove, Lifecycle!Next, Lifecycle!Accepts
<1>5. \A u \in Transfers : SenderState(u)' \in SenderStates
  BY DEF ShownInv, SenderState
<1>6. \A u \in Transfers : OfferInv(u)'
  BY DEF ShownInv, OfferInv, OffersKept
<1> QED BY <1>4, <1>5, <1>6 DEF ShownInv

\* A step that changes the state of no row.
LEMMA QuietSteps ==
    ASSUME TypeOK, TypeOK', ShownInv, OffersKept, consented' = consented,
           \A d \in Devices, u \in Transfers : row'[d][u].state = row[d][u].state,
           \A u \in Transfers : neg'[u] \in Early <=> neg[u] \in Early
    PROVE  Lifecycle!Next /\ ShownInv'
<1>1. \A u \in Transfers : SenderMoves(u)
  BY DEF SenderMoves, Closes, SenderState, Devices
<1> QED BY <1>1, SendingSteps DEF Devices

\* A step on the sender's row of one transfer.
LEMMA SendingStep ==
    ASSUME TypeOK, TypeOK', ShownInv, NEW t \in Transfers, NEW r, SetRow(Sender, t, r), OffersKept,
           \A u \in Transfers \ {t} : neg'[u] = neg[u], consented' = consented,
           r.state = SenderState(t)' => SenderMoves(t)
    PROVE  Lifecycle!Next /\ ShownInv'
<1>1. SenderState(t)' = r.state
  BY RowAt DEF SenderState, Devices
<1>2. \A u \in Transfers \ {t} : SenderMoves(u)
  BY RowAt DEF SenderMoves, Closes, SenderState, Devices
<1>3. \A u \in Transfers : row'[Receiver][u].state = row[Receiver][u].state
  BY RowAt DEF Devices, Sender, Receiver
<1> QED BY <1>1, <1>2, <1>3, SendingSteps

\* A step on the receiver's row of one transfer.
LEMMA ReceivingStep ==
    ASSUME TypeOK, TypeOK', ShownInv, NEW t \in Transfers, NEW r, SetRow(Receiver, t, r), OffersKept,
           neg' = neg, consented \subseteq consented',
           \A u \in consented' : u \in consented \/ SendingShown[u] # "absent",
           Lifecycle!ReceivingMoves(t, row[Receiver][t].state, r.state)
    PROVE  Lifecycle!Next /\ ShownInv'
<1>1. ReceivingShown[t] = row[Receiver][t].state /\ ReceivingShown'[t] = r.state
  BY RowAt DEF ReceivingShown, ReceiverState, Devices
<1>2. \A u \in Transfers \ {t} : ReceivingShown[u] = ReceivingShown'[u]
  BY RowAt DEF ReceivingShown, ReceiverState, Devices
<1>3. \A u \in Transfers \ {t} : ReceivingMove(u)
  BY <1>2 DEF ReceivingMove, Lifecycle!ReceivingMoves
<1>4. ReceivingMove(t)
  BY <1>1 DEF ReceivingMove
<1>5. \A u \in Transfers : row'[Sender][u].state = row[Sender][u].state
  BY RowAt DEF Devices, Sender, Receiver
<1> QED BY <1>3, <1>4, <1>5, ReceivingSteps

-------------------------------------------------------------------------------
(* The steps of the sending end.                                           *)

\* A negotiation step moves one transfer, and the receiver's inbox stays.
LEMMA NegotiationKeeps ==
    ASSUME TypeOK, ShownInv, NEW t \in Transfers, NEW from, NEW to, Negotiate(t, from, to),
           from \notin Early => to \notin Early, from = "idle" => to \in Early,
           \A u \in Transfers : OfferMsg(u) \in net' => OfferMsg(u) \in net \/ neg'[u] \notin Early
    PROVE  /\ OffersKept /\ consented' = consented
           /\ \A u \in Transfers \ {t} : neg'[u] = neg[u]
           /\ neg[t] = from /\ neg'[t] = to
  BY DEF Negotiate, OffersKept, TypeOK, receiverVars, inboxVars, Early

\* Every step of the sending end is a step of the lifecycle.
LEMMA SenderRefines ==
    ASSUME TypeOK, TypeOK', InductiveInv, ShownInv, NEW t \in Transfers, SenderStep(t)
    PROVE  Lifecycle!Next /\ ShownInv'
<1> USE DEF deviceVars, senderVars, inboxVars, receiverVars
<1>0. Sender \in Devices /\ Receiver \in Devices /\ row[Sender][t] \in Records
  BY DEF Devices, TypeOK
<1>1. CASE Prepare(t)
  <2>1. Negotiate(t, "idle", "imported")
    BY <1>1 DEF Prepare
  <2>2. \A u \in Transfers : OfferMsg(u) \in net' => OfferMsg(u) \in net
    BY <1>1 DEF Prepare
  <2>3. \A d \in Devices, u \in Transfers : row'[d][u].state = row[d][u].state
    BY <1>1 DEF Prepare
  <2> QED
    BY <2>1, <2>2, <2>3, NegotiationKeeps, QuietSteps DEF Early
<1>2. CASE StopBeforeRegistration(t)
  <2>1. Negotiate(t, "imported", "done") /\ row' = row /\ net' = net
    BY <1>2 DEF StopBeforeRegistration
  <2>2. /\ OffersKept /\ consented' = consented
        /\ \A u \in Transfers \ {t} : neg'[u] = neg[u]
        /\ neg[t] = "imported"
    BY <2>1, NegotiationKeeps DEF Early
  <2>3. SenderState(t) = "absent"
    BY <2>2 DEF InductiveInv, NegotiationInv
  <2>4. \A u \in Transfers : SenderMoves(u)
    BY <2>1, <2>2, <2>3 DEF SenderMoves, Closes, SenderState, Early
  <2> QED
    BY <2>1, <2>2, <2>4, SendingSteps
<1>3. CASE RegisterInsert(t)
  <2> DEFINE r == Insert(row[Sender][t])
  <2>1. Negotiate(t, "imported", "registering") /\ SetRow(Sender, t, r)
    BY <1>3 DEF RegisterInsert
  <2>2. \A u \in Transfers : OfferMsg(u) \in net' => OfferMsg(u) \in net \/ neg'[u] \notin Early
    BY <1>3 DEF RegisterInsert, Negotiate, TypeOK, Early
  <2>3. /\ OffersKept /\ consented' = consented
        /\ \A u \in Transfers \ {t} : neg'[u] = neg[u]
        /\ neg[t] = "imported" /\ neg'[t] = "registering"
    BY <2>1, <2>2, NegotiationKeeps DEF Early
  <2>5. SenderState(t) = "absent"
    BY <2>3 DEF InductiveInv, NegotiationInv
  <2>4. r.state = SenderState(t)' => SenderMoves(t)
    BY <1>0, <2>3, <2>5 DEF SenderMoves, Early, SenderState, Insert, Records
  <2> QED
    BY <2>1, <2>3, <2>4, SendingStep
<1>4. CASE RegisterOffering(t)
  <2> DEFINE r == SetState(row[Sender][t], "preparing", "offering")
  <2>1. Negotiate(t, "registering", (IF CanSetState(row[Sender][t], "preparing", "offering") THEN "registered" ELSE "teardown")) /\ SetRow(Sender, t, r)
    BY <1>4 DEF RegisterOffering
  <2>2. \A u \in Transfers : OfferMsg(u) \in net' => OfferMsg(u) \in net \/ neg'[u] \notin Early
    BY <1>4 DEF RegisterOffering, Negotiate, TypeOK, Early
  <2>3. /\ OffersKept /\ consented' = consented
        /\ \A u \in Transfers \ {t} : neg'[u] = neg[u]
        /\ neg[t] = "registering" /\ neg'[t] = (IF CanSetState(row[Sender][t], "preparing", "offering") THEN "registered" ELSE "teardown")
    BY <2>1, <2>2, NegotiationKeeps DEF Early
  <2>4. r.state = SenderState(t)' => SenderMoves(t)
    BY <1>0, <2>3 DEF SenderMoves, Early, SenderState, Closes, SetState, CanSetState, ValidateTransition, Validated, Records, RowStates, States, Preapproval, Resumable, Terminal
  <2> QED
    BY <2>1, <2>3, <2>4, SendingStep
<1>5. CASE ContactFails(t)
  <2> DEFINE r == SetState(row[Sender][t], "offering", "failed")
  <2>1. Negotiate(t, "registered", "teardown") /\ SetRow(Sender, t, r)
    BY <1>5 DEF ContactFails
  <2>2. \A u \in Transfers : OfferMsg(u) \in net' => OfferMsg(u) \in net \/ neg'[u] \notin Early
    BY <1>5 DEF ContactFails, Negotiate, TypeOK, Early
  <2>3. /\ OffersKept /\ consented' = consented
        /\ \A u \in Transfers \ {t} : neg'[u] = neg[u]
        /\ neg[t] = "registered" /\ neg'[t] = "teardown"
    BY <2>1, <2>2, NegotiationKeeps DEF Early
  <2>4. r.state = SenderState(t)' => SenderMoves(t)
    BY <1>0, <2>3, ClosingOps DEF SenderMoves, Early, SenderState, Preapproval
  <2> QED
    BY <2>1, <2>3, <2>4, SendingStep
<1>6. CASE SubmitOffer(t)
  <2> DEFINE r == SetState(row[Sender][t], "offering", "awaiting_approval")
  <2>1. Negotiate(t, "registered", (IF CanSetState(row[Sender][t], "offering", "awaiting_approval") THEN "waiting" ELSE "teardown")) /\ SetRow(Sender, t, r)
    BY <1>6 DEF SubmitOffer
  <2>2. \A u \in Transfers : OfferMsg(u) \in net' => OfferMsg(u) \in net \/ neg'[u] \notin Early
    BY <1>6 DEF SubmitOffer, Negotiate, TypeOK, Early, OfferMsg, Msg
  <2>3. /\ OffersKept /\ consented' = consented
        /\ \A u \in Transfers \ {t} : neg'[u] = neg[u]
        /\ neg[t] = "registered" /\ neg'[t] = (IF CanSetState(row[Sender][t], "offering", "awaiting_approval") THEN "waiting" ELSE "teardown")
    BY <2>1, <2>2, NegotiationKeeps DEF Early
  <2>4. r.state = SenderState(t)' => SenderMoves(t)
    BY <1>0, <2>3 DEF SenderMoves, Early, SenderState, Closes, SetState, CanSetState, ValidateTransition, Validated, Records, RowStates, States, Preapproval, Resumable, Terminal
  <2> QED
    BY <2>1, <2>3, <2>4, SendingStep
<1>7. CASE OfferFails(t)
  <2> DEFINE r == SetState(row[Sender][t], "awaiting_approval", "failed")
  <2>1. Negotiate(t, "waiting", "teardown") /\ SetRow(Sender, t, r)
    BY <1>7 DEF OfferFails
  <2>2. \A u \in Transfers : OfferMsg(u) \in net' => OfferMsg(u) \in net \/ neg'[u] \notin Early
    BY <1>7 DEF OfferFails, Negotiate, TypeOK, Early, StaleReplies
  <2>3. /\ OffersKept /\ consented' = consented
        /\ \A u \in Transfers \ {t} : neg'[u] = neg[u]
        /\ neg[t] = "waiting" /\ neg'[t] = "teardown"
    BY <2>1, <2>2, NegotiationKeeps DEF Early
  <2>4. r.state = SenderState(t)' => SenderMoves(t)
    BY <1>0, <2>3, ClosingOps DEF SenderMoves, Early, SenderState, Preapproval
  <2> QED
    BY <2>1, <2>3, <2>4, SendingStep
<1>8. CASE \E arg \in {"declined", "refused"} : OfferRejected(t, arg)
  <2>0. PICK arg \in {"declined", "refused"} : OfferRejected(t, arg)
    BY <1>8
  <2> DEFINE to == IF arg = "declined" THEN "declined" ELSE "failed"
  <2> DEFINE r == SetState(row[Sender][t], "awaiting_approval", to)
  <2>1. Negotiate(t, "waiting", "teardown") /\ SetRow(Sender, t, r)
    BY <2>0 DEF OfferRejected
  <2>2. \A u \in Transfers : OfferMsg(u) \in net' => OfferMsg(u) \in net \/ neg'[u] \notin Early
    BY <2>0 DEF OfferRejected
  <2>3. /\ OffersKept /\ consented' = consented
        /\ \A u \in Transfers \ {t} : neg'[u] = neg[u]
        /\ neg[t] = "waiting" /\ neg'[t] = "teardown"
    BY <2>1, <2>2, NegotiationKeeps DEF Early
  <2>4. CASE arg = "declined"
    <3>1. r.state = SenderState(t)' => SenderMoves(t)
      BY <1>0, <2>3, <2>4 DEF SenderMoves, Early, SenderState, Closes, SetState, CanSetState, ValidateTransition, Validated, Records, RowStates, States, Preapproval, Resumable, Terminal
    <3> QED BY <2>1, <2>3, <3>1, SendingStep
  <2>5. CASE arg # "declined"
    <3>1. r.state = SenderState(t)' => SenderMoves(t)
      BY <1>0, <2>3, <2>5, ClosingOps DEF SenderMoves, Early, SenderState, Preapproval
    <3> QED BY <2>1, <2>3, <3>1, SendingStep
  <2> QED BY <2>4, <2>5
<1>9. CASE OfferAccepted(t)
  <2>1. Negotiate(t, "waiting", "approving")
    BY <1>9 DEF OfferAccepted
  <2>2. \A u \in Transfers : OfferMsg(u) \in net' => OfferMsg(u) \in net
    BY <1>9 DEF OfferAccepted
  <2>3. \A d \in Devices, u \in Transfers : row'[d][u].state = row[d][u].state
    BY <1>9 DEF OfferAccepted
  <2> QED
    BY <2>1, <2>2, <2>3, NegotiationKeeps, QuietSteps DEF Early
<1>10. CASE ProtectAuthorization(t)
  <2>1. Negotiate(t, "approving", "protected")
    BY <1>10 DEF ProtectAuthorization
  <2>2. \A u \in Transfers : OfferMsg(u) \in net' => OfferMsg(u) \in net
    BY <1>10 DEF ProtectAuthorization
  <2>3. \A d \in Devices, u \in Transfers : row'[d][u].state = row[d][u].state
    BY <1>10 DEF ProtectAuthorization
  <2> QED
    BY <2>1, <2>2, <2>3, NegotiationKeeps, QuietSteps DEF Early
<1>11. CASE ProtectFails(t)
  <2> DEFINE r == SetStateFromAny(row[Sender][t], "failed")
  <2>1. Negotiate(t, "approving", "teardown") /\ SetRow(Sender, t, r)
    BY <1>11 DEF ProtectFails
  <2>2. \A u \in Transfers : OfferMsg(u) \in net' => OfferMsg(u) \in net \/ neg'[u] \notin Early
    BY <1>11 DEF ProtectFails, Negotiate, TypeOK, Early
  <2>3. /\ OffersKept /\ consented' = consented
        /\ \A u \in Transfers \ {t} : neg'[u] = neg[u]
        /\ neg[t] = "approving" /\ neg'[t] = "teardown"
    BY <2>1, <2>2, NegotiationKeeps DEF Early
  <2>4. r.state = SenderState(t)' => SenderMoves(t)
    BY <1>0, <2>3, ClosingOps DEF SenderMoves, Early, SenderState
  <2> QED
    BY <2>1, <2>3, <2>4, SendingStep
<1>12. CASE Finalize(t)
  <2>0. PICK h \in secrets[Sender][t] : SetRow(Sender, t, FinalizeSender(row[Sender][t], h))
    BY <1>12 DEF Finalize
  <2> DEFINE r == FinalizeSender(row[Sender][t], h)
  <2> DEFINE to == IF row[Sender][t].state = "awaiting_approval" THEN "done" ELSE "rollback"
  <2>1. Negotiate(t, "protected", to)
    BY <1>12 DEF Finalize
  <2>2. net' = net
    BY <1>12 DEF Finalize
  <2>3. /\ OffersKept /\ consented' = consented
        /\ \A u \in Transfers \ {t} : neg'[u] = neg[u]
        /\ neg[t] = "protected" /\ neg'[t] = to
    BY <2>1, <2>2, NegotiationKeeps DEF Early
  <2>4. t \in consented
    BY <2>3 DEF InductiveInv, ConsentInv
  <2>5. r.state = SenderState(t)' => SenderMoves(t)
    BY <1>0, <2>3, <2>4 DEF SenderMoves, Early, SenderState, Closes, FinalizeSender, Records
  <2> QED
    BY <2>0, <2>3, <2>5, SendingStep
<1>13. CASE Rollback(t)
  <2> DEFINE r == SetStateFromAny(row[Sender][t], "failed")
  <2>1. Negotiate(t, "rollback", "teardown") /\ SetRow(Sender, t, r)
    BY <1>13 DEF Rollback
  <2>2. \A u \in Transfers : OfferMsg(u) \in net' => OfferMsg(u) \in net \/ neg'[u] \notin Early
    BY <1>13 DEF Rollback, Negotiate, TypeOK, Early
  <2>3. /\ OffersKept /\ consented' = consented
        /\ \A u \in Transfers \ {t} : neg'[u] = neg[u]
        /\ neg[t] = "rollback" /\ neg'[t] = "teardown"
    BY <2>1, <2>2, NegotiationKeeps DEF Early
  <2>4. r.state = SenderState(t)' => SenderMoves(t)
    BY <1>0, <2>3, ClosingOps DEF SenderMoves, Early, SenderState
  <2> QED
    BY <2>1, <2>3, <2>4, SendingStep
<1>14. CASE Teardown(t)
  <2>1. Negotiate(t, "teardown", "done")
    BY <1>14 DEF Teardown
  <2>2. \A u \in Transfers : OfferMsg(u) \in net' => OfferMsg(u) \in net
    BY <1>14 DEF Teardown
  <2>3. \A d \in Devices, u \in Transfers : row'[d][u].state = row[d][u].state
    BY <1>14 DEF Teardown
  <2> QED
    BY <2>1, <2>2, <2>3, NegotiationKeeps, QuietSteps DEF Early
<1>15. CASE StopStart(t)
  <2>1. OffersKept /\ consented' = consented /\ neg' = neg
    BY <1>15 DEF StopStart, CommandStart, OffersKept
  <2>2. \A d \in Devices, u \in Transfers : row'[d][u].state = row[d][u].state
    BY <1>15, <1>0 DEF StopStart, CommandStart, SetRow, TypeOK, Records
  <2> QED
    BY <2>1, <2>2, QuietSteps
<1>16. CASE StopAbandon(t)
  <2> DEFINE r == AbandonSenderPreapproval(row[Sender][t])
  <2>1. OffersKept /\ consented' = consented /\ neg' = neg /\ SetRow(Sender, t, r)
    BY <1>16 DEF StopAbandon, OffersKept
  <2>2. SenderState(t) # "absent" => neg[t] \notin Early
    BY DEF InductiveInv, NegotiationInv, Early
  <2>3. r.state = SenderState(t)' => SenderMoves(t)
    BY <1>0, <2>1, <2>2 DEF SenderMoves, Closes, SenderState, AbandonSenderPreapproval, NoRecord, Preapproval
  <2> QED
    BY <2>1, <2>3, SendingStep
<1>17. CASE DeliverAuthorization(t)
  <2>1. OffersKept /\ consented' = consented /\ neg' = neg
    BY <1>17 DEF DeliverAuthorization, OffersKept, Reconcile, StaleReplies, OfferMsg, Msg
  <2>2. \A d \in Devices, u \in Transfers : row'[d][u].state = row[d][u].state
    BY <1>17, <1>0 DEF DeliverAuthorization, SetRow, TypeOK, Records
  <2> QED
    BY <2>1, <2>2, QuietSteps
<1>18. CASE DeliveryStored(t)
  <2>1. OffersKept /\ consented' = consented /\ neg' = neg
    BY <1>18 DEF DeliveryStored, OffersKept, Reconcile, StaleReplies, OfferMsg, Msg
  <2>2. \A d \in Devices, u \in Transfers : row'[d][u].state = row[d][u].state
    BY <1>18, <1>0 DEF DeliveryStored, SetRow, TypeOK, Records
  <2> QED
    BY <2>1, <2>2, QuietSteps
<1>19. CASE DeliveryDeferred(t)
  <2>1. OffersKept /\ consented' = consented /\ neg' = neg
    BY <1>19 DEF DeliveryDeferred, OffersKept, Reconcile, StaleReplies, OfferMsg, Msg
  <2>2. \A d \in Devices, u \in Transfers : row'[d][u].state = row[d][u].state
    BY <1>19, <1>0 DEF DeliveryDeferred, SetRow, TypeOK, Records
  <2> QED
    BY <2>1, <2>2, QuietSteps
<1>20. CASE ReleasePayload(t)
  <2>1. OffersKept /\ consented' = consented /\ neg' = neg
    BY <1>20 DEF ReleasePayload, OffersKept, Reconcile, StaleReplies, OfferMsg, Msg
  <2>2. \A d \in Devices, u \in Transfers : row'[d][u].state = row[d][u].state
    BY <1>20, <1>0 DEF ReleasePayload, SetRow, TypeOK, Records
  <2> QED
    BY <2>1, <2>2, QuietSteps
<1>21. CASE HandleCompletion(t)
  <2> DEFINE r == IF RecordsCompletion(row[Sender][t]) THEN MarkSenderCompleted(row[Sender][t])
                  ELSE row[Sender][t]
  <2>1. OffersKept /\ consented' = consented /\ neg' = neg
    BY <1>21 DEF HandleCompletion, OffersKept, Reconcile, Reply, OfferMsg, Msg
  <2>2. SetRow(Sender, t, r) /\ CompletionMsg(t) \in net
    BY <1>21 DEF HandleCompletion, CompletionMsg
  <2>3. ReceiverState(t) \in {"completed", "deleted"}
    BY <2>2 DEF InductiveInv, CompletionInv
  <2>4. r.state = SenderState(t)' => SenderMoves(t)
    BY <1>0, <2>1, <2>3 DEF SenderMoves, Closes, SenderState, MarkSenderCompleted, Records
  <2> QED
    BY <2>1, <2>2, <2>4, SendingStep
<1> QED
  BY <1>1, <1>2, <1>3, <1>4, <1>5, <1>6, <1>7, <1>8, <1>9, <1>10, <1>11, <1>12, <1>13, <1>14, <1>15, <1>16, <1>17, <1>18, <1>19, <1>20, <1>21 DEF SenderStep

-------------------------------------------------------------------------------
(* The steps of the receiving end.                                         *)

\* Every step of the receiving end is a step of the lifecycle.
LEMMA ReceiverRefines ==
    ASSUME TypeOK, TypeOK', InductiveInv, ShownInv, NEW t \in Transfers, ReceiverStep(t)
    PROVE  Lifecycle!Next /\ ShownInv'
<1> USE DEF deviceVars, senderVars, inboxVars, receiverVars
<1>0. Sender \in Devices /\ Receiver \in Devices /\ row[Receiver][t] \in Records
  BY DEF Devices, TypeOK
<1>1. CASE OfferRefused(t)
  <2>1. OffersKept /\ consented' = consented /\ neg' = neg
    BY <1>1 DEF OfferRefused, OffersKept, OfferMsg, Msg, Reply, Answer, StaleReplies, InboxStep
  <2>2. \A d \in Devices, u \in Transfers : row'[d][u].state = row[d][u].state
    BY <1>1, <1>0 DEF OfferRefused, InboxStep, SetRow, TypeOK, Records, ClearIntent
  <2> QED
    BY <2>1, <2>2, QuietSteps
<1>2. CASE OfferPending(t)
  <2>1. OffersKept /\ consented' = consented /\ neg' = neg
    BY <1>2 DEF OfferPending, OffersKept, InboxStep
  <2>2. \A d \in Devices, u \in Transfers : row'[d][u].state = row[d][u].state
    BY <1>2 DEF OfferPending
  <2> QED
    BY <2>1, <2>2, QuietSteps
<1>3. CASE OfferDecidedYes(t)
  <2>1. OffersKept /\ consented' = consented /\ neg' = neg
    BY <1>3 DEF OfferDecidedYes, OffersKept, OfferMsg, Msg, Reply, Answer, StaleReplies, InboxStep
  <2>2. \A d \in Devices, u \in Transfers : row'[d][u].state = row[d][u].state
    BY <1>3, <1>0 DEF OfferDecidedYes, InboxStep, SetRow, TypeOK, Records, ClearIntent
  <2> QED
    BY <2>1, <2>2, QuietSteps
<1>4. CASE OfferDecidedNo(t)
  <2>1. OffersKept /\ consented' = consented /\ neg' = neg
    BY <1>4 DEF OfferDecidedNo, OffersKept, OfferMsg, Msg, Reply, Answer, StaleReplies, InboxStep
  <2>2. \A d \in Devices, u \in Transfers : row'[d][u].state = row[d][u].state
    BY <1>4, <1>0 DEF OfferDecidedNo, InboxStep, SetRow, TypeOK, Records, ClearIntent
  <2> QED
    BY <2>1, <2>2, QuietSteps
<1>5. CASE OfferTimesOut(t)
  <2>1. OffersKept /\ consented' = consented /\ neg' = neg
    BY <1>5 DEF OfferTimesOut, OffersKept, OfferMsg, Msg, Reply, Answer, StaleReplies, InboxStep
  <2>2. \A d \in Devices, u \in Transfers : row'[d][u].state = row[d][u].state
    BY <1>5, <1>0 DEF OfferTimesOut, InboxStep, SetRow, TypeOK, Records, ClearIntent
  <2> QED
    BY <2>1, <2>2, QuietSteps
<1>6. CASE RespondAccept(t)
  <2>1. OffersKept /\ consented' = consented /\ neg' = neg
    BY <1>6 DEF RespondAccept, OffersKept, InboxStep, TypeOK
  <2>2. \A d \in Devices, u \in Transfers : row'[d][u].state = row[d][u].state
    BY <1>6, <1>0 DEF RespondAccept, SetRow, TypeOK, Records, ClearIntent
  <2> QED
    BY <2>1, <2>2, QuietSteps
<1>7. CASE PersistConsent(t)
  <2> DEFINE r == PersistIntent(row[Receiver][t])
  <2>1. OffersKept /\ neg' = neg /\ SetRow(Receiver, t, r) /\ consented' = consented \cup {t}
    BY <1>7 DEF PersistConsent, OffersKept, InboxStep, TypeOK
  <2>2. SendingShown[t] # "absent"
    BY <1>7 DEF PersistConsent, ShownInv, OfferInv, SendingShown, Early
  <2>3. r.state = row[Receiver][t].state
    BY <1>0 DEF PersistIntent, Records
  <2> QED
    BY <2>1, <2>2, <2>3, ReceivingStep DEF Lifecycle!ReceivingMoves
<1>8. CASE AcceptLive(t)
  <2>1. OffersKept /\ consented' = consented /\ neg' = neg
    BY <1>8 DEF AcceptLive, OffersKept, InboxStep, TypeOK
  <2>2. \A d \in Devices, u \in Transfers : row'[d][u].state = row[d][u].state
    BY <1>8, <1>0 DEF AcceptLive, SetRow, TypeOK, Records, ClearIntent
  <2> QED
    BY <2>1, <2>2, QuietSteps
<1>9. CASE RespondDecline(t)
  <2>1. OffersKept /\ consented' = consented /\ neg' = neg
    BY <1>9 DEF RespondDecline, OffersKept, InboxStep, TypeOK, Discard
  <2>2. \A d \in Devices, u \in Transfers : row'[d][u].state = row[d][u].state
    BY <1>9, <1>0 DEF RespondDecline, SetRow, TypeOK, Records, ClearIntent
  <2> QED
    BY <2>1, <2>2, QuietSteps
<1>10. CASE AuthorizationReceived(t)
  <2>1. OffersKept /\ consented' = consented /\ neg' = neg
    BY <1>10 DEF AuthorizationReceived, OffersKept, InboxStep, TypeOK
  <2>2. \A d \in Devices, u \in Transfers : row'[d][u].state = row[d][u].state
    BY <1>10, <1>0 DEF AuthorizationReceived, SetRow, TypeOK, Records, ClearIntent
  <2> QED
    BY <2>1, <2>2, QuietSteps
<1>11. CASE AuthorizationTimesOut(t)
  <2>1. OffersKept /\ consented' = consented /\ neg' = neg
    BY <1>11 DEF AuthorizationTimesOut, OffersKept, InboxStep, TypeOK
  <2>2. \A d \in Devices, u \in Transfers : row'[d][u].state = row[d][u].state
    BY <1>11, <1>0 DEF AuthorizationTimesOut, SetRow, TypeOK, Records, ClearIntent
  <2> QED
    BY <2>1, <2>2, QuietSteps
<1>12. CASE AuthorizationKnown(t)
  <2>1. OffersKept /\ consented' = consented /\ neg' = neg
    BY <1>12 DEF AuthorizationKnown, OffersKept, OfferMsg, Msg, Reply, Answer, StaleReplies, AuthorizationStep
  <2>2. \A d \in Devices, u \in Transfers : row'[d][u].state = row[d][u].state
    BY <1>12, <1>0 DEF AuthorizationKnown, AuthorizationStep, SetRow, TypeOK, Records, ClearIntent
  <2> QED
    BY <2>1, <2>2, QuietSteps
<1>13. CASE AuthorizationProtect(t)
  <2>1. OffersKept /\ consented' = consented /\ neg' = neg
    BY <1>13 DEF AuthorizationProtect, OffersKept, OfferMsg, Msg, Reply, Answer, StaleReplies, AuthorizationStep
  <2>2. \A d \in Devices, u \in Transfers : row'[d][u].state = row[d][u].state
    BY <1>13, <1>0 DEF AuthorizationProtect, AuthorizationStep, SetRow, TypeOK, Records, ClearIntent
  <2> QED
    BY <2>1, <2>2, QuietSteps
<1>14. CASE \E h \in Handles : AuthorizationCommit(t, h)
  <2>0. PICK h \in Handles : AuthorizationCommit(t, h)
    BY <1>14
  <2> DEFINE r == PersistReceiver(row[Receiver][t], h)
  <2>1. OffersKept /\ neg' = neg /\ SetRow(Receiver, t, r) /\ consented' = consented
    BY <2>0 DEF AuthorizationCommit, OffersKept, AuthorizationStep, Reply, OfferMsg, Msg
  <2>2. h \in authing[t] /\ row[Receiver][t].intent /\ row[Receiver][t].state = "absent"
    BY <2>0 DEF AuthorizationCommit, CanPersistReceiver
  <2>3. t \in consented
    BY <2>2 DEF InductiveInv, ConsentInv
  <2>4. SenderState(t) \in PostApproval
    BY <2>2 DEF InductiveInv, ApprovalInv
  <2>5. SendingShown[t] \notin Lifecycle!BeforeApproval \cup {"absent", "gone", "declined"}
    BY <2>4 DEF SendingShown, PostApproval, Resumable, Lifecycle!BeforeApproval
  <2>6. r.state = "approved"
    BY <1>0 DEF PersistReceiver, Records
  <2> QED
    BY <2>1, <2>2, <2>3, <2>5, <2>6, ReceivingStep DEF Lifecycle!ReceivingMoves
<1>15. CASE \E h \in Handles : AuthorizationRollback(t, h)
  <2>1. OffersKept /\ consented' = consented /\ neg' = neg
    BY <1>15 DEF AuthorizationRollback, OffersKept, OfferMsg, Msg, Reply, Answer, StaleReplies, AuthorizationStep
  <2>2. \A d \in Devices, u \in Transfers : row'[d][u].state = row[d][u].state
    BY <1>15, <1>0 DEF AuthorizationRollback, AuthorizationStep, SetRow, TypeOK, Records, ClearIntent
  <2> QED
    BY <2>1, <2>2, QuietSteps
<1>16. CASE ReceiveStart(t)
  <2>1. OffersKept /\ consented' = consented /\ neg' = neg
    BY <1>16 DEF ReceiveStart, OffersKept, OfferMsg, Msg, Reply, Answer, StaleReplies, RunStep
  <2>2. \A d \in Devices, u \in Transfers : row'[d][u].state = row[d][u].state
    BY <1>16, <1>0 DEF ReceiveStart, RunStep, SetRow, TypeOK, Records, ClearIntent
  <2> QED
    BY <2>1, <2>2, QuietSteps
<1>17. CASE ReceiveConnecting(t)
  <2> DEFINE r == IF row[Receiver][t].state \in {"approved", "interrupted"}
                  THEN SetState(row[Receiver][t], row[Receiver][t].state, "connecting")
                  ELSE row[Receiver][t]
  <2>1. OffersKept /\ neg' = neg /\ SetRow(Receiver, t, r) /\ consented' = consented
    BY <1>17 DEF ReceiveConnecting, OffersKept, RunStep
  <2>2. Lifecycle!ReceivingMoves(t, row[Receiver][t].state, r.state)
    BY <1>0 DEF Lifecycle!ReceivingMoves, SetState, CanSetState, ValidateTransition, Validated, Records
  <2> QED
    BY <2>1, <2>2, ReceivingStep
<1>18. CASE ReceiveTransferring(t)
  <2> DEFINE r == SetState(row[Receiver][t], "connecting", "transferring")
  <2>1. OffersKept /\ neg' = neg /\ SetRow(Receiver, t, r) /\ consented' = consented
    BY <1>18 DEF ReceiveTransferring, OffersKept, RunStep
  <2>2. Lifecycle!ReceivingMoves(t, row[Receiver][t].state, r.state)
    BY <1>0 DEF Lifecycle!ReceivingMoves, SetState, CanSetState, ValidateTransition, Validated, Records
  <2> QED
    BY <2>1, <2>2, ReceivingStep
<1>19. CASE PayloadArrives(t)
  <2>1. OffersKept /\ consented' = consented /\ neg' = neg
    BY <1>19 DEF PayloadArrives, OffersKept, OfferMsg, Msg, Reply, Answer, StaleReplies, RunStep
  <2>2. \A d \in Devices, u \in Transfers : row'[d][u].state = row[d][u].state
    BY <1>19, <1>0 DEF PayloadArrives, RunStep, SetRow, TypeOK, Records, ClearIntent
  <2> QED
    BY <2>1, <2>2, QuietSteps
<1>20. CASE PayloadFails(t)
  <2> DEFINE r == IF row[Receiver][t].state \in {"connecting", "transferring"}
                  THEN SetState(row[Receiver][t], row[Receiver][t].state, "interrupted")
                  ELSE row[Receiver][t]
  <2>1. OffersKept /\ neg' = neg /\ SetRow(Receiver, t, r) /\ consented' = consented
    BY <1>20 DEF PayloadFails, OffersKept, RunStep
  <2>2. Lifecycle!ReceivingMoves(t, row[Receiver][t].state, r.state)
    BY <1>0 DEF Lifecycle!ReceivingMoves, SetState, CanSetState, ValidateTransition, Validated, Records
  <2> QED
    BY <2>1, <2>2, ReceivingStep
<1>21. CASE ReceiveComplete(t)
  <2> DEFINE r == CompleteReceiver(row[Receiver][t])
  <2>0. net' = net \/ CallCompletion(t)
    BY <1>21 DEF ReceiveComplete
  <2>3. \A u \in Transfers : OfferMsg(u) \in net' => OfferMsg(u) \in net
    <3>1. \A u \in Transfers : OfferMsg(u) # CompletionMsg(t)
      BY DEF OfferMsg, CompletionMsg, Msg
    <3> QED BY <2>0, <3>1 DEF CallCompletion, StaleReplies
  <2>1. OffersKept /\ neg' = neg /\ SetRow(Receiver, t, r) /\ consented' = consented
    BY <1>21, <2>3 DEF ReceiveComplete, OffersKept, RunStep
  <2>2. Lifecycle!ReceivingMoves(t, row[Receiver][t].state, r.state)
    BY <1>0 DEF Lifecycle!ReceivingMoves, CompleteReceiver, Records
  <2> QED
    BY <2>1, <2>2, ReceivingStep
<1>22. CASE ReceiveAcknowledged(t)
  <2>1. OffersKept /\ consented' = consented /\ neg' = neg
    BY <1>22 DEF ReceiveAcknowledged, OffersKept, OfferMsg, Msg, Reply, Answer, StaleReplies, RunStep, ClearCompletion
  <2>2. \A d \in Devices, u \in Transfers : row'[d][u].state = row[d][u].state
    BY <1>22, <1>0 DEF ReceiveAcknowledged, RunStep, ClearCompletion, SetRow, TypeOK, Records, ClearIntent
  <2> QED
    BY <2>1, <2>2, QuietSteps
<1>23. CASE ReceiveUnacknowledged(t)
  <2>1. OffersKept /\ consented' = consented /\ neg' = neg
    BY <1>23 DEF ReceiveUnacknowledged, OffersKept, OfferMsg, Msg, Reply, Answer, StaleReplies, RunStep, ClearCompletion
  <2>2. \A d \in Devices, u \in Transfers : row'[d][u].state = row[d][u].state
    BY <1>23, <1>0 DEF ReceiveUnacknowledged, RunStep, ClearCompletion, SetRow, TypeOK, Records, ClearIntent
  <2> QED
    BY <2>1, <2>2, QuietSteps
<1>24. CASE ReceiveEnd(t)
  <2>1. OffersKept /\ consented' = consented /\ neg' = neg
    BY <1>24 DEF ReceiveEnd, OffersKept, OfferMsg, Msg, Reply, Answer, StaleReplies, RunStep, ClearCompletion
  <2>2. \A d \in Devices, u \in Transfers : row'[d][u].state = row[d][u].state
    BY <1>24, <1>0 DEF ReceiveEnd, RunStep, ClearCompletion, SetRow, TypeOK, Records, ClearIntent
  <2> QED
    BY <2>1, <2>2, QuietSteps
<1>25. CASE RetryCompletion(t)
  <2>1. OffersKept /\ consented' = consented /\ neg' = neg
    BY <1>25 DEF RetryCompletion, OffersKept, OfferMsg, Msg, Reply, Answer, StaleReplies, RetryStep, CallCompletion, CompletionMsg, ClearCompletion
  <2>2. \A d \in Devices, u \in Transfers : row'[d][u].state = row[d][u].state
    BY <1>25, <1>0 DEF RetryCompletion, RetryStep, CallCompletion, CompletionMsg, ClearCompletion, SetRow, TypeOK, Records, ClearIntent
  <2> QED
    BY <2>1, <2>2, QuietSteps
<1>26. CASE RetryAcknowledged(t)
  <2>1. OffersKept /\ consented' = consented /\ neg' = neg
    BY <1>26 DEF RetryAcknowledged, OffersKept, OfferMsg, Msg, Reply, Answer, StaleReplies, RetryStep, CallCompletion, CompletionMsg, ClearCompletion
  <2>2. \A d \in Devices, u \in Transfers : row'[d][u].state = row[d][u].state
    BY <1>26, <1>0 DEF RetryAcknowledged, RetryStep, CallCompletion, CompletionMsg, ClearCompletion, SetRow, TypeOK, Records, ClearIntent
  <2> QED
    BY <2>1, <2>2, QuietSteps
<1>27. CASE RetryDeferred(t)
  <2>1. OffersKept /\ consented' = consented /\ neg' = neg
    BY <1>27 DEF RetryDeferred, OffersKept, OfferMsg, Msg, Reply, Answer, StaleReplies, RetryStep, CallCompletion, CompletionMsg, ClearCompletion
  <2>2. \A d \in Devices, u \in Transfers : row'[d][u].state = row[d][u].state
    BY <1>27, <1>0 DEF RetryDeferred, RetryStep, CallCompletion, CompletionMsg, ClearCompletion, SetRow, TypeOK, Records, ClearIntent
  <2> QED
    BY <2>1, <2>2, QuietSteps
<1>28. CASE \E arg \in {"withdrawn", "cancelled", "deleted"} : CancelPendingOffer(t, arg)
  <2>1. OffersKept /\ consented' = consented /\ neg' = neg
    BY <1>28 DEF CancelPendingOffer, CancelArrives, Discard, OffersKept
  <2>2. \A d \in Devices, u \in Transfers : row'[d][u].state = row[d][u].state
    BY <1>28, <1>0 DEF CancelPendingOffer, SetRow, TypeOK, Records, ClearIntent
  <2> QED
    BY <2>1, <2>2, QuietSteps
<1> QED
  BY <1>1, <1>2, <1>3, <1>4, <1>5, <1>6, <1>7, <1>8, <1>9, <1>10, <1>11, <1>12, <1>13, <1>14, <1>15, <1>16, <1>17, <1>18, <1>19, <1>20, <1>21, <1>22, <1>23, <1>24, <1>25, <1>26, <1>27, <1>28 DEF ReceiverStep

-------------------------------------------------------------------------------
(* The steps both devices take, and those of the runtime.                  *)

\* A transaction that ends the row of one transfer or leaves its state.
LEMMA ClosingStep ==
    ASSUME TypeOK, TypeOK', ShownInv, NEW d \in Devices, NEW t \in Transfers, NEW r,
           SetRow(d, t, r), OffersKept, consented' = consented, neg' = neg,
           Closes(row[d][t].state, r.state)
    PROVE  Lifecycle!Next /\ ShownInv'
<1>1. CASE d = Sender
  <2>1. r.state = SenderState(t)' => SenderMoves(t)
    BY <1>1 DEF SenderMoves, SenderState
  <2> QED BY <1>1, <2>1, SendingStep
<1>2. CASE d = Receiver
  <2>1. Lifecycle!ReceivingMoves(t, row[Receiver][t].state, r.state)
    BY <1>2 DEF Closes, Lifecycle!ReceivingMoves
  <2> QED BY <1>2, <2>1, ReceivingStep
<1> QED BY <1>1, <1>2 DEF Devices

\* Every step of a stop, at either device, is a step of the lifecycle.
LEMMA DeviceRefines ==
    ASSUME TypeOK, TypeOK', ShownInv, NEW t \in Transfers, NEW d \in Devices, DeviceStep(d, t)
    PROVE  Lifecycle!Next /\ ShownInv'
<1> USE DEF deviceVars, senderVars, inboxVars, receiverVars
<1>0. Sender \in Devices /\ Receiver \in Devices /\ row[d][t] \in Records
  BY DEF Devices, TypeOK
<1>1. CASE \E c \in {"cancel", "delete"} : TerminateUnknown(d, t, c)
  <2>1. OffersKept /\ consented' = consented /\ neg' = neg
    BY <1>1 DEF TerminateUnknown, CommandStart, OffersKept, OfferMsg, Msg, DiscardAt, Discard
  <2>2. \A e \in Devices, u \in Transfers : row'[e][u].state = row[e][u].state
    BY <1>1, <1>0 DEF TerminateUnknown, CommandStart, SetRow, TypeOK, Records, ClearIntent, ClearAuthorization
  <2> QED
    BY <2>1, <2>2, QuietSteps
<1>2. CASE \E c \in {"cancel", "delete"} : TerminateAgain(d, t, c)
  <2>1. OffersKept /\ consented' = consented /\ neg' = neg
    BY <1>2 DEF TerminateAgain, CommandStart, OffersKept, OfferMsg, Msg, DiscardAt, Discard
  <2>2. \A e \in Devices, u \in Transfers : row'[e][u].state = row[e][u].state
    BY <1>2, <1>0 DEF TerminateAgain, CommandStart, SetRow, TypeOK, Records, ClearIntent, ClearAuthorization
  <2> QED
    BY <2>1, <2>2, QuietSteps
<1>3. CASE \E c \in {"cancel", "delete"} : TerminateStart(d, t, c)
  <2>1. OffersKept /\ consented' = consented /\ neg' = neg
    BY <1>3 DEF TerminateStart, CommandStart, OffersKept, OfferMsg, Msg, DiscardAt, Discard
  <2>2. \A e \in Devices, u \in Transfers : row'[e][u].state = row[e][u].state
    BY <1>3, <1>0 DEF TerminateStart, CommandStart, SetRow, TypeOK, Records, ClearIntent, ClearAuthorization
  <2> QED
    BY <2>1, <2>2, QuietSteps
<1>4. CASE Deny(d, t)
  <2> DEFINE j == job[d][t]["local"]
  <2> DEFINE r == IF j.kind # "stop" /\ j.state = Target(j.kind) THEN row[d][t]
                  ELSE TransitionTerminal(row[d][t], Target(j.kind), TRUE)
  <2>1. OffersKept /\ consented' = consented /\ neg' = neg /\ SetRow(d, t, r)
    BY <1>4 DEF Deny, OffersKept, DiscardAt, Discard
  <2>2. Closes(row[d][t].state, r.state)
    <3>1. Target(j.kind) \in {"cancelled", "deleted"}
      BY DEF Target
    <3>2. Closes(row[d][t].state, TransitionTerminal(row[d][t], Target(j.kind), TRUE).state)
      BY <1>0, <3>1, ClosingOps
    <3> QED BY <3>2 DEF Closes
  <2> QED
    BY <2>1, <2>2, ClosingStep
<1>5. CASE CancelNothing(d, t)
  <2>1. OffersKept /\ consented' = consented /\ neg' = neg
    BY <1>5 DEF CancelNothing, CancelArrives, OffersKept, OfferMsg, Msg, DiscardAt, Discard
  <2>2. \A e \in Devices, u \in Transfers : row'[e][u].state = row[e][u].state
    BY <1>5, <1>0 DEF CancelNothing, CancelArrives, SetRow, TypeOK, Records, ClearIntent, ClearAuthorization
  <2> QED
    BY <2>1, <2>2, QuietSteps
<1>6. CASE \E arg \in {"cancelled", "deleted"} : CancelFromPeer(d, t, arg)
  <2>1. OffersKept /\ consented' = consented /\ neg' = neg
    BY <1>6 DEF CancelFromPeer, CancelArrives, OffersKept, OfferMsg, Msg, DiscardAt, Discard
  <2>2. \A e \in Devices, u \in Transfers : row'[e][u].state = row[e][u].state
    BY <1>6, <1>0 DEF CancelFromPeer, CancelArrives, SetRow, TypeOK, Records, ClearIntent, ClearAuthorization
  <2> QED
    BY <2>1, <2>2, QuietSteps
<1>7. CASE DenyFromPeer(d, t)
  <2> DEFINE j == job[d][t]["wire"]
  <2> DEFINE live == j.state \in Preapproval \cup Resumable
  <2> DEFINE r == CASE j.state = "absent" -> ClearIntent(row[d][t])
                    [] live -> TransitionTerminal(row[d][t], "cancelled", FALSE)
                    [] OTHER -> row[d][t]
  <2>1. OffersKept /\ consented' = consented /\ neg' = neg /\ SetRow(d, t, r)
    BY <1>7 DEF DenyFromPeer, OffersKept
  <2>2. Closes(row[d][t].state, r.state)
    <3>1. /\ Closes(row[d][t].state, ClearIntent(row[d][t]).state)
          /\ Closes(row[d][t].state, TransitionTerminal(row[d][t], "cancelled", FALSE).state)
      BY <1>0, ClosingOps
    <3>2. Closes(row[d][t].state, row[d][t].state)
      BY DEF Closes
    <3>3. r \in {ClearIntent(row[d][t]), TransitionTerminal(row[d][t], "cancelled", FALSE), row[d][t]}
      BY DEF Preapproval, Resumable
    <3> QED BY <3>1, <3>2, <3>3
  <2> QED
    BY <2>1, <2>2, ClosingStep
<1>8. CASE \E w \in Workers : Cleanup(d, t, w)
  <2>0. PICK w \in Workers : Cleanup(d, t, w)
    BY <1>8
  <2>1. net' \subseteq net \cup Notices(d, t, job[d][t][w])
    BY <2>0 DEF Cleanup, FinishJob
  <2>2. consented' = consented /\ neg' = neg /\ pending' = pending /\ resp' = resp /\ row' = row
    BY <2>0 DEF Cleanup
  <2>3. OffersKept
    BY <2>1, <2>2 DEF OffersKept, Notices, OfferMsg, Msg
  <2> QED
    BY <2>2, <2>3, QuietSteps
<1>9. CASE \E w \in Workers : CleanupClear(d, t, w)
  <2>0. PICK w \in Workers : CleanupClear(d, t, w)
    BY <1>9
  <2>1. net' \subseteq net \cup Notices(d, t, job[d][t][w])
    BY <2>0 DEF CleanupClear, FinishJob
  <2>2. consented' = consented /\ neg' = neg /\ pending' = pending /\ resp' = resp
    BY <2>0 DEF CleanupClear
  <2>3. OffersKept
    BY <2>1, <2>2 DEF OffersKept, Notices, OfferMsg, Msg
  <2>4. SetRow(d, t, ClearAuthorization(row[d][t]))
    BY <2>0 DEF CleanupClear
  <2> QED
    BY <1>0, <2>2, <2>3, <2>4, ClosingOps, ClosingStep
<1> QED
  BY <1>1, <1>2, <1>3, <1>4, <1>5, <1>6, <1>7, <1>8, <1>9 DEF DeviceStep

\* Startup recovery ends a row, interrupts a receive, or leaves its state.
LEMMA RecoveredMoves ==
    ASSUME TypeOK, NEW d \in Devices, NEW r \in Records
    PROVE  \/ Closes(r.state, Recovered(d, r).state)
           \/ /\ r.state \in {"connecting", "transferring"}
              /\ Recovered(d, r).state \in {"interrupted", "cancelled"}
<1> DEFINE i == RecoverInFlight(r)
           p == IF saved[d] THEN i ELSE CancelByPeer(i)
<1>1. i \in Records
  BY StoreTypes
<1>2. \/ i.state = r.state
      \/ r.state \in Preapproval /\ i.state = "failed"
      \/ r.state \in {"connecting", "transferring"} /\ i.state = "interrupted"
  BY DEF RecoverInFlight, Records
<1>3. \/ p.state = i.state
      \/ i.state \in Preapproval \cup Resumable /\ p.state = "cancelled"
  <2>1. ASSUME NEW x \in Records
        PROVE  \/ CancelByPeer(x).state = x.state
               \/ x.state \in Preapproval \cup Resumable /\ CancelByPeer(x).state = "cancelled"
    BY DEF CancelByPeer, DeniedBy, Records
  <2>2. CASE saved[d]
    BY <2>2
  <2>3. CASE ~saved[d]
    <3>1. p = CancelByPeer(i)
      BY <2>3
    <3> HIDE DEF i, p
    <3> QED BY <1>1, <2>1, <3>1
  <2> QED BY <2>2, <2>3
<1>4. p \in Records
  BY <1>1, StoreTypes
<1>5. ClearAuthorization(p).state = p.state
  BY <1>4 DEF ClearAuthorization, Records
<1>6. Recovered(d, r).state = p.state
  BY <1>5 DEF Recovered
<1> HIDE DEF i, p
<1> QED
  BY <1>2, <1>3, <1>6
  DEF Closes, Lifecycle!Ends, Lifecycle!BeforeApproval, Lifecycle!Runnable, Preapproval, Resumable

\* A step that ends or recovers rows of one device, many at once.
LEMMA ClosingSteps ==
    ASSUME TypeOK, TypeOK', ShownInv, NEW d \in Devices, OffersKept, consented' = consented,
           neg' = neg,
           \A e \in Devices \ {d}, u \in Transfers : row'[e][u].state = row[e][u].state,
           \A u \in Transfers :
              \/ Closes(row[d][u].state, row'[d][u].state)
              \/ /\ row[d][u].state \in {"connecting", "transferring"}
                 /\ row'[d][u].state \in {"interrupted", "cancelled"}
    PROVE  Lifecycle!Next /\ ShownInv'
<1>1. CASE d = Sender
  <2>1. \A u \in Transfers : row[d][u].state \notin {"connecting", "transferring"}
    BY <1>1 DEF ShownInv, SenderStates, SenderState
  <2>2. \A u \in Transfers : SenderMoves(u)
    BY <1>1, <2>1 DEF SenderMoves, SenderState
  <2>3. \A u \in Transfers : row'[Receiver][u].state = row[Receiver][u].state
    BY <1>1 DEF Devices, Sender, Receiver
  <2> QED BY <2>2, <2>3, SendingSteps
<1>2. CASE d = Receiver
  <2>1. \A u \in Transfers : ReceivingShown[u] = row[d][u].state /\ ReceivingShown'[u] = row'[d][u].state
    BY <1>2 DEF ReceivingShown, ReceiverState
  <2>2. \A u \in Transfers : ReceivingMove(u)
    BY <2>1 DEF ReceivingMove, Lifecycle!ReceivingMoves, Closes, Lifecycle!Ends, Lifecycle!Runnable
  <2>3. \A u \in Transfers : row'[Sender][u].state = row[Sender][u].state
    BY <1>2 DEF Devices, Sender, Receiver
  <2> QED BY <2>2, <2>3, ReceivingSteps
<1> QED BY <1>1, <1>2 DEF Devices

\* Forgetting, crashes, startup and lost messages are steps of the lifecycle.
LEMMA RuntimeRefines ==
    ASSUME TypeOK, TypeOK', InductiveInv, ShownInv,
           \/ \E t \in Transfers : RestoreAccess(t) \/ RestoreFails(t)
           \/ \E d \in Devices : Forget(d) \/ ForgetDeny(d) \/ Boot(d) \/ Recover(d)
           \/ CrashSender \/ CrashReceiver \/ Online
           \/ \E m \in net : Lose(m)
    PROVE  Lifecycle!Next /\ ShownInv'
<1> USE DEF deviceVars, senderVars, inboxVars, receiverVars
<1>0. Sender \in Devices /\ Receiver \in Devices
  BY DEF Devices
<1>1. CASE \E t \in Transfers : RestoreAccess(t)
  <2>1. OffersKept /\ consented' = consented /\ neg' = neg /\ row' = row
    BY <1>1 DEF RestoreAccess, OffersKept
  <2> QED
    BY <2>1, QuietSteps
<1>2. ASSUME NEW t \in Transfers, RestoreFails(t) PROVE Lifecycle!Next /\ ShownInv'
  <2>1. /\ OffersKept /\ consented' = consented /\ neg' = neg
        /\ SetRow(Sender, t, FailResumable(row[Sender][t]))
    BY <1>2 DEF RestoreFails, OffersKept
  <2>2. Closes(row[Sender][t].state, FailResumable(row[Sender][t]).state)
    BY <1>0, ClosingOps DEF TypeOK
  <2> QED
    BY <1>0, <2>1, <2>2, ClosingStep
<1>3. CASE \E d \in Devices : Forget(d)
  <2>1. OffersKept /\ consented' = consented /\ neg' = neg /\ row' = row
    BY <1>3 DEF Forget, DiscardAt, Discard, OffersKept
  <2> QED
    BY <2>1, QuietSteps
<1>4. ASSUME NEW d \in Devices, ForgetDeny(d) PROVE Lifecycle!Next /\ ShownInv'
  <2>1. OffersKept /\ consented' = consented /\ neg' = neg
    BY <1>4 DEF ForgetDeny, OffersKept
  <2>2. \A u \in Transfers : Closes(row[d][u].state, CancelByPeer(row[d][u]).state)
    BY ClosingOps DEF TypeOK
  <2>3. \A u \in Transfers : row'[d][u] = CancelByPeer(row[d][u])
    BY <1>4 DEF ForgetDeny, TypeOK
  <2>4. \A e \in Devices \ {d}, u \in Transfers : row'[e][u].state = row[e][u].state
    BY <1>4 DEF ForgetDeny, TypeOK
  <2> QED
    BY <2>1, <2>2, <2>3, <2>4, ClosingSteps
<1>5. CASE \E d \in Devices : Boot(d)
  <2>1. OffersKept /\ consented' = consented /\ neg' = neg /\ row' = row
    BY <1>5 DEF Boot, OffersKept
  <2> QED
    BY <2>1, QuietSteps
<1>6. ASSUME NEW d \in Devices, Recover(d) PROVE Lifecycle!Next /\ ShownInv'
  <2>1. OffersKept /\ consented' = consented /\ neg' = neg
    BY <1>6 DEF Recover, OffersKept
  <2>2. \A u \in Transfers : row'[d][u] = Recovered(d, row[d][u])
    BY <1>6 DEF Recover, TypeOK
  <2>3. \A e \in Devices \ {d}, u \in Transfers : row'[e][u].state = row[e][u].state
    BY <1>6 DEF Recover, TypeOK
  <2>4. \A u \in Transfers : row[d][u] \in Records
    BY DEF TypeOK
  <2> QED
    BY <2>1, <2>2, <2>3, <2>4, RecoveredMoves, ClosingSteps
<1>7. CASE CrashSender
  <2>1. OffersKept
    BY <1>7 DEF CrashSender, Crash, OffersKept, TypeOK, Early
  <2>2. consented' = consented /\ row' = row
    BY <1>7 DEF CrashSender, Crash
  <2>3. \A u \in Transfers : neg'[u] = IF neg[u] = "idle" THEN "idle" ELSE "done"
    BY <1>7 DEF CrashSender
  <2>4. \A u \in Transfers : neg[u] \in Early => SenderState(u) = "absent"
    BY DEF InductiveInv, NegotiationInv, Early
  <2>5. \A u \in Transfers : SenderMoves(u)
    BY <2>2, <2>3, <2>4 DEF SenderMoves, Closes, SenderState, Early
  <2> QED
    BY <2>1, <2>2, <2>5, SendingSteps
<1>8. CASE CrashReceiver
  <2>1. OffersKept /\ consented' = consented /\ neg' = neg /\ row' = row
    BY <1>8 DEF CrashReceiver, Crash, OffersKept, TypeOK
  <2> QED
    BY <2>1, QuietSteps
<1>9. CASE Online
  <2>1. OffersKept /\ consented' = consented /\ neg' = neg /\ row' = row
    BY <1>9 DEF Online, OffersKept
  <2> QED
    BY <2>1, QuietSteps
<1>10. CASE \E m \in net : Lose(m)
  <2>1. OffersKept /\ consented' = consented /\ neg' = neg /\ row' = row
    BY <1>10 DEF Lose, OffersKept
  <2> QED
    BY <2>1, QuietSteps
<1> QED
  BY <1>1, <1>2, <1>3, <1>4, <1>5, <1>6, <1>7, <1>8, <1>9, <1>10

\* Every step keeps ShownInv and is a step of the lifecycle or leaves it alone.
LEMMA LifecycleStep ==
    ASSUME TypeOK, TypeOK', InductiveInv, ShownInv, [Next]_vars
    PROVE  ShownInv' /\ [Lifecycle!Next]_(Lifecycle!vars)
<1>1. CASE UNCHANGED vars
  <2>1. SendingShown' = SendingShown /\ ReceivingShown' = ReceivingShown /\ consented' = consented
    BY <1>1 DEF vars, deviceVars, senderVars, receiverVars, SendingShown, ReceivingShown,
                SenderState, ReceiverState
  <2>2. ShownInv'
    BY <1>1 DEF vars, deviceVars, senderVars, receiverVars, inboxVars, ShownInv, OfferInv,
                SenderState
  <2> QED BY <2>1, <2>2 DEF Lifecycle!vars
<1>2. CASE Next
  BY <1>2, SenderRefines, ReceiverRefines, DeviceRefines, RuntimeRefines DEF Next
<1> QED BY <1>1, <1>2

LEMMA InitialShown == Init => ShownInv /\ Lifecycle!Init
  BY DEF Init, ShownInv, OfferInv, SenderStates, RowStates, States, SenderState, ReceiverState,
         NoRecord, SendingShown, ReceivingShown, Lifecycle!Init, Early, Devices, Sender, Receiver

\* The parts of the invariant behind the refinement hold in every reachable state.
THEOREM ShownInductive == Spec => [](TypeOK /\ InductiveInv /\ ShownInv)
<1>1. TypeOK /\ TypeOK' /\ InductiveInv /\ ShownInv /\ [Next]_vars => ShownInv'
  BY LifecycleStep
<1> QED BY <1>1, InitialShown, Inductive, PTL DEF Spec

(***************************************************************************)
(* Refinement: for any number of transfers, any commands and any number of *)
(* crashes, what the two devices show of a transfer follows                *)
(* TargetedLifecycle.  Approval comes after the receiving user's consent,  *)
(* completion at the sender after the receiver's, an ended record never    *)
(* runs again, and one device's states move at a time.                     *)
(***************************************************************************)
THEOREM ShowsLifecycle == Spec => ImplementsLifecycle
<1>1. TypeOK /\ TypeOK' /\ InductiveInv /\ ShownInv /\ [Next]_vars => [Lifecycle!Next]_(Lifecycle!vars)
  BY LifecycleStep
<1> QED
  BY <1>1, InitialShown, ShownInductive, PTL DEF Spec, ImplementsLifecycle, Lifecycle!Spec
===============================================================================
