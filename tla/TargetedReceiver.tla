--------------------------- MODULE TargetedReceiver --------------------------
(***************************************************************************)
(* The receiving end of a Targeted transfer: the inbox of offers awaiting  *)
(* a decision, the durable consent, custody of the delivered               *)
(* authorization, the receive itself and its acknowledged completion.      *)
(***************************************************************************)
EXTENDS TargetedDevice

Answer(t, kind, arg, m) == net' = (net \ {m}) \cup Reply(kind, Sender, t, arg)

(***************************************************************************)
(* handle_offer.  The validations that end in a refusal (cooldown, version *)
(* and identity mismatches, limits, relay policy, relationship proof) are  *)
(* one nondeterministic outcome; a sender has one pending offer at most.   *)
(***************************************************************************)
OfferMsg(t) == Msg("offer", Receiver, t, "")

InboxStep == UNCHANGED <<up, saved, secrets, job, crashes, senderVars, authing,
                         run, active, completing>>

OfferRefused(t) ==
    /\ Listening(Receiver)
    /\ OfferMsg(t) \in net
    /\ Answer(t, "offer_reply", "refused", OfferMsg(t))
    /\ InboxStep
    /\ UNCHANGED <<row, inboxVars, consented>>

OfferPending(t) ==
    /\ Listening(Receiver)
    /\ OfferMsg(t) \in net
    /\ saved[Receiver]
    /\ pending = {}
    /\ net' = net \ {OfferMsg(t)}
    /\ pending' = pending \cup {t}
    /\ asking' = [asking EXCEPT ![t] = "open"]
    /\ InboxStep
    /\ UNCHANGED <<row, resp, authw, consented>>

\* wait_existing_decision, for each way the wait can end.
OfferDecidedYes(t) ==
    /\ asking[t] = "yes"
    /\ asking' = [asking EXCEPT ![t] = "idle"]
    /\ net' = net \cup Reply("offer_reply", Sender, t, "accepted")
    /\ InboxStep
    /\ UNCHANGED <<row, pending, resp, authw, consented>>

\* Decision false: the entry is discarded (again).
OfferDecidedNo(t) ==
    /\ asking[t] = "no"
    /\ asking' = [asking EXCEPT ![t] = "idle"]
    /\ pending' = pending \ {t}
    /\ authw' = [authw EXCEPT ![t] = "none"]
    /\ net' = net \cup Reply("offer_reply", Sender, t, "declined")
    /\ InboxStep
    /\ UNCHANGED <<row, resp, consented>>

\* Fault: silence counts as consent.
OfferTimesOutAccepted(t) ==
    /\ asking[t] = "open"
    /\ asking' = [asking EXCEPT ![t] = "idle"]
    /\ pending' = pending \ {t}
    /\ authw' = [authw EXCEPT ![t] = "none"]
    /\ net' = net \cup Reply("offer_reply", Sender, t, "accepted")
    /\ InboxStep
    /\ UNCHANGED <<row, resp, consented>>

\* Nobody decided in time.
OfferTimesOut(t) ==
    /\ asking[t] = "open"
    /\ asking' = [asking EXCEPT ![t] = "idle"]
    /\ pending' = pending \ {t}
    /\ authw' = [authw EXCEPT ![t] = "none"]
    /\ net' = net \cup Reply("offer_reply", Sender, t, "declined")
    /\ InboxStep
    /\ UNCHANGED <<row, resp, consented>>

(***************************************************************************)
(* respond_to_targeted_offer.  Consent is durable before the decision      *)
(* reaches the sender; the call then waits for the authorization.          *)
(***************************************************************************)
RespondAccept(t) ==
    /\ Running(Receiver)
    /\ resp[t] = "idle"
    /\ row[Receiver][t].state = "absent"
    /\ t \in pending
    /\ resp' = [resp EXCEPT ![t] = "accepting"]
    /\ InboxStep
    /\ UNCHANGED <<row, net, pending, asking, authw, consented>>

\* The offer may have been withdrawn since it was looked up.
PersistConsent(t) ==
    /\ resp[t] = "accepting"
    /\ SetRow(Receiver, t, PersistIntent(row[Receiver][t]))
    /\ consented' = consented \cup {t}
    /\ resp' = [resp EXCEPT ![t] = "intent"]
    /\ InboxStep
    /\ UNCHANGED <<net, pending, asking, authw>>

\* accept_live: the offer is gone, its caller is gone, or the decision is sent.
AcceptLive(t) ==
    LET live == t \in pending /\ asking[t] \in {"open", "yes"} IN
    /\ resp[t] = "intent"
    /\ resp' = [resp EXCEPT ![t] = IF live THEN "waiting" ELSE "idle"]
    /\ asking' = [asking EXCEPT ![t] = IF live THEN "yes" ELSE @]
    /\ authw' = [authw EXCEPT ![t] = IF live THEN "empty" ELSE @]
    /\ InboxStep
    /\ UNCHANGED <<row, net, pending, consented>>

RespondDecline(t) ==
    /\ Running(Receiver)
    /\ resp[t] = "idle"
    /\ row[Receiver][t].state = "absent"
    /\ t \in pending
    /\ Discard({t})
    /\ SetRow(Receiver, t, ClearIntent(row[Receiver][t]))
    /\ InboxStep
    /\ UNCHANGED <<net, consented>>

\* wait_for_authorization ends with the authorization ...
AuthorizationReceived(t) ==
    /\ resp[t] = "waiting" /\ authw[t] = "full"
    /\ resp' = [resp EXCEPT ![t] = "idle"]
    /\ authw' = [authw EXCEPT ![t] = "none"]
    /\ pending' = pending \ {t}
    /\ InboxStep
    /\ UNCHANGED <<row, net, asking, consented>>

\* ... or without it; the offer stays in the inbox.
AuthorizationTimesOut(t) ==
    /\ resp[t] = "waiting" /\ authw[t] # "full"
    /\ resp' = [resp EXCEPT ![t] = "idle"]
    /\ authw' = [authw EXCEPT ![t] = "none"]
    /\ InboxStep
    /\ UNCHANGED <<row, net, pending, asking, consented>>

(***************************************************************************)
(* handle_authorization (persist_receiver).  A known transfer answers at   *)
(* once; an unknown one protects the secret first and commits it together  *)
(* with the consumed consent.                                              *)
(***************************************************************************)
AuthMsg(t) == Msg("authorization", Receiver, t, "")

Wake(t) == authw' = [authw EXCEPT ![t] = IF @ = "empty" THEN "full" ELSE @]

AuthorizationStep ==
    UNCHANGED <<up, saved, job, crashes, senderVars, pending, asking, resp, run,
                active, completing, consented>>

AuthorizationKnown(t) ==
    LET r == row[Receiver][t]
        exact == /\ saved[Receiver]
                 /\ r.state \in Resumable \cup {"completed"}
                 /\ r.handle \in secrets[Receiver][t] IN
    /\ Listening(Receiver)
    /\ AuthMsg(t) \in net
    /\ r.state # "absent" \/ ~saved[Receiver]
    /\ Answer(t, "authorization_reply", IF exact THEN "stored" ELSE "rejected", AuthMsg(t))
    /\ IF exact THEN Wake(t) ELSE UNCHANGED authw
    /\ AuthorizationStep
    /\ UNCHANGED <<row, secrets, authing>>

AuthorizationProtect(t) ==
    /\ Listening(Receiver)
    /\ AuthMsg(t) \in net
    /\ saved[Receiver]
    /\ row[Receiver][t].state = "absent"
    /\ net' = net \ {AuthMsg(t)}
    /\ \E h \in Handles \ secrets[Receiver][t] :
          /\ secrets' = [secrets EXCEPT ![Receiver][t] = @ \cup {h}]
          /\ authing' = [authing EXCEPT ![t] = @ \cup {h}]
    /\ AuthorizationStep
    /\ UNCHANGED <<row, authw>>

AuthorizationCommit(t, h) ==
    LET r == row[Receiver][t] IN
    /\ h \in authing[t]
    /\ CanPersistReceiver(r)
    /\ authing' = [authing EXCEPT ![t] = @ \ {h}]
    /\ SetRow(Receiver, t, PersistReceiver(r, h))
    /\ Wake(t)
    /\ net' = net \cup Reply("authorization_reply", Sender, t, "stored")
    /\ AuthorizationStep
    /\ UNCHANGED secrets

\* Fault: the rollback removes every secret of the transfer.
RollbackAllSecrets(t, h) ==
    /\ h \in authing[t]
    /\ ~CanPersistReceiver(row[Receiver][t])
    /\ authing' = [authing EXCEPT ![t] = @ \ {h}]
    /\ secrets' = [secrets EXCEPT ![Receiver][t] = {}]
    /\ net' = net \cup Reply("authorization_reply", Sender, t, "rejected")
    /\ AuthorizationStep
    /\ UNCHANGED <<row, authw>>

AuthorizationRollback(t, h) ==
    /\ h \in authing[t]
    /\ ~CanPersistReceiver(row[Receiver][t])
    /\ authing' = [authing EXCEPT ![t] = @ \ {h}]
    /\ secrets' = [secrets EXCEPT ![Receiver][t] = @ \ {h}]
    /\ net' = net \cup Reply("authorization_reply", Sender, t, "rejected")
    /\ AuthorizationStep
    /\ UNCHANGED <<row, authw>>

(***************************************************************************)
(* run_targeted_receive.  The active entry is the cancellation signal: a   *)
(* run whose entry is gone has been told to stop.                          *)
(***************************************************************************)
RunStep(t, from, to) ==
    /\ run[t] = from
    /\ run' = [run EXCEPT ![t] = to]
    /\ UNCHANGED <<up, saved, secrets, job, crashes, senderVars, inboxVars, authing,
                   completing, consented>>

\* load_receiver_authorization, then the active entry.
ReceiveStart(t) ==
    /\ Running(Receiver)
    /\ row[Receiver][t].handle \in secrets[Receiver][t]
    /\ t \notin active
    /\ active' = active \cup {t}
    /\ RunStep(t, "idle", "active")
    /\ UNCHANGED <<row, net>>

\* begin_receive, two state changes.
ReceiveConnecting(t) ==
    LET r == row[Receiver][t]
        ok == r.state \in {"approved", "interrupted"} IN
    /\ RunStep(t, "active", IF ok THEN "connecting" ELSE "ending")
    /\ SetRow(Receiver, t, IF ok THEN SetState(r, r.state, "connecting") ELSE r)
    /\ UNCHANGED <<net, active>>

ReceiveTransferring(t) ==
    LET r == row[Receiver][t]
        ok == CanSetState(r, "connecting", "transferring") IN
    /\ RunStep(t, "connecting", IF ok THEN "downloading" ELSE "ending")
    /\ SetRow(Receiver, t, SetState(r, "connecting", "transferring"))
    /\ UNCHANGED <<net, active>>

\* The whole payload arrived; the sender's provider let every blob through.
PayloadArrives(t) ==
    /\ t \in active
    /\ Listening(Sender) /\ t \in served \cap granted
    /\ RunStep(t, "downloading", "downloaded")
    /\ UNCHANGED <<row, net, active>>

\* Cancelled, refused or cut off: the durable state becomes interrupted, if it
\* is still in flight.
PayloadFails(t) ==
    LET r == row[Receiver][t] IN
    /\ RunStep(t, "downloading", "ending")
    /\ SetRow(Receiver, t, IF r.state \in {"connecting", "transferring"}
                           THEN SetState(r, r.state, "interrupted") ELSE r)
    /\ UNCHANGED <<net, active>>

CompletionMsg(t) == Msg("completion", Sender, t, "")
CallCompletion(t) == net' = (net \ StaleReplies("completion_reply", t)) \cup {CompletionMsg(t)}

\* Fault: the sender is told whether or not the durable state changed.
CompleteUnchecked(t) ==
    /\ RunStep(t, "downloaded", "acking")
    /\ SetRow(Receiver, t, CompleteReceiver(row[Receiver][t]))
    /\ CallCompletion(t)
    /\ UNCHANGED active

\* complete_receiver and its first acknowledgement.
ReceiveComplete(t) ==
    LET r == row[Receiver][t]
        ok == r.state = "transferring" IN
    /\ RunStep(t, "downloaded", IF ok THEN "acking" ELSE "ending")
    /\ SetRow(Receiver, t, CompleteReceiver(r))
    /\ IF ok THEN CallCompletion(t) ELSE UNCHANGED net
    /\ UNCHANGED active

Recorded(t) == Msg("completion_reply", Receiver, t, "recorded")
ClearCompletion(t) == SetRow(Receiver, t, [row[Receiver][t] EXCEPT !.completion = FALSE])

ReceiveAcknowledged(t) ==
    /\ Recorded(t) \in net
    /\ RunStep(t, "acking", "ending")
    /\ net' = net \ {Recorded(t)}
    /\ ClearCompletion(t)
    /\ UNCHANGED active

\* Fault: the outbox entry is deleted although nobody acknowledged it.
UnacknowledgedForgotten(t) ==
    /\ RunStep(t, "acking", "ending")
    /\ net' = net \ StaleReplies("completion_reply", t)
    /\ ClearCompletion(t)
    /\ UNCHANGED active

ReceiveUnacknowledged(t) ==
    /\ RunStep(t, "acking", "ending")
    /\ net' = net \ StaleReplies("completion_reply", t)
    /\ UNCHANGED <<row, active>>

ReceiveEnd(t) ==
    /\ RunStep(t, "ending", "idle")
    /\ active' = active \ {t}
    /\ UNCHANGED <<row, net>>

(***************************************************************************)
(* retry_targeted_completions.                                             *)
(***************************************************************************)
RetryStep == UNCHANGED <<up, saved, secrets, job, crashes, senderVars, inboxVars,
                         authing, run, active, consented>>

RetryCompletion(t) ==
    LET r == row[Receiver][t] IN
    /\ Running(Receiver)
    /\ completing = None
    /\ r.state = "completed" /\ r.completion
    /\ r.handle \in secrets[Receiver][t]
    /\ completing' = t
    /\ CallCompletion(t)
    /\ RetryStep
    /\ UNCHANGED row

RetryAcknowledged(t) ==
    /\ completing = t
    /\ Recorded(t) \in net
    /\ net' = net \ {Recorded(t)}
    /\ completing' = None
    /\ ClearCompletion(t)
    /\ RetryStep

RetryDeferred(t) ==
    /\ completing = t
    /\ net' = net \ StaleReplies("completion_reply", t)
    /\ completing' = None
    /\ RetryStep
    /\ UNCHANGED row

ReceiverStep(t) ==
    \/ OfferRefused(t) \/ OfferPending(t)
    \/ OfferDecidedYes(t) \/ OfferDecidedNo(t) \/ OfferTimesOut(t)
    \/ RespondAccept(t) \/ PersistConsent(t) \/ AcceptLive(t) \/ RespondDecline(t)
    \/ AuthorizationReceived(t) \/ AuthorizationTimesOut(t)
    \/ AuthorizationKnown(t) \/ AuthorizationProtect(t)
    \/ \E h \in Handles : AuthorizationCommit(t, h) \/ AuthorizationRollback(t, h)
    \/ ReceiveStart(t) \/ ReceiveConnecting(t) \/ ReceiveTransferring(t)
    \/ PayloadArrives(t) \/ PayloadFails(t) \/ ReceiveComplete(t)
    \/ ReceiveAcknowledged(t) \/ ReceiveUnacknowledged(t) \/ ReceiveEnd(t)
    \/ RetryCompletion(t) \/ RetryAcknowledged(t) \/ RetryDeferred(t)
    \/ \E arg \in {"withdrawn", "cancelled", "deleted"} : CancelPendingOffer(t, arg)
==============================================================================
