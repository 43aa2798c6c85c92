---------------------------- MODULE TargetedSender ---------------------------
(***************************************************************************)
(* The sending end of a Targeted transfer: preparation and registration,   *)
(* the offer's negotiation, the approval transaction, durable delivery of  *)
(* the authorization, and the receiver's completion.                       *)
(***************************************************************************)
EXTENDS TargetedDevice

\* Everything a negotiation step leaves alone, and the step it moves to.
Negotiate(t, from, to) ==
    /\ Running(Sender)
    /\ neg[t] = from
    /\ neg' = [neg EXCEPT ![t] = to]
    /\ UNCHANGED <<up, saved, job, crashes, delivering, restoring, receiverVars>>

(***************************************************************************)
(* prepare_targeted_transfer.  The payload is imported, tagged and served  *)
(* default-deny before the transfer has a row.                             *)
(***************************************************************************)
Prepare(t) ==
    /\ saved[Sender]
    /\ Negotiate(t, "idle", "imported")
    /\ tag' = tag \cup {t}
    /\ served' = served \cup {t}
    /\ UNCHANGED <<row, secrets, net, granted>>

\* begin_registration finds a stop request: the import is torn down.
StopBeforeRegistration(t) ==
    /\ <<Sender, "stop">> \in Commands
    /\ Negotiate(t, "imported", "done")
    /\ TeardownPayload(t)
    /\ UNCHANGED <<row, secrets, net>>

RegisterInsert(t) ==
    /\ Negotiate(t, "imported", "registering")
    /\ SetRow(Sender, t, Insert(row[Sender][t]))
    /\ UNCHANGED <<secrets, net, tag, served, granted>>

\* The state change of register_sender; it fails when a stop got there first.
RegisterOffering(t) ==
    LET r == row[Sender][t]
        ok == CanSetState(r, "preparing", "offering") IN
    /\ Negotiate(t, "registering", IF ok THEN "registered" ELSE "teardown")
    /\ SetRow(Sender, t, SetState(r, "preparing", "offering"))
    /\ UNCHANGED <<secrets, net, tag, served, granted>>

(***************************************************************************)
(* continue_targeted_transfer.                                             *)
(***************************************************************************)
\* No address, no challenge, or no proof of the saved relationship.
ContactFails(t) ==
    /\ Negotiate(t, "registered", "teardown")
    /\ SetRow(Sender, t, SetState(row[Sender][t], "offering", "failed"))
    /\ UNCHANGED <<secrets, net, tag, served, granted>>

SubmitOffer(t) ==
    LET r == row[Sender][t]
        ok == CanSetState(r, "offering", "awaiting_approval") IN
    /\ saved[Sender]
    /\ Negotiate(t, "registered", IF ok THEN "waiting" ELSE "teardown")
    /\ SetRow(Sender, t, SetState(r, "offering", "awaiting_approval"))
    /\ net' = IF ok THEN net \cup {Msg("offer", Receiver, t, "")} ELSE net
    /\ UNCHANGED <<secrets, tag, served, granted>>

\* Fault: the offer call has no timeout.
OfferWaitsForever(t) == neg[t] = "waiting" /\ UNCHANGED vars

\* The offer call fails or times out; its reply will find nobody.
OfferFails(t) ==
    /\ Negotiate(t, "waiting", "teardown")
    /\ SetRow(Sender, t, SetState(row[Sender][t], "awaiting_approval", "failed"))
    /\ net' = net \ StaleReplies("offer_reply", t)
    /\ UNCHANGED <<secrets, tag, served, granted>>

OfferRejected(t, arg) ==
    LET m == Msg("offer_reply", Sender, t, arg)
        to == IF arg = "declined" THEN "declined" ELSE "failed" IN
    /\ arg \in {"declined", "refused"}
    /\ m \in net
    /\ net' = net \ {m}
    /\ Negotiate(t, "waiting", "teardown")
    /\ SetRow(Sender, t, SetState(row[Sender][t], "awaiting_approval", to))
    /\ UNCHANGED <<secrets, tag, served, granted>>

\* Access is granted before the approval is durable.
OfferAccepted(t) ==
    LET m == Msg("offer_reply", Sender, t, "accepted") IN
    /\ m \in net
    /\ net' = net \ {m}
    /\ Negotiate(t, "waiting", "approving")
    /\ granted' = granted \cup {t}
    /\ UNCHANGED <<row, secrets, tag, served>>

ProtectAuthorization(t) ==
    /\ Negotiate(t, "approving", "protected")
    /\ \E h \in Handles \ secrets[Sender][t] :
          secrets' = [secrets EXCEPT ![Sender][t] = @ \cup {h}]
    /\ UNCHANGED <<row, net, tag, served, granted>>

ProtectFails(t) ==
    /\ Negotiate(t, "approving", "teardown")
    /\ SetRow(Sender, t, SetStateFromAny(row[Sender][t], "failed"))
    /\ UNCHANGED <<secrets, net, tag, served, granted>>

\* finalize_sender_authorization_and_enqueue fails unless the row still waits.
Finalize(t) ==
    LET r == row[Sender][t]
        ok == r.state = "awaiting_approval" IN
    /\ Negotiate(t, "protected", IF ok THEN "done" ELSE "rollback")
    /\ \E h \in secrets[Sender][t] : SetRow(Sender, t, FinalizeSender(r, h))
    /\ UNCHANGED <<secrets, net, tag, served, granted>>

\* Fault: the access granted before the approval is not withdrawn.
RollbackKeepsAccess(t) ==
    /\ Negotiate(t, "rollback", "done")
    /\ secrets' = [secrets EXCEPT ![Sender][t] = {}]
    /\ SetRow(Sender, t, SetStateFromAny(row[Sender][t], "failed"))
    /\ UNCHANGED <<net, tag, served, granted>>

Rollback(t) ==
    /\ Negotiate(t, "rollback", "teardown")
    /\ secrets' = [secrets EXCEPT ![Sender][t] = {}]
    /\ SetRow(Sender, t, SetStateFromAny(row[Sender][t], "failed"))
    /\ UNCHANGED <<net, tag, served, granted>>

\* Fault: a failed negotiation keeps its payload.
TeardownNothing(t) ==
    /\ Negotiate(t, "teardown", "done")
    /\ UNCHANGED <<tag, served, granted, row, secrets, net>>

Teardown(t) ==
    /\ Negotiate(t, "teardown", "done")
    /\ TeardownPayload(t)
    /\ UNCHANGED <<row, secrets, net>>

(***************************************************************************)
(* The reconciliation task: one authorization delivery at a time, retried  *)
(* until the receiver has stored it.                                       *)
(***************************************************************************)
Reconcile == UNCHANGED <<up, saved, secrets, job, crashes, neg, restoring, receiverVars>>

DeliverAuthorization(t) ==
    LET r == row[Sender][t] IN
    /\ Running(Sender)
    /\ delivering = None
    /\ r.state = "approved" /\ r.delivery
    /\ r.handle \in secrets[Sender][t]
    /\ delivering' = t
    /\ net' = (net \ StaleReplies("authorization_reply", t))
                 \cup {Msg("authorization", Receiver, t, "")}
    /\ Reconcile
    /\ UNCHANGED <<row, tag, served, granted>>

DeliveryStored(t) ==
    LET m == Msg("authorization_reply", Sender, t, "stored") IN
    /\ delivering = t
    /\ m \in net
    /\ net' = net \ {m}
    /\ delivering' = None
    /\ SetRow(Sender, t, [row[Sender][t] EXCEPT !.delivery = FALSE])
    /\ Reconcile
    /\ UNCHANGED <<tag, served, granted>>

\* Fault: a failed delivery is given up.
DeliveryAbandoned(t) ==
    /\ delivering = t
    /\ delivering' = None
    /\ net' = net \ StaleReplies("authorization_reply", t)
    /\ SetRow(Sender, t, [row[Sender][t] EXCEPT !.delivery = FALSE])
    /\ Reconcile
    /\ UNCHANGED <<tag, served, granted>>

\* Rejected, lost or late: the outbox entry is deferred and stays.
DeliveryDeferred(t) ==
    /\ delivering = t
    /\ delivering' = None
    /\ net' = net \ StaleReplies("authorization_reply", t)
    /\ Reconcile
    /\ UNCHANGED <<row, tag, served, granted>>

\* release_completed_targeted_payloads.
ReleasePayload(t) ==
    /\ Running(Sender)
    /\ row[Sender][t].state = "completed" /\ row[Sender][t].release
    /\ TeardownPayload(t)
    /\ SetRow(Sender, t, [row[Sender][t] EXCEPT !.release = FALSE])
    /\ Reconcile
    /\ UNCHANGED <<net, delivering>>

(***************************************************************************)
(* handle_completion: the claim must carry the authorization of the row,   *)
(* so a row whose ticket is gone rejects it whatever its state.            *)
(***************************************************************************)
RecordsCompletion(r) ==
    saved[Sender] /\ r.handle # None /\ r.state \in Resumable \cup {"completed"}

HandleCompletion(t) ==
    LET m == Msg("completion", Sender, t, "")
        r == row[Sender][t]
        ok == RecordsCompletion(r) IN
    /\ Listening(Sender)
    /\ m \in net
    /\ net' = (net \ {m}) \cup
              Reply("completion_reply", Receiver, t, IF ok THEN "recorded" ELSE "rejected")
    /\ SetRow(Sender, t, IF ok THEN MarkSenderCompleted(r) ELSE r)
    /\ Reconcile
    /\ UNCHANGED <<tag, served, granted, delivering>>

SenderStep(t) ==
    \/ Prepare(t) \/ StopBeforeRegistration(t) \/ RegisterInsert(t) \/ RegisterOffering(t)
    \/ ContactFails(t) \/ SubmitOffer(t) \/ OfferFails(t)
    \/ \E arg \in {"declined", "refused"} : OfferRejected(t, arg)
    \/ OfferAccepted(t) \/ ProtectAuthorization(t) \/ ProtectFails(t)
    \/ Finalize(t) \/ Rollback(t) \/ Teardown(t)
    \/ StopStart(t) \/ StopAbandon(t)
    \/ DeliverAuthorization(t) \/ DeliveryStored(t) \/ DeliveryDeferred(t)
    \/ ReleasePayload(t) \/ HandleCompletion(t)
==============================================================================
