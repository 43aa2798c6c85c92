---------------------------- MODULE TargetedStore ----------------------------
(***************************************************************************)
(* The durable record a device keeps of one Targeted transfer, and the     *)
(* SQL statements and transactions that change it.  Every operator that    *)
(* returns a record is one transaction of targeted_transfer/store.rs or    *)
(* store_outbox.rs: it commits as a whole or leaves the record alone.      *)
(*                                                                         *)
(* A record joins the rows of five tables that share the transfer id:      *)
(* targeted_transfers (state, handle), the accepted-offer intents          *)
(* (intent), and the three outboxes (delivery, completion, release), whose *)
(* foreign keys cascade when the transfer row is deleted.  blob_ticket and *)
(* authorization_secret_handle are always written and cleared together, so *)
(* one field, handle, stands for both.                                     *)
(***************************************************************************)
CONSTANTS
    Handles,    \* names of secrets in protected custody
    None        \* no handle, no transfer, no reply

ASSUME NoneIsNoHandle == None \notin Handles

(***************************************************************************)
(* Transfer states (api.rs TargetedTransferState); "absent" means that the *)
(* transfer has no row.                                                    *)
(***************************************************************************)
Preapproval == {"preparing", "offering", "awaiting_approval"}
Resumable   == {"approved", "connecting", "transferring", "interrupted"}
Terminal    == {"completed", "declined", "cancelled", "failed", "deleted"}
States      == Preapproval \cup Resumable \cup Terminal
RowStates   == States \cup {"absent"}

Records == [state      : RowStates,
            handle     : Handles \cup {None},
            intent     : BOOLEAN,
            delivery   : BOOLEAN,
            completion : BOOLEAN,
            release    : BOOLEAN]

NoRecord == [state |-> "absent", handle |-> None, intent |-> FALSE,
             delivery |-> FALSE, completion |-> FALSE, release |-> FALSE]

(***************************************************************************)
(* TargetedTransferState::validate_transition_to.                          *)
(***************************************************************************)
Validated ==
    { <<"preparing", "offering">>,        <<"offering", "awaiting_approval">>,
      <<"awaiting_approval", "approved">>, <<"awaiting_approval", "declined">>,
      <<"approved", "connecting">>,       <<"interrupted", "connecting">>,
      <<"connecting", "transferring">>,   <<"connecting", "interrupted">>,
      <<"transferring", "interrupted">>,  <<"transferring", "completed">> }
    \cup ((Preapproval \cup Resumable) \X {"cancelled", "failed"})

ValidateTransition(from, to) ==
    \/ from # "deleted" /\ to = "deleted"
    \/ <<from, to>> \in Validated

\* set_state: a compare-and-set on the state the caller expects.
CanSetState(r, from, to) == r.state = from /\ ValidateTransition(from, to)

SetState(r, from, to) ==
    IF CanSetState(r, from, to) THEN [r EXCEPT !.state = to] ELSE r

\* set_state_from_any: validate the transition from the state just read.
SetStateFromAny(r, to) == SetState(r, r.state, to)

\* Fault: the lifecycle event's name is stored instead of the state.
InsertCreated(r) == [r EXCEPT !.state = "created"]

\* register_sender's insert.
Insert(r) == [r EXCEPT !.state = "preparing"]

\* Fault: the DELETE has lost its condition on the state.
AbandonUnconditionally(r) == [NoRecord EXCEPT !.intent = r.intent]

\* abandon_sender_preapproval: a conditional DELETE that cascades to the outboxes.
AbandonSenderPreapproval(r) ==
    IF r.state \in Preapproval THEN [NoRecord EXCEPT !.intent = r.intent] ELSE r

\* finalize_sender_authorization_and_enqueue.
FinalizeSender(r, h) ==
    IF r.state = "awaiting_approval"
    THEN [r EXCEPT !.state = "approved", !.handle = h, !.delivery = TRUE]
    ELSE r

\* mark_sender_completed.
MarkSenderCompleted(r) ==
    IF r.state \in Resumable
    THEN [r EXCEPT !.state = "completed", !.delivery = FALSE, !.release = TRUE]
    ELSE IF r.state = "completed" THEN [r EXCEPT !.delivery = FALSE] ELSE r

\* persist_accepted_offer_intent, and the statements that delete the consent.
PersistIntent(r) == [r EXCEPT !.intent = TRUE]
ClearIntent(r)   == [r EXCEPT !.intent = FALSE]

\* persist_receiver_authorization_and_consume_intent: the insert fails when a
\* row exists, and the whole transaction when no consent is recorded.
CanPersistReceiver(r) == r.intent /\ r.state = "absent"

PersistReceiver(r, h) ==
    [r EXCEPT !.state = "approved", !.handle = h, !.intent = FALSE]

\* Fault: the completion is not enqueued with the state change.
CompleteWithoutEnqueue(r) ==
    IF r.state = "transferring" THEN [r EXCEPT !.state = "completed"] ELSE r

\* complete_receiver_and_enqueue.
CompleteReceiver(r) ==
    IF r.state = "transferring"
    THEN [r EXCEPT !.state = "completed", !.completion = TRUE]
    ELSE r

\* clear_authorization.
ClearAuthorization(r) ==
    [r EXCEPT !.handle = None, !.delivery = FALSE,
              !.completion = FALSE, !.release = FALSE]

\* Fault: the guarded UPDATE overwrites any state but its own.
DeniedFromAnyState(r, to) == to \in {"deleted", "cancelled"} /\ r.state \notin {"absent", to}

\* transition_terminal: consent and outboxes are deleted whether or not the
\* guarded UPDATE finds a row it may change.
DeniedBy(r, to) ==
    \/ to = "deleted" /\ r.state \notin {"absent", "deleted"}
    \/ to = "cancelled" /\ r.state \in Preapproval \cup Resumable

TransitionTerminal(r, to, clear) ==
    [r EXCEPT !.intent     = FALSE,
              !.delivery   = FALSE,
              !.completion = IF clear THEN FALSE ELSE r.completion,
              !.release    = IF clear THEN FALSE ELSE r.release,
              !.state      = IF DeniedBy(r, to) THEN to ELSE r.state,
              !.handle     = IF DeniedBy(r, to) /\ clear THEN None ELSE r.handle]

\* Fault: only offers are cancelled, approved transfers are left alone.
CancelOffersByPeer(r) ==
    [r EXCEPT !.intent = FALSE,
              !.state  = IF r.state \in Preapproval THEN "cancelled" ELSE @]

\* cancel_by_peer, for one transfer of the peer.
CancelByPeer(r) ==
    [r EXCEPT !.intent   = FALSE,
              !.delivery = FALSE,
              !.state    = IF DeniedBy(r, "cancelled") THEN "cancelled" ELSE @,
              !.handle   = IF DeniedBy(r, "cancelled") THEN None ELSE @]

\* fail_resumable_and_clear_delivery.
FailResumable(r) ==
    IF r.state \in Resumable
    THEN [r EXCEPT !.state = "failed", !.delivery = FALSE]
    ELSE r

\* recover_in_flight: fail_sender_preapproval_on_restart, then
\* mark_interrupted_in_flight.
RecoverInFlight(r) ==
    [r EXCEPT !.state = CASE @ \in Preapproval -> "failed"
                          [] @ \in {"connecting", "transferring"} -> "interrupted"
                          [] OTHER -> @]
==============================================================================
