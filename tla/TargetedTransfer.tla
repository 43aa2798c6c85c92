--------------------------- MODULE TargetedTransfer --------------------------
(***************************************************************************)
(* A sending and a receiving device exchanging Targeted transfers over a   *)
(* wire that loses and delays calls and replies, with either process dying *)
(* and starting again at any step.                                         *)
(***************************************************************************)
EXTENDS TargetedSender, TargetedReceiver

Init ==
    /\ up = [d \in Devices |-> "up"]
    /\ saved = [d \in Devices |-> TRUE]
    /\ row = [d \in Devices |-> [t \in Transfers |-> NoRecord]]
    /\ secrets = [d \in Devices |-> [t \in Transfers |-> {}]]
    /\ job = [d \in Devices |-> [t \in Transfers |-> [w \in Workers |-> NoJob]]]
    /\ net = {} /\ crashes = 0
    /\ tag = {} /\ served = {} /\ granted = {}
    /\ neg = [t \in Transfers |-> "idle"]
    /\ delivering = None /\ restoring = {}
    /\ pending = {}
    /\ asking = [t \in Transfers |-> "idle"]
    /\ resp = [t \in Transfers |-> "idle"]
    /\ authw = [t \in Transfers |-> "none"]
    /\ authing = [t \in Transfers |-> {}]
    /\ run = [t \in Transfers |-> "idle"]
    /\ active = {} /\ completing = None
    /\ consented = {}

\* A call or a reply is lost.
Lose(m) ==
    /\ m \in net
    /\ net' = net \ {m}
    /\ UNCHANGED <<up, saved, row, secrets, job, crashes, senderVars, receiverVars>>

(***************************************************************************)
(* A process dies: what SQLite, custody and the blob store hold survives,  *)
(* and with the connections everything on its way to the device is gone.   *)
(***************************************************************************)
Crash(d) ==
    /\ up[d] # "down"
    /\ crashes < MaxCrashes
    /\ crashes' = crashes + 1
    /\ up' = [up EXCEPT ![d] = "down"]
    /\ job' = [job EXCEPT ![d] = [t \in Transfers |-> [w \in Workers |-> NoJob]]]
    /\ net' = {m \in net : m.to # d}
    /\ UNCHANGED <<saved, row, secrets, tag, consented>>

CrashSender ==
    /\ Crash(Sender)
    /\ served' = {} /\ granted' = {} /\ restoring' = {}
    /\ neg' = [t \in Transfers |-> IF neg[t] = "idle" THEN "idle" ELSE "done"]
    /\ delivering' = None
    /\ UNCHANGED <<inboxVars, authing, run, active, completing>>

CrashReceiver ==
    /\ Crash(Receiver)
    /\ pending' = {} /\ active' = {} /\ completing' = None
    /\ asking' = [t \in Transfers |-> "idle"]
    /\ resp' = [t \in Transfers |-> "idle"]
    /\ authw' = [t \in Transfers |-> "none"]
    /\ authing' = [t \in Transfers |-> {}]
    /\ run' = [t \in Transfers |-> "idle"]
    /\ UNCHANGED <<served, granted, neg, delivering, restoring>>

(***************************************************************************)
(* CoreInner::start: orphaned authorization secrets are removed, then the  *)
(* router is spawned and calls are answered from there on.                 *)
(***************************************************************************)
Boot(d) ==
    /\ up[d] = "down"
    /\ up' = [up EXCEPT ![d] = "starting"]
    /\ secrets' = [secrets EXCEPT ![d] = [t \in Transfers |-> secrets[d][t] \cap {row[d][t].handle}]]
    /\ UNCHANGED <<saved, row, job, net, crashes, senderVars, receiverVars>>

\* recover_in_flight and the sweeps of restore_targeted_transfer_access: rows
\* of a peer that is not saved are cancelled, denied rows lose their secrets.
Recovered(d, r) ==
    LET i == RecoverInFlight(r)
        p == IF saved[d] THEN i ELSE CancelByPeer(i)
    IN  IF \/ p.state \in {"cancelled", "deleted", "failed"} /\ p.handle # None
           \/ d = Receiver /\ ~saved[d] /\ p.handle # None
        THEN ClearAuthorization(p) ELSE p

Recover(d) ==
    /\ up[d] = "starting"
    /\ up' = [up EXCEPT ![d] = IF d = Sender THEN "restoring" ELSE "up"]
    /\ row' = [row EXCEPT ![d] = [t \in Transfers |-> Recovered(d, row[d][t])]]
    /\ secrets' = [secrets EXCEPT ![d] =
                     [t \in Transfers |-> secrets[d][t] \ ({row[d][t].handle} \
                                                  {Recovered(d, row[d][t]).handle})]]
    /\ restoring' = IF d = Sender
                    THEN {t \in Transfers : Recovered(d, row[d][t]).state \in Resumable}
                    ELSE restoring
    /\ tag' = IF d = Sender THEN tag \cap restoring' ELSE tag
    /\ UNCHANGED <<saved, job, net, crashes, served, granted, neg, delivering, receiverVars>>

\* The loop of restore_targeted_transfer_access over the rows it has listed.
RestoreAccess(t) ==
    /\ up[Sender] = "restoring"
    /\ t \in restoring
    /\ restoring' = restoring \ {t}
    /\ tag' = tag \cup {t}
    /\ served' = served \cup {t}
    /\ granted' = granted \cup {t}
    /\ UNCHANGED <<deviceVars, neg, delivering, receiverVars>>

RestoreFails(t) ==
    /\ up[Sender] = "restoring"
    /\ t \in restoring
    /\ restoring' = restoring \ {t}
    /\ SetRow(Sender, t, FailResumable(row[Sender][t]))
    /\ TeardownPayload(t)
    /\ UNCHANGED <<up, saved, secrets, job, net, crashes, neg, delivering, receiverVars>>

Online ==
    /\ up[Sender] = "restoring"
    /\ restoring = {}
    /\ up' = [up EXCEPT ![Sender] = "up"]
    /\ UNCHANGED <<saved, row, secrets, job, net, crashes, senderVars, receiverVars>>

Next ==
    \/ \E t \in Transfers :
          \/ SenderStep(t) \/ ReceiverStep(t)
          \/ \E d \in Devices : DeviceStep(d, t)
          \/ RestoreAccess(t) \/ RestoreFails(t)
    \/ \E d \in Devices : Forget(d) \/ ForgetDeny(d) \/ Boot(d) \/ Recover(d)
    \/ CrashSender \/ CrashReceiver \/ Online
    \/ \E m \in net : Lose(m)

Spec == Init /\ [][Next]_vars

(***************************************************************************)
(* Fairness.  Tokio keeps running spawned tasks, timers fire, the two      *)
(* second reconciliation tick recurs, and a dead process is started again; *)
(* users owe nothing.  A call that is retried for ever gets through.       *)
(***************************************************************************)
NegotiationStep(t) ==
    \/ RegisterInsert(t) \/ RegisterOffering(t) \/ ContactFails(t) \/ SubmitOffer(t)
    \/ OfferFails(t) \/ OfferAccepted(t) \/ \E arg \in {"declined", "refused"} : OfferRejected(t, arg)
    \/ ProtectAuthorization(t) \/ ProtectFails(t) \/ Finalize(t) \/ Rollback(t) \/ Teardown(t)

StopStep(d, t, w) ==
    \/ w = "local" /\ d = Sender /\ StopAbandon(t)
    \/ w = "local" /\ Deny(d, t)
    \/ w = "wire" /\ DenyFromPeer(d, t)
    \/ w = "forget" /\ ForgetDeny(d)
    \/ Cleanup(d, t, w) \/ CleanupClear(d, t, w)

Fairness ==
    /\ \A t \in Transfers :
          /\ WF_vars(NegotiationStep(t))
          /\ WF_vars(RestoreAccess(t) \/ RestoreFails(t))
          /\ WF_vars(DeliverAuthorization(t)) /\ WF_vars(DeliveryDeferred(t))
          /\ WF_vars(ReleasePayload(t))
          /\ WF_vars(RetryCompletion(t)) /\ WF_vars(RetryDeferred(t))
          /\ SF_vars(AuthorizationProtect(t)) /\ SF_vars(HandleCompletion(t))
          /\ \A h \in Handles : WF_vars(AuthorizationCommit(t, h) \/ AuthorizationRollback(t, h))
          /\ \A d \in Devices, w \in Workers : WF_vars(StopStep(d, t, w))
    /\ \A d \in Devices : WF_vars(Boot(d)) /\ WF_vars(Recover(d))
    /\ WF_vars(Online)

FairSpec == Spec /\ Fairness

(***************************************************************************)
(* Properties.                                                             *)
(***************************************************************************)
\* Every variable has its type.
TypeOK ==
    /\ up \in [Devices -> Phases]
    /\ saved \in [Devices -> BOOLEAN]
    /\ row \in [Devices -> [Transfers -> Records]]
    /\ secrets \in [Devices -> [Transfers -> SUBSET Handles]]
    /\ job \in [Devices -> [Transfers -> [Workers -> Jobs]]]
    /\ net \in SUBSET Messages
    /\ crashes \in Nat
    /\ tag \in SUBSET Transfers /\ served \in SUBSET Transfers
    /\ granted \in SUBSET Transfers
    /\ neg \in [Transfers -> NegSteps]
    /\ delivering \in Transfers \cup {None} /\ restoring \in SUBSET Transfers
    /\ pending \in SUBSET Transfers
    /\ asking \in [Transfers -> AskSteps]
    /\ resp \in [Transfers -> RespSteps]
    /\ authw \in [Transfers -> WaitSteps]
    /\ authing \in [Transfers -> SUBSET Handles]
    /\ run \in [Transfers -> RunSteps]
    /\ active \in SUBSET Transfers /\ completing \in Transfers \cup {None}
    /\ consented \in SUBSET Transfers

SenderState(t)   == row[Sender][t].state
ReceiverState(t) == row[Receiver][t].state

\* No transfer is authorized at either end unless the receiving user accepted
\* its offer: the receiver has a row, and the sender has approved, only then
\* (respond_to_targeted_offer, the intent check of persist_receiver...).
ConsentBeforeAuthority ==
    \A t \in Transfers :
        (ReceiverState(t) # "absent" \/ SenderState(t) \in Resumable \cup {"completed"})
            => t \in consented

\* The receiver never holds an authorization the sender's records deny: once
\* the receiver has a row, the sender approved durably and can no longer have
\* abandoned, declined or lost the transfer (stop/approval race).
ReceiverFollowsApproval ==
    \A t \in Transfers :
        ReceiverState(t) # "absent" =>
            SenderState(t) \in Resumable \cup {"completed", "cancelled", "failed", "deleted"}

\* A sender that shows a transfer as completed tells the truth: the receiver
\* completed it durably (handle_completion, complete_receiver).
CompletedTruthfully ==
    \A t \in Transfers :
        SenderState(t) = "completed" => ReceiverState(t) \in {"completed", "deleted"}

\* A transfer that can still run has its authorization: the row names a secret
\* that is in custody, at both ends and through crashes.
LiveAuthorizationUsable ==
    \A d \in Devices, t \in Transfers :
        row[d][t].state \in Resumable => row[d][t].handle \in secrets[d][t]

\* Work in progress that ends by withdrawing the access of t.
WithdrawalUnderway(t) ==
    \/ neg[t] \in {"approving", "protected", "rollback", "teardown"}
    \/ \E w \in Workers : job[Sender][t][w].step \in {"abandon", "deny", "cleanup"}
    \/ SenderState(t) = "completed" /\ row[Sender][t].release

\* Content is served to the receiver only for a transfer the sender may still
\* run, up to work already under way that withdraws it (default deny).
AccessOnlyWhileLive ==
    \A t \in granted : SenderState(t) \in Resumable \/ WithdrawalUnderway(t)

\* Until the sender knows, a completed receive is still owed its
\* acknowledgement and able to send it ("acknowledged to the sender with
\* idempotent retry"), as long as the receiver keeps the sender saved.
CompletionStillOwed ==
    \A t \in Transfers :
        (ReceiverState(t) = "completed" /\ SenderState(t) \in Resumable /\ saved[Receiver]) =>
            row[Receiver][t].completion /\ row[Receiver][t].handle \in secrets[Receiver][t]

\* After forget or block has run to its end, or startup has swept, nothing the
\* device keeps lets a transfer with that peer run.
Forgotten(d, t) == ~saved[d] /\ Running(d) /\ job[d][t]["forget"].step = "idle"

\* A sender that forgot the receiver neither runs nor serves a transfer to it,
\* also when an offer or an approval was under way ("durably deny reuse").
ForgottenReceiverIsDenied ==
    \A t \in Transfers : Forgotten(Sender, t) =>
        /\ SenderState(t) \notin Resumable
        /\ t \in granted => WithdrawalUnderway(t)

\* A receiver that forgot the sender keeps no transfer of it that it could run,
\* also when a response or a delivery was under way ("durably deny reuse").
ForgottenSenderIsDenied ==
    \A t \in Transfers : Forgotten(Receiver, t) => ReceiverState(t) \notin Resumable

\* What the two devices show implements TargetedLifecycle.
SendingShown ==
    [t \in Transfers |-> IF SenderState(t) = "absent" /\ neg[t] \notin {"idle", "imported"}
                         THEN "gone" ELSE SenderState(t)]
ReceivingShown == [t \in Transfers |-> ReceiverState(t)]

Lifecycle == INSTANCE TargetedLifecycle WITH sending <- SendingShown, receiving <- ReceivingShown

ImplementsLifecycle == Lifecycle!Spec

\* A registered transfer that was stopped, ended or was cut off by a crash does
\* not keep its payload: tag, hash registrations and access all go.
PayloadIsReleased ==
    \A t \in Transfers :
        (neg[t] = "done" /\ SenderState(t) \notin Resumable)
            ~> (t \notin tag \cup served \cup granted)

\* Every negotiation ends, whatever is lost.
NegotiationEnds ==
    \A t \in Transfers : (neg[t] \notin {"idle", "done"}) ~> (neg[t] = "done")

\* The authorization of an approved transfer reaches the receiver while its
\* consent stands, across crashes of either device and lost calls.
AuthorizationIsDelivered ==
    \A t \in Transfers :
        (SenderState(t) = "approved" /\ row[Receiver][t].intent)
            ~> (ReceiverState(t) # "absent" \/ SenderState(t) # "approved"
                \/ ~row[Receiver][t].intent)

\* The sender learns of a completed receive, or its own record has ended.
CompletionIsAcknowledged ==
    \A t \in Transfers :
        (ReceiverState(t) = "completed") ~> (SenderState(t) \in Terminal)

(***************************************************************************)
(* The inductive invariant behind ConsentBeforeAuthority,                  *)
(* ReceiverFollowsApproval, CompletedTruthfully and                        *)
(* LiveAuthorizationUsable: it says what every message, task and snapshot  *)
(* in flight already knows about the two durable records.                  *)
(***************************************************************************)
\* Whatever leads to authority was set off by the user's acceptance.
ConsentInv(t) ==
    (\/ asking[t] = "yes"
     \/ Msg("offer_reply", Sender, t, "accepted") \in net
     \/ neg[t] \in {"approving", "protected"}
     \/ resp[t] \in {"intent", "waiting"}
     \/ row[Receiver][t].intent
     \/ ReceiverState(t) # "absent"
     \/ SenderState(t) \in Resumable \cup {"completed"}) => t \in consented

\* A sender's row that was once approved.
PostApproval == Resumable \cup {"completed", "cancelled", "failed", "deleted"}

\* An authorization is on its way or stored only after the durable approval.
ApprovalInv(t) ==
    (\/ AuthMsg(t) \in net
     \/ authing[t] # {}
     \/ ReceiverState(t) # "absent") => SenderState(t) \in PostApproval

\* Registration comes first and approval last in a negotiation.
NegotiationInv(t) ==
    /\ neg[t] \in {"idle", "imported"} => SenderState(t) = "absent"
    /\ neg[t] # "done" => SenderState(t) \notin Resumable

\* A completion is claimed, and shown by the sender, only after the receiver's.
CompletionInv(t) ==
    (CompletionMsg(t) \in net \/ SenderState(t) = "completed")
        => ReceiverState(t) \in {"completed", "deleted"}

\* Device d has, or had and abandoned, a row for t; and that row can run no more.
Known(d, t) ==
    row[d][t].state = "absent" => d = Sender /\ neg[t] \notin {"idle", "imported"}
Dead(d, t) == Known(d, t) /\ row[d][t].state \notin Preapproval \cup Resumable

\* What a stop in progress has read still holds: a row it knew is known, one it
\* saw ended has ended, and the one it cleans up can run no more.
JobInv(d, t, w) ==
    LET j == job[d][t][w] IN
    /\ j.state # "absent" => j.step # "idle" /\ Known(d, t)
    /\ j.state \in Terminal => Dead(d, t)
    /\ j.step \in {"cleanup", "clear"} => Dead(d, t)
    /\ w = "local" /\ j.step # "idle" => j.state # "absent"
    /\ j.handle # None => j.state # "absent"

\* Secrets named by a live row or by a delivery about to commit are in custody,
\* and no cleanup holds the handle of such a delivery.
CustodyInv(t) ==
    /\ \A d \in Devices :
          /\ row[d][t].state = "absent" => row[d][t].handle = None
          /\ row[d][t].state \in Resumable => row[d][t].handle \in secrets[d][t]
    /\ authing[t] \subseteq secrets[Receiver][t]
    /\ row[Receiver][t].handle \notin authing[t]
    /\ up[Receiver] = "down" => authing[t] = {}
    /\ \A w \in Workers : job[Receiver][t][w].handle \notin authing[t]

\* What the devices know of each other's records, and of their own while a
\* stop, a delivery or a negotiation is in progress, stays true.
InductiveInv ==
    \A t \in Transfers :
        /\ ConsentInv(t) /\ ApprovalInv(t) /\ NegotiationInv(t) /\ CompletionInv(t)
        /\ \A d \in Devices, w \in Workers : JobInv(d, t, w)
        /\ CustodyInv(t)
==============================================================================
