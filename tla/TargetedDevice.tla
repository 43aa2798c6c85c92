---------------------------- MODULE TargetedDevice ---------------------------
(***************************************************************************)
(* What both ends of a Targeted transfer share: the state of the two       *)
(* devices and of the wire between them, and the operations every device   *)
(* runs whichever end it is: local stop, cancel and delete, a peer's       *)
(* cancellation, forgetting or blocking the peer, and the cleanup that all *)
(* of them end with.                                                       *)
(*                                                                         *)
(* The sender owns every transfer of Transfers and offers each to the      *)
(* receiver.  A step is the code between two awaits that matter: one       *)
(* transaction, one in-memory update under its lock, or one message.       *)
(***************************************************************************)
EXTENDS TargetedStore, Naturals

CONSTANTS
    Transfers,   \* transfer ids
    Commands,    \* the <<device, command>> pairs a user may issue
    MaxCrashes   \* bound on process deaths, both devices together

Sender   == "sender"
Receiver == "receiver"
Devices  == {Sender, Receiver}
Peer(d)  == IF d = Sender THEN Receiver ELSE Sender

UserCommands == {"stop", "cancel", "delete", "forget"}

ASSUME CommandsAssumption == Commands \subseteq Devices \X UserCommands
ASSUME CrashesAssumption  == MaxCrashes \in Nat

VARIABLES
    up,          \* [Devices -> Phases], the runtime's startup phase
    saved,       \* [Devices -> BOOLEAN], the relationship is Saved and not blocked
    row,         \* [Devices -> [Transfers -> Records]], SQLite
    secrets,     \* [Devices -> [Transfers -> SUBSET Handles]], protected custody
    job,         \* [Devices -> [Transfers -> [Workers -> Jobs]]], stops in progress
    net,         \* messages in flight
    crashes,     \* process deaths so far
    tag,         \* sender: transfers whose payload a persistent blob tag keeps
    served,      \* sender: transfers whose hashes are registered, default deny
    granted,     \* sender: transfers the access policy lets the receiver read
    neg,         \* sender: [Transfers -> NegSteps], preparation and negotiation
    delivering,  \* sender: the transfer whose authorization delivery awaits a reply
    restoring,   \* sender: rows listed at startup whose access is still to be restored
    pending,     \* receiver: offers in the inbox
    asking,      \* receiver: [Transfers -> AskSteps], the offer RPC's decision channel
    resp,        \* receiver: [Transfers -> RespSteps], respond_to_targeted_offer
    authw,       \* receiver: [Transfers -> WaitSteps], the authorization waiter
    authing,     \* receiver: [Transfers -> SUBSET Handles], deliveries about to commit
    run,         \* receiver: [Transfers -> RunSteps], run_targeted_receive
    active,      \* receiver: active_targeted_transfers
    completing,  \* receiver: the transfer whose completion retry awaits a reply
    consented    \* history: transfers the receiving user has accepted

deviceVars   == <<up, saved, row, secrets, job, net, crashes>>
senderVars   == <<tag, served, granted, neg, delivering, restoring>>
inboxVars    == <<pending, asking, resp, authw>>
receiverVars == <<inboxVars, authing, run, active, completing, consented>>
vars         == <<deviceVars, senderVars, receiverVars>>

(***************************************************************************)
(* Types.                                                                  *)
(***************************************************************************)
Phases  == {"down", "starting", "restoring", "up"}
Workers == {"local", "wire", "forget"}

Jobs == [kind    : {"none", "stop", "abandon", "cancel", "delete", "peer", "forget"},
         step    : {"idle", "abandon", "deny", "cleanup", "clear"},
         state   : RowStates,
         handle  : Handles \cup {None},
         changed : BOOLEAN]

NoJob == [kind |-> "none", step |-> "idle", state |-> "absent",
          handle |-> None, changed |-> FALSE]

NegSteps  == {"idle", "imported", "registering", "registered", "waiting",
              "approving", "protected", "rollback", "teardown", "done"}
AskSteps  == {"idle", "open", "yes", "no"}
RespSteps == {"idle", "accepting", "intent", "waiting"}
WaitSteps == {"none", "empty", "full"}
RunSteps  == {"idle", "active", "connecting", "downloading", "downloaded",
              "acking", "ending"}

Messages == [kind : {"offer", "offer_reply", "authorization", "authorization_reply",
                     "cancel", "completion", "completion_reply"},
             to   : Devices,
             t    : Transfers,
             arg  : {"", "accepted", "declined", "refused", "stored", "rejected",
                     "withdrawn", "cancelled", "deleted", "recorded"}]

Msg(kind, to, t, arg) == [kind |-> kind, to |-> to, t |-> t, arg |-> arg]

\* A reply travels on its call's stream: it is lost when the caller has given
\* up, and a new call no longer listens to the replies of an earlier one.
Awaited(kind, t) ==
    CASE kind = "offer_reply"         -> neg[t] = "waiting"
      [] kind = "authorization_reply" -> delivering = t
      [] kind = "completion_reply"    -> completing = t \/ run[t] = "acking"

Reply(kind, to, t, arg) == IF Awaited(kind, t) THEN {Msg(kind, to, t, arg)} ELSE {}

StaleReplies(kind, t) == {m \in net : m.kind = kind /\ m.t = t}

(***************************************************************************)
(* A device answers calls as soon as its router is spawned, which is       *)
(* before startup has recovered and restored the durable transfers.        *)
(***************************************************************************)
Listening(d) == up[d] # "down"
Running(d)   == up[d] = "up"

SetRow(d, t, r)    == row' = [row EXCEPT ![d][t] = r]
SetJob(d, t, w, j) == job' = [job EXCEPT ![d][t][w] = j]

Snapshot(kind, step, d, t) ==
    [kind |-> kind, step |-> step, state |-> row[d][t].state,
     handle |-> row[d][t].handle, changed |-> FALSE]

(***************************************************************************)
(* TargetedOfferInbox::discard: the entry goes, a waiting offer call sees  *)
(* the decision overwritten with false, the authorization waiter is        *)
(* dropped.                                                                *)
(***************************************************************************)
Discard(T) ==
    /\ pending' = pending \ T
    /\ asking' = [t \in Transfers |->
                    IF t \in T \cap pending /\ asking[t] \in {"open", "yes"}
                    THEN "no" ELSE asking[t]]
    /\ authw' = [t \in Transfers |-> IF t \in T THEN "none" ELSE authw[t]]
    /\ UNCHANGED resp

\* The sender's own inbox holds none of its transfers.
DiscardAt(d, T) == IF d = Receiver THEN Discard(T) ELSE UNCHANGED inboxVars

(***************************************************************************)
(* signal_targeted_transfer_cancel_by_id: the active receive loses its     *)
(* entry, which is its cancellation signal.                                *)
(***************************************************************************)
SignalActive(d, t) == active' = IF d = Receiver THEN active \ {t} ELSE active

\* try_teardown_targeted_payload.
TeardownPayload(t) ==
    /\ tag' = tag \ {t}
    /\ served' = served \ {t}
    /\ granted' = granted \ {t}

(***************************************************************************)
(* Local stop, cancel and delete.  The first step signals the active       *)
(* receive and reads the row; everything later acts on what was read.      *)
(***************************************************************************)
CommandStart(d, t, c) ==
    /\ Running(d)
    /\ <<d, c>> \in Commands
    /\ job[d][t]["local"].step = "idle"
    /\ SignalActive(d, t)
    /\ UNCHANGED <<up, saved, secrets, crashes, senderVars, authing, run,
                   completing, consented>>

\* stop_preparation; the gate has handed out the id of a registered transfer.
StopStart(t) ==
    /\ CommandStart(Sender, t, "stop")
    /\ neg[t] \notin {"idle", "imported", "registering"}
    /\ row[Sender][t].state \in Preapproval \cup Resumable
    /\ SetJob(Sender, t, "local", Snapshot("stop", "abandon", Sender, t))
    /\ UNCHANGED <<row, net, inboxVars>>

\* The conditional delete wins, or the row is read again and must be denied.
StopAbandon(t) ==
    LET r == row[Sender][t]  j == job[Sender][t]["local"] IN
    /\ j.step = "abandon"
    /\ SetRow(Sender, t, AbandonSenderPreapproval(r))
    /\ SetJob(Sender, t, "local",
              IF r.state \in Preapproval
              THEN [j EXCEPT !.kind = "abandon", !.step = "cleanup"]
              ELSE IF r.state \in Terminal \cup {"absent"}
              THEN NoJob
              ELSE Snapshot("stop", "deny", Sender, t))
    /\ UNCHANGED <<up, saved, secrets, net, crashes, senderVars, receiverVars>>

\* terminate_local of a transfer without a row: only an inbox entry and the
\* recorded consent can exist.  The peer is not told.
TerminateUnknown(d, t, c) ==
    /\ c \in {"cancel", "delete"}
    /\ CommandStart(d, t, c)
    /\ row[d][t].state = "absent"
    /\ DiscardAt(d, {t})
    /\ SetRow(d, t, ClearIntent(row[d][t]))
    /\ UNCHANGED <<job, net>>

Target(c) == IF c = "delete" THEN "deleted" ELSE "cancelled"

\* terminate_local of a transfer that is already where the command leads: a
\* cancel still repeats the peer notice.
TerminateAgain(d, t, c) ==
    /\ c \in {"cancel", "delete"}
    /\ CommandStart(d, t, c)
    /\ row[d][t].state = Target(c)
    /\ row[d][t].handle = None
    /\ DiscardAt(d, {t})
    /\ net' = IF c = "cancel"
              THEN net \cup {Msg("cancel", Peer(d), t, "cancelled")} ELSE net
    /\ UNCHANGED <<row, job>>

TerminateStart(d, t, c) ==
    /\ c \in {"cancel", "delete"}
    /\ CommandStart(d, t, c)
    /\ row[d][t].state # "absent"
    /\ row[d][t].state # Target(c) \/ row[d][t].handle # None
    /\ SetJob(d, t, "local", Snapshot(c, "deny", d, t))
    /\ UNCHANGED <<row, net, inboxVars>>

\* transition_terminal with the authorization cleared, then inbox.discard.
Deny(d, t) ==
    LET j == job[d][t]["local"]
        to == Target(j.kind)
        already == j.kind # "stop" /\ j.state = to
    IN  /\ j.step = "deny"
        /\ SetRow(d, t, IF already THEN row[d][t]
                        ELSE TransitionTerminal(row[d][t], to, TRUE))
        /\ SetJob(d, t, "local",
                  [j EXCEPT !.step = "cleanup",
                            !.changed = ~already /\ DeniedBy(row[d][t], to)])
        /\ IF j.kind = "stop" THEN UNCHANGED inboxVars ELSE DiscardAt(d, {t})
        /\ UNCHANGED <<up, saved, secrets, net, crashes, senderVars, authing,
                       run, active, completing, consented>>

(***************************************************************************)
(* CancelOffer from the peer (handle_cancel).  While the offer is still in *)
(* the inbox only the offer and the consent are dropped; otherwise         *)
(* cancel_from_peer reads the row and denies it in a later step.           *)
(***************************************************************************)
CancelArrives(d, t, arg) ==
    /\ Listening(d)
    /\ Msg("cancel", d, t, arg) \in net
    /\ net' = net \ {Msg("cancel", d, t, arg)}
    /\ UNCHANGED <<up, saved, secrets, crashes, senderVars, authing, run,
                   active, completing, consented>>

CancelPendingOffer(t, arg) ==
    /\ CancelArrives(Receiver, t, arg)
    /\ t \in pending
    /\ Discard({t})
    /\ SetRow(Receiver, t, ClearIntent(row[Receiver][t]))
    /\ UNCHANGED job

CancelNothing(d, t) ==
    /\ CancelArrives(d, t, "withdrawn")
    /\ d = Receiver => t \notin pending
    /\ UNCHANGED <<row, job, inboxVars>>

CancelFromPeer(d, t, arg) ==
    /\ arg \in {"cancelled", "deleted"}
    /\ CancelArrives(d, t, arg)
    /\ d = Receiver => t \notin pending
    /\ job[d][t]["wire"].step = "idle"
    /\ SetJob(d, t, "wire", Snapshot("peer", "deny", d, t))
    /\ UNCHANGED <<row, inboxVars>>

\* The second half of cancel_from_peer, on the row as it was read.
DenyFromPeer(d, t) ==
    LET j == job[d][t]["wire"]
        live == j.state \in Preapproval \cup Resumable
        changed == live /\ DeniedBy(row[d][t], "cancelled")
    IN  /\ j.step = "deny"
        /\ SetRow(d, t, CASE j.state = "absent" -> ClearIntent(row[d][t])
                          [] live -> TransitionTerminal(row[d][t], "cancelled", FALSE)
                          [] OTHER -> row[d][t])
        /\ SetJob(d, t, "wire",
                  IF changed \/ j.state = "cancelled"
                  THEN [j EXCEPT !.step = "cleanup"] ELSE NoJob)
        /\ UNCHANGED <<up, saved, secrets, net, crashes, senderVars, receiverVars>>

(***************************************************************************)
(* Forget or block (terminate_peer): the relationship goes first, then the *)
(* inbox entries, then every row of the peer is read, cancelled in one     *)
(* transaction, and cleaned up one by one.                                 *)
(***************************************************************************)
Forget(d) ==
    /\ Running(d)
    /\ <<d, "forget">> \in Commands
    /\ saved[d]
    /\ saved' = [saved EXCEPT ![d] = FALSE]
    /\ DiscardAt(d, Transfers)
    /\ job' = [job EXCEPT ![d] = [t \in Transfers |->
                 [job[d][t] EXCEPT !["forget"] = Snapshot("forget", "deny", d, t)]]]
    /\ UNCHANGED <<up, row, secrets, net, crashes, senderVars, authing, run,
                   active, completing, consented>>

\* Only the rows that were read are cleaned up.
ForgottenJob(j) == IF j.state = "absent" THEN NoJob ELSE [j EXCEPT !.step = "cleanup"]

ForgetDeny(d) ==
    /\ \E t \in Transfers : job[d][t]["forget"].step = "deny"
    /\ row' = [row EXCEPT ![d] = [t \in Transfers |-> CancelByPeer(row[d][t])]]
    /\ job' = [job EXCEPT ![d] = [t \in Transfers |->
                 [job[d][t] EXCEPT !["forget"] = ForgottenJob(job[d][t]["forget"])]]]
    /\ UNCHANGED <<up, saved, secrets, net, crashes, senderVars, receiverVars>>

(***************************************************************************)
(* The cleanup closure of runtime/mod.rs, on the row the stop has read:    *)
(* drop the active receive, the hash registrations, the access policy      *)
(* entry and the blob tag, remove the secret, clear the authorization.     *)
(* Afterwards a local stop tells the peer, best effort.                    *)
(***************************************************************************)
Notices(d, t, j) ==
    { Msg("cancel", Peer(d), t, arg) : arg \in
        CASE j.kind = "abandon"                          -> {"withdrawn"}
          [] j.kind = "stop" /\ j.changed                -> {"cancelled"}
          [] j.kind = "cancel" /\ j.state # "deleted"    -> {"cancelled"}
          [] j.kind = "delete" /\ j.changed              -> {"deleted"}
          [] OTHER                                       -> {} }

FinishJob(d, t, w, j) ==
    /\ SetJob(d, t, w, NoJob)
    /\ net' = net \cup Notices(d, t, j)

Cleanup(d, t, w) ==
    LET j == job[d][t][w] IN
    /\ j.step = "cleanup"
    /\ SignalActive(d, t)
    /\ IF d = Sender THEN TeardownPayload(t) ELSE UNCHANGED <<tag, served, granted>>
    /\ secrets' = [secrets EXCEPT ![d][t] = @ \ {j.handle}]
    /\ IF j.handle = None
       THEN FinishJob(d, t, w, j)
       ELSE SetJob(d, t, w, [j EXCEPT !.step = "clear"]) /\ UNCHANGED net
    /\ UNCHANGED <<up, saved, row, crashes, neg, delivering, restoring, inboxVars,
                   authing, run, completing, consented>>

CleanupClear(d, t, w) ==
    LET j == job[d][t][w] IN
    /\ j.step = "clear"
    /\ SetRow(d, t, ClearAuthorization(row[d][t]))
    /\ FinishJob(d, t, w, j)
    /\ UNCHANGED <<up, saved, secrets, crashes, senderVars, receiverVars>>

\* The steps both devices take.
DeviceStep(d, t) ==
    \/ \E c \in {"cancel", "delete"} :
          TerminateUnknown(d, t, c) \/ TerminateAgain(d, t, c) \/ TerminateStart(d, t, c)
    \/ Deny(d, t)
    \/ CancelNothing(d, t)
    \/ \E arg \in {"cancelled", "deleted"} : CancelFromPeer(d, t, arg)
    \/ DenyFromPeer(d, t)
    \/ \E w \in Workers : Cleanup(d, t, w) \/ CleanupClear(d, t, w)
==============================================================================
